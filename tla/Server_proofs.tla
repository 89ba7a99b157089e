--------------------------- MODULE Server_proofs ---------------------------
(***************************************************************************)
(* Proofs about Bootstrap and HttpServer.                                  *)
(*                                                                         *)
(* Bootstrap: for any number of workers and sockets, a server that is used *)
(* as it is made for never terminates the process, its workers outlive the *)
(* boss, and a shutdown leaves nothing behind.                             *)
(*                                                                         *)
(* HttpServer: for any routes and requests, a response is framed and       *)
(* encoded as it says; the router refuses no request that a route fits,    *)
(* and where parameters have no rivals it calls the right handler.         *)
(***************************************************************************)
EXTENDS Bootstrap, HttpServer, SequenceTheorems, WellFoundedInduction, TLAPS

---------------------------------------------------------------------------
(* The life of a server *)

StartSteps == {"group", "workers", "boss", "listen", "thread"}
StopSteps == {"promise", "stopBoss", "joinBoss", "stopAll", "joinAll"}

\* c has won the exchange of running_ and is taking the server down.
Closing(c) == at[c] \in StopSteps /\ dying # "members"

Up == groupRunning /\ loops = Workers
Down == ~groupRunning /\ loops = {} /\ bossThread = "none"

\* Where main and the stopper can be at the same time.
CallersInv ==
  /\ at["stopper"] \in {"idle", "shutdown", "end"} \cup StopSteps
  /\ at["stopper"] \notin {"idle", "end"} => dying # "members" /\ at["main"] \notin StartSteps
  /\ at["main"] \in StartSteps \cup {"idle", "wait"} => dying = "no"
  /\ at["main"] = "free" => dying = "shutdown" /\ ~running
  /\ at["main"] = "end" => dying = "members"
  /\ dying = "members" => at["main"] \in {"stopAll", "end"} /\ ~running
  /\ ~(Closing("main") /\ Closing("stopper"))

\* What the server is made of at each step of start().
StartInv ==
  /\ starts = 0 => Down /\ ~running /\ ~promise
  /\ at["main"] \in StartSteps => running /\ bossThread = "none"
  /\ at["main"] = "group" => Down
  /\ at["main"] = "workers" => groupRunning /\ loops # Workers
  /\ at["main"] \in {"boss", "listen", "thread"} => Up

\* What is left of it at each step of shutdownGracefully().
StopInv ==
  /\ running => ~promise /\ (at["main"] \in StartSteps \/ Up)
  /\ \A c \in Callers : Closing(c) =>
       /\ ~running
       /\ at[c] # "joinAll" => Up
       /\ at[c] = "promise" => ~promise
       /\ at[c] \in {"stopAll", "joinAll"} => bossThread = "none"
       /\ at[c] = "joinAll" => ~groupRunning /\ loops = Workers
  /\ ~running /\ ~Closing("main") /\ ~Closing("stopper") => Down

\* A thread runs for each worker there is, and the boss needs them all.
ThreadInv ==
  /\ \A w \in Workers : w \notin loops => thread[w] = "none"
  /\ groupRunning => \A w \in loops : thread[w] = "runs" /\ ~quit[w]
  /\ bossThread # "none" => Up

\* Sockets are with a worker that exists, or in the hands of the boss thread.
SockInv ==
  /\ \A s \in Socks :
       /\ sock[s].on # Nobody => sock[s].on \in loops
       /\ sock[s].at \in {"queued", "batch", "table"} => sock[s].on # Nobody
       /\ sock[s].at = "boss" => bossThread = "runs" /\ bossAt = "post"
  /\ \A s, u \in Socks : sock[s].at = "boss" /\ sock[u].at = "boss" => s = u

BootInv == ~dead /\ CallersInv /\ StartInv /\ StopInv /\ ThreadInv /\ SockInv

UsedWell == Misused \/ BootInv

-----------------------------------------------------------------------------
(* Types.                                                                  *)

\* The calls of main and the stopper preserve the types.
LEMMA MainTypes ==
  ASSUME TypeOK, Start \/ Wait \/ Destroy \/ MainStep
  PROVE  TypeOK'
<1>1. CASE Start
  BY <1>1 DEF Start, TypeOK, Go, Callers
<1>2. CASE Wait
  BY <1>2 DEF Wait, TypeOK, Go, Callers, server
<1>3. CASE Destroy
  BY <1>3 DEF Destroy, TypeOK, Go, Callers, server
<1>4. CASE GroupStart
  BY <1>4 DEF GroupStart, TypeOK, Go, Callers
<1>5. CASE MakeBoss
  BY <1>5 DEF MakeBoss, TypeOK, Go, Callers, Boss
<1>6. CASE Listen
  BY <1>6 DEF Listen, TypeOK, Go, Callers
<1>7. CASE ListenFails
  BY <1>7 DEF ListenFails, TypeOK, Go, Callers, server
<1>8. CASE StartBossThread
  BY <1>8 DEF StartBossThread, TypeOK, Go, Callers
<1>9. CASE \E w \in Workers : StartWorker(w)
  BY <1>9 DEF StartWorker, TypeOK, Go, Callers
<1>10. CASE WaitReturns
  BY <1>10 DEF WaitReturns, TypeOK, Go, Callers, server
<1>11. CASE Free
  BY <1>11 DEF Free, TypeOK, Go, Callers
<1> QED BY <1>1, <1>2, <1>3, <1>4, <1>5, <1>6, <1>7, <1>8, <1>9, <1>10, <1>11 DEF MainStep

LEMMA StopTypes ==
  ASSUME TypeOK, NEW c \in Callers, Shutdown(c) \/ StopStep(c)
  PROVE  TypeOK'
<1>0. After(c) \in {"idle", "free", "end"}
  BY DEF After, TypeOK
<1>1. CASE Shutdown(c)
  BY <1>1 DEF Shutdown, TypeOK, Go, server
<1>2. CASE Exchange(c)
  BY <1>0, <1>2, ZenonT(60) DEF Exchange, TypeOK, Go
<1>3. CASE SetPromise(c)
  BY <1>0, <1>3 DEF SetPromise, TypeOK, Go
<1>4. CASE StopBoss(c)
  BY <1>4 DEF StopBoss, TypeOK, Go, Boss
<1>5. CASE JoinBoss(c)
  BY <1>5 DEF JoinBoss, TypeOK, Go
<1>6. CASE StopAll(c)
  BY <1>0, <1>6, ZenonT(60) DEF StopAll, TypeOK, Go
<1>7. CASE JoinAll(c)
  BY <1>0, <1>7 DEF JoinAll, TypeOK, Go
<1> QED BY <1>1, <1>2, <1>3, <1>4, <1>5, <1>6, <1>7 DEF StopStep

\* So do the boss and the workers.
LEMMA ThreadTypes ==
  ASSUME TypeOK, BossStep \/ \E w \in Workers : TaskStep(w) \/ \E s \in Socks : CloseConn(w, s)
  PROVE  TypeOK'
<1>1. CASE BossCheck
  BY <1>1 DEF BossCheck, TypeOK, control
<1>2. CASE BossIterate
  BY <1>2 DEF BossIterate, TypeOK, control, server
<1>3. CASE \E s \in Socks : BossAccept(s)
  BY <1>3 DEF BossAccept, TypeOK, control, server
<1>4. CASE \E s \in Socks : BossPost(s)
  BY <1>4 DEF BossPost, LeastLoaded, TypeOK, control, server
<1>5. CASE \E w \in Workers : WorkerCheck(w)
  BY <1>5 DEF WorkerCheck, TypeOK, control
<1>6. CASE \E w \in Workers : TakeTasks(w)
  BY <1>6 DEF TakeTasks, TypeOK, control, server, On
<1>7. CASE \E w \in Workers : BatchThrows(w)
  BY <1>7 DEF BatchThrows, TypeOK, control, server, On
<1>8. CASE \E w \in Workers : TasksDone(w)
  BY <1>8 DEF TasksDone, TypeOK, control, server
<1>9. CASE \E w \in Workers, s \in Socks : SetupConnection(w, s)
  BY <1>9 DEF SetupConnection, TypeOK, control, server
<1>10. CASE \E w \in Workers, s \in Socks : CloseConn(w, s)
  BY <1>10 DEF CloseConn, TypeOK, control, server
<1>11. CASE \E s \in Socks : BossPostFails(s)
  BY <1>11 DEF BossPostFails, TypeOK, control, server
<1>12. CASE \E w \in Workers : IterationThrows(w)
  BY <1>12 DEF IterationThrows, TypeOK, control, server
<1> QED BY <1>1, <1>2, <1>3, <1>4, <1>5, <1>6, <1>7, <1>8, <1>9, <1>10, <1>11, <1>12
        DEF BossStep, TaskStep

\* All variables of the server keep their types.
THEOREM TypeCorrect == Spec => []TypeOK
<1>1. Init => TypeOK
  <2> SUFFICES ASSUME Init PROVE TypeOK
    OBVIOUS
  <2>1. /\ running \in BOOLEAN /\ promise \in BOOLEAN /\ groupRunning \in BOOLEAN
        /\ listening \in BOOLEAN /\ dead \in BOOLEAN
    BY Zenon DEF Init
  <2>2. /\ loops \subseteq Workers /\ thread \in [Workers -> {"none", "runs", "done"}]
        /\ bossThread = "none" /\ bossAt = "check" /\ dying = "no" /\ starts \in Nat
        /\ workerAt \in [Workers -> {"check", "poll", "tasks"}]
    BY DEF Init
  <2>3. quit \in [Workers \cup {Boss} -> BOOLEAN]
    BY Zenon DEF Init
  <2> QED BY <2>1, <2>2, <2>3 DEF Init, TypeOK
<1>2. TypeOK /\ [Next]_vars => TypeOK'
  <2> SUFFICES ASSUME TypeOK, [Next]_vars PROVE TypeOK'
    OBVIOUS
  <2>1. CASE UNCHANGED vars
    BY <2>1 DEF vars, TypeOK
  <2>2. CASE Next
    BY <2>2, MainTypes, StopTypes, ThreadTypes DEF Next
  <2> QED BY <2>1, <2>2
<1> QED BY <1>1, <1>2, PTL DEF Spec

-----------------------------------------------------------------------------
(* The invariant.                                                          *)

\* Start, GroupStart and the other steps of start().
LEMMA StartKeeps ==
  ASSUME TypeOK, BootInv, ~Misused', Start \/ MainStep
  PROVE  BootInv'
<1> USE WorkersAssumption DEF TypeOK, Go, Moves, Callers, Closing, Up, Down, StartSteps, StopSteps,
        BootInv, CallersInv, StartInv, StopInv, ThreadInv, SockInv, Misused
<1>1. CASE Start
  BY <1>1 DEF Start
<1>2. CASE GroupStart
  BY <1>2 DEF GroupStart
<1>3. CASE MakeBoss
  BY <1>3 DEF MakeBoss, Boss
<1>4. CASE Listen
  BY <1>4 DEF Listen
<1>5. CASE ListenFails
  BY <1>5 DEF ListenFails, server
<1>6. CASE StartBossThread
  BY <1>6 DEF StartBossThread
<1>7. CASE \E w \in Workers : StartWorker(w)
  BY <1>7 DEF StartWorker
<1>8. CASE WaitReturns
  BY <1>8 DEF WaitReturns, server
<1>9. CASE Free
  BY <1>9 DEF Free
<1> QED BY <1>1, <1>2, <1>3, <1>4, <1>5, <1>6, <1>7, <1>8, <1>9 DEF MainStep

\* wait(), shutdownGracefully() and the destructor.
LEMMA StopKeeps ==
  ASSUME TypeOK, BootInv, ~Misused',
         Wait \/ Destroy \/ \E c \in Callers : Shutdown(c) \/ StopStep(c)
  PROVE  BootInv'
<1> USE WorkersAssumption DEF TypeOK, Go, Moves, Callers, Closing, Up, Down, StartSteps, StopSteps,
        BootInv, CallersInv, StartInv, StopInv, ThreadInv, SockInv, Misused
<1>1. CASE Wait
  BY <1>1 DEF Wait, server
<1>2. CASE Destroy
  BY <1>2 DEF Destroy, server
<1>3. CASE \E c \in Callers : Shutdown(c)
  BY <1>3 DEF Shutdown, server
<1>4. CASE \E c \in Callers : Exchange(c)
  BY <1>4 DEF Exchange, After
<1>5. CASE \E c \in Callers : SetPromise(c)
  BY <1>5 DEF SetPromise, After
<1>6. CASE \E c \in Callers : StopBoss(c)
  BY <1>6 DEF StopBoss, Boss
<1>7. CASE \E c \in Callers : JoinBoss(c)
  BY <1>7 DEF JoinBoss
<1>8. CASE \E c \in Callers : StopAll(c)
  BY <1>8 DEF StopAll, After
<1>9. CASE \E c \in Callers : JoinAll(c)
  BY <1>9 DEF JoinAll, After
<1> QED BY <1>1, <1>2, <1>3, <1>4, <1>5, <1>6, <1>7, <1>8, <1>9 DEF StopStep

\* The boss and the workers.
LEMMA ThreadsKeep ==
  ASSUME TypeOK, BootInv,
         BossStep \/ \E w \in Workers : TaskStep(w) \/ \E s \in Socks : CloseConn(w, s)
  PROVE  BootInv'
<1> USE WorkersAssumption DEF TypeOK, Callers, Closing, Up, Down, StartSteps, StopSteps,
        BootInv, CallersInv, StartInv, StopInv, ThreadInv, SockInv
<1>1. CASE BossCheck
  BY <1>1 DEF BossCheck, control
<1>2. CASE BossIterate
  BY <1>2 DEF BossIterate, control, server
<1>3. CASE \E s \in Socks : BossAccept(s)
  BY <1>3 DEF BossAccept, control, server
<1>4. CASE \E s \in Socks : BossPost(s)
  BY <1>4 DEF BossPost, LeastLoaded, control, server
<1>5. CASE \E w \in Workers : WorkerCheck(w)
  BY <1>5 DEF WorkerCheck, control
<1>6. CASE \E w \in Workers : TakeTasks(w)
  BY <1>6 DEF TakeTasks, control, server, On
<1>7. CASE \E w \in Workers : BatchThrows(w)
  BY <1>7 DEF BatchThrows, control, server, On
<1>8. CASE \E w \in Workers : TasksDone(w)
  BY <1>8 DEF TasksDone, control, server
<1>9. CASE \E w \in Workers, s \in Socks : SetupConnection(w, s)
  BY <1>9 DEF SetupConnection, control, server, On
<1>10. CASE \E w \in Workers, s \in Socks : CloseConn(w, s)
  BY <1>10 DEF CloseConn, control, server, On
<1>11. CASE \E s \in Socks : BossPostFails(s)
  BY <1>11 DEF BossPostFails, control, server
<1>12. CASE \E w \in Workers : IterationThrows(w)
  BY <1>12 DEF IterationThrows, control, server
<1> QED BY <1>1, <1>2, <1>3, <1>4, <1>5, <1>6, <1>7, <1>8, <1>9, <1>10, <1>11, <1>12
        DEF BossStep, TaskStep

-----------------------------------------------------------------------------
(* The theorems.                                                           *)

\* No step makes a misused server a well used one.
LEMMA MisuseStays ==
  ASSUME TypeOK, Misused, [Next]_vars
  PROVE  Misused'
<1>1. starts' = starts \/ starts' = starts + 1
  BY DEF Next, vars, Start, Wait, Destroy, MainStep, GroupStart, MakeBoss, Listen, ListenFails,
     StartBossThread, StartWorker, WaitReturns, Free, Shutdown, StopStep, Exchange, SetPromise,
     StopBoss, JoinBoss, StopAll, JoinAll, BossStep, BossCheck, BossIterate, BossAccept, BossPost,
     BossPostFails, IterationThrows, TaskStep, WorkerCheck, TakeTasks, BatchThrows, TasksDone, SetupConnection, CloseConn, control
<1> QED BY <1>1 DEF Misused, TypeOK

LEMMA Inductive == Spec => [](TypeOK /\ UsedWell)
<1>1. Init => UsedWell
  <2> SUFFICES ASSUME Init PROVE BootInv
    BY DEF UsedWell
  <2> QED BY DEF Init, Callers, Closing, Up, Down, StartSteps, StopSteps,
             BootInv, CallersInv, StartInv, StopInv, ThreadInv, SockInv
<1>2. TypeOK /\ UsedWell /\ [Next]_vars => UsedWell'
  <2> SUFFICES ASSUME TypeOK, UsedWell, [Next]_vars, ~Misused' PROVE BootInv'
    BY DEF UsedWell
  <2>1. BootInv
    BY MisuseStays DEF UsedWell
  <2>2. CASE UNCHANGED vars
    BY <2>1, <2>2 DEF vars, Callers, Closing, Up, Down, BootInv, CallersInv, StartInv, StopInv,
       ThreadInv, SockInv
  <2>3. CASE Next
    BY <2>1, <2>3, StartKeeps, StopKeeps, ThreadsKeep DEF Next
  <2> QED BY <2>2, <2>3
<1> QED BY <1>1, <1>2, TypeCorrect, PTL DEF Spec

\* A server that is started once and stopped from main's thread never ends in
\* std::terminate() or in a use of what was destroyed.
THEOREM NeverTerminatesAlways == Spec => []NeverTerminates
<1>1. UsedWell => NeverTerminates
  BY DEF UsedWell, BootInv, NeverTerminates
<1> QED BY <1>1, Inductive, PTL

\* While the boss thread runs, all workers do.
THEOREM BossNeverAlone == Spec => []WorkersOutliveBoss
<1>1. TypeOK /\ UsedWell => WorkersOutliveBoss
  BY DEF TypeOK, UsedWell, BootInv, ThreadInv, Up, WorkersOutliveBoss
<1> QED BY <1>1, Inductive, PTL

\* After shutdownGracefully() no thread is left, and no socket is with one.
THEOREM ShutdownCorrect == Spec => []ShutdownIsComplete
<1>1. TypeOK /\ UsedWell => ShutdownIsComplete
  BY DEF TypeOK, UsedWell, BootInv, StopInv, ThreadInv, SockInv, Closing, Down, StopSteps,
     ShutdownIsComplete
<1> QED BY <1>1, Inductive, PTL

---------------------------------------------------------------------------
(* Numbers *)

\* A nonempty set of numbers has a least element.
LEMMA LeastOf ==
  ASSUME NEW T \in SUBSET Nat, T # {}
  PROVE  \E x \in T : \A y \in T : x <= y
  <1> DEFINE R == OpToRel(<, Nat)
  <1>1. IsWellFoundedOn(R, Nat)  BY NatLessThanWellFounded
  <1>2. \A x, y \in Nat : x < y => <<x, y>> \in R  BY DEF OpToRel
  <1> HIDE DEF R
  <1>3. PICK x \in T : \A y \in T : ~(<<y, x>> \in R)  BY <1>1, WFMin
  <1>4. \A y \in T : y \in Nat /\ x \in Nat /\ ~(y < x)  BY <1>2, <1>3
  <1>5. \A y \in T : x <= y  BY <1>4
  <1>6. QED  BY <1>5

---------------------------------------------------------------------------
(* Recursive definitions *)

\* What holds of 0 and goes on from one number to the next holds up to n.
LEMMA UpTo ==
  ASSUME NEW n \in Nat, NEW S, 0 \in S, \A i \in 1..n : i - 1 \in S => i \in S
  PROVE  \A i \in 0..n : i \in S
  <1> DEFINE Bad == {i \in 0..n : i \notin S}
  <1>1. SUFFICES ASSUME Bad # {} PROVE FALSE  OBVIOUS
  <1>2. Bad \in SUBSET Nat  OBVIOUS
  <1>3. PICK k \in Bad : \A y \in Bad : k <= y  BY <1>1, <1>2, LeastOf
  <1>4. k # 0  BY <1>3
  <1>5. k \in 1..n /\ k - 1 \in 0..n /\ ~(k <= k - 1)  BY <1>3, <1>4
  <1>6. k - 1 \in Bad => k <= k - 1  BY <1>3
  <1>7. k - 1 \in S  BY <1>5, <1>6
  <1>8. k \in S  BY <1>5, <1>7
  <1>9. QED  BY <1>3, <1>8

\* f is what the equations f[0] = base and f[i] = step[i][f[i - 1]] define.
Solves(f, n, base, step) == f[0] = base /\ \A i \in 1..n : f[i] = step[i][f[i - 1]]

\* Such equations have a solution when their steps stay in T.
LEMMA RecExists ==
  ASSUME NEW T, NEW base \in T, NEW n \in Nat, NEW step \in [1..n -> [T -> T]]
  PROVE  \E f \in [0..n -> T] : Solves(f, n, base, step)
  <1> USE DEF Solves
  <1> DEFINE S == {k \in 0..n : \E f \in [0..k -> T] : Solves(f, k, base, step)}
  <1>1. 0 \in S
    <2> DEFINE f == [i \in 0..0 |-> base]
    <2>1. f \in [0..0 -> T] /\ Solves(f, 0, base, step)  OBVIOUS
    <2>2. 0 \in 0..n  OBVIOUS
    <2> HIDE DEF f
    <2>3. QED  BY <2>1, <2>2, Zenon
  <1>2. ASSUME NEW k \in 1..n, k - 1 \in S PROVE k \in S
    <2>1. PICK f \in [0..k - 1 -> T] : Solves(f, k - 1, base, step)  BY <1>2
    <2> DEFINE g == [i \in 0..k |-> IF i = k THEN step[k][f[k - 1]] ELSE f[i]]
    <2>2. f[k - 1] \in T  BY <2>1
    <2>3. step[k][f[k - 1]] \in T  BY <2>2
    <2>4. \A i \in 0..k : i # k => i \in 0..k - 1  OBVIOUS
    <2>5. g \in [0..k -> T]  BY <2>1, <2>3, <2>4
    <2>6. \A i \in 0..k - 1 : g[i] = f[i]  OBVIOUS
    <2>7. g[k] = step[k][f[k - 1]]  OBVIOUS
    <2> HIDE DEF g
    <2>8. g[0] = base  BY <2>1, <2>6
    <2>9. ASSUME NEW i \in 1..k PROVE g[i] = step[i][g[i - 1]]
      <3>1. g[i - 1] = f[i - 1]  BY <2>6
      <3>2. CASE i = k  BY <3>1, <3>2, <2>7
      <3>3. CASE i # k
        <4>1. i \in 1..k - 1  BY <3>3
        <4>2. QED  BY <4>1, <3>1, <2>1, <2>6
      <3>4. QED  BY <3>2, <3>3
    <2>10. k \in 0..n  OBVIOUS
    <2>11. QED  BY <2>5, <2>8, <2>9, <2>10
  <1> HIDE DEF S
  <1>3. \A i \in 0..n : i \in S  BY <1>1, <1>2, UpTo
  <1>4. n \in 0..n  OBVIOUS
  <1>5. QED  BY <1>3, <1>4 DEF S

\* And a function that follows them as long as it is in T is a solution.
LEMMA RecTyped ==
  ASSUME NEW T, NEW n \in Nat, NEW c, c[0] \in T, \A i \in 1..n : c[i - 1] \in T => c[i] \in T
  PROVE  \A i \in 0..n : c[i] \in T
  <1> DEFINE S == {i \in 0..n : c[i] \in T}
  <1>1. 0 \in S  OBVIOUS
  <1>2. \A i \in 1..n : i - 1 \in S => i \in S  OBVIOUS
  <1> HIDE DEF S
  <1>3. \A i \in 0..n : i \in S  BY <1>1, <1>2, UpTo
  <1>4. QED  BY <1>3 DEF S

---------------------------------------------------------------------------
(* Paths *)

Skip(p, i) == p[i] = "/" /\ i > 1 /\ p[i - 1] = "/"
WithoutEnd(q) == IF Len(q) > 1 /\ Last(q) = "/" THEN Front(q) ELSE q

\* normalizePath() character by character.
LEMMA NormalizeSteps ==
  ASSUME NEW A, NEW p \in Seq(A)
  PROVE  \E c \in [0..Len(p) -> Seq(A)] :
           /\ c[0] = <<>>
           /\ \A i \in 1..Len(p) : c[i] = IF Skip(p, i) THEN c[i - 1] ELSE Append(c[i - 1], p[i])
           /\ NormalizePath(p) = WithoutEnd(c[Len(p)])
  <1> DEFINE n == Len(p)
             T == Seq(A)
             Step(i, x) == IF Skip(p, i) THEN x ELSE Append(x, p[i])
  <1> DEFINE Is(f) == f = [i \in 0..n |-> IF i = 0 THEN <<>> ELSE Step(i, f[i - 1])]
             step == [i \in 1..n |-> [x \in T |-> Step(i, x)]]
             c == CHOOSE f : Is(f)
  <1>1. n \in Nat /\ <<>> \in T
    OBVIOUS
  <1>2. ASSUME NEW i \in 1..n, NEW x \in T PROVE Step(i, x) \in T
    <2>1. p[i] \in A  OBVIOUS
    <2> HIDE DEF Skip
    <2>2. QED  BY <2>1
  <1> HIDE DEF Step, T, n
  <1>3. step \in [1..n -> [T -> T]] /\ \A i \in 1..n, x \in T : step[i][x] = Step(i, x)  BY <1>2
  <1> HIDE DEF step
  <1>4. PICK f \in [0..n -> T] : Solves(f, n, <<>>, step)  BY <1>1, <1>3, RecExists, Zenon
  <1>5. Is(f)
    <2>1. ASSUME NEW i \in 0..n
          PROVE  f[i] = IF i = 0 THEN <<>> ELSE Step(i, f[i - 1])
      <3>1. CASE i = 0  BY <3>1, <1>4 DEF Solves
      <3>2. CASE i # 0
        <4>1. i \in 1..n /\ i - 1 \in 0..n  BY <3>2, <1>1
        <4>2. f[i - 1] \in T /\ f[i] = step[i][f[i - 1]]  BY <4>1, <1>4, Zenon DEF Solves
        <4>3. QED  BY <3>2, <4>1, <4>2, <1>3, Zenon
      <3>3. QED  BY <3>1, <3>2
    <2>2. QED  BY <2>1
  <1>6. Is(c)  BY <1>5, Zenon
  <1> HIDE DEF c
  <1>7. c = [i \in 0..n |-> c[i]] /\ \A i \in 0..n : c[i] = IF i = 0 THEN <<>> ELSE Step(i, c[i - 1])  BY <1>6
  <1> HIDE DEF Is
  <1>8. c[0] = <<>> /\ \A i \in 1..n : c[i] = Step(i, c[i - 1])
    <2>1. 0 \in 0..n /\ \A i \in 1..n : i \in 0..n /\ i # 0  BY <1>1
    <2>2. QED  BY <2>1, <1>7, Zenon
  <1>9. \A i \in 1..n : c[i - 1] \in T => c[i] \in T  BY <1>2, <1>8, Zenon
  <1>10. \A i \in 0..n : c[i] \in T  BY <1>1, <1>8, <1>9, RecTyped, Zenon
  <1>11. c \in [0..n -> T]  BY <1>7, <1>10
  <1>12. NormalizePath(p) = WithoutEnd(c[n])
    BY Zenon DEF NormalizePath, WithoutEnd, c, Is, Step, Skip, n
  <1>13. QED  BY <1>8, <1>11, <1>12, Zenon DEF Step, T, n

\* splitPath() too.
LEMMA SplitSteps ==
  ASSUME NEW A, NEW p \in Seq(A)
  PROVE  \E c \in [0..Len(p) -> Seq(A)] :
           /\ c[0] = <<>>
           /\ \A i \in 1..Len(p) : c[i] = IF p[i] = "/" THEN c[i - 1] ELSE Append(c[i - 1], p[i])
           /\ SplitPath(p) = c[Len(p)]
  <1> DEFINE n == Len(p)
             T == Seq(A)
             Step(i, x) == IF p[i] = "/" THEN x ELSE Append(x, p[i])
  <1> DEFINE Is(f) == f = [i \in 0..n |-> IF i = 0 THEN <<>> ELSE Step(i, f[i - 1])]
             step == [i \in 1..n |-> [x \in T |-> Step(i, x)]]
             c == CHOOSE f : Is(f)
  <1>1. n \in Nat /\ <<>> \in T
    OBVIOUS
  <1>2. ASSUME NEW i \in 1..n, NEW x \in T PROVE Step(i, x) \in T
    <2>1. p[i] \in A  OBVIOUS
    <2>2. QED  BY <2>1
  <1> HIDE DEF Step, T, n
  <1>3. step \in [1..n -> [T -> T]] /\ \A i \in 1..n, x \in T : step[i][x] = Step(i, x)  BY <1>2
  <1> HIDE DEF step
  <1>4. PICK f \in [0..n -> T] : Solves(f, n, <<>>, step)  BY <1>1, <1>3, RecExists, Zenon
  <1>5. Is(f)
    <2>1. ASSUME NEW i \in 0..n
          PROVE  f[i] = IF i = 0 THEN <<>> ELSE Step(i, f[i - 1])
      <3>1. CASE i = 0  BY <3>1, <1>4 DEF Solves
      <3>2. CASE i # 0
        <4>1. i \in 1..n /\ i - 1 \in 0..n  BY <3>2, <1>1
        <4>2. f[i - 1] \in T /\ f[i] = step[i][f[i - 1]]  BY <4>1, <1>4, Zenon DEF Solves
        <4>3. QED  BY <3>2, <4>1, <4>2, <1>3, Zenon
      <3>3. QED  BY <3>1, <3>2
    <2>2. QED  BY <2>1
  <1>6. Is(c)  BY <1>5, Zenon
  <1> HIDE DEF c
  <1>7. c = [i \in 0..n |-> c[i]] /\ \A i \in 0..n : c[i] = IF i = 0 THEN <<>> ELSE Step(i, c[i - 1])  BY <1>6
  <1> HIDE DEF Is
  <1>8. c[0] = <<>> /\ \A i \in 1..n : c[i] = Step(i, c[i - 1])
    <2>1. 0 \in 0..n /\ \A i \in 1..n : i \in 0..n /\ i # 0  BY <1>1
    <2>2. QED  BY <2>1, <1>7, Zenon
  <1>9. \A i \in 1..n : c[i - 1] \in T => c[i] \in T  BY <1>2, <1>8, Zenon
  <1>10. \A i \in 0..n : c[i] \in T  BY <1>1, <1>8, <1>9, RecTyped, Zenon
  <1>11. c \in [0..n -> T]  BY <1>7, <1>10
  <1>12. SplitPath(p) = c[n]
    BY Zenon DEF SplitPath, c, Is, Step, n
  <1>13. QED  BY <1>8, <1>11, <1>12, Zenon DEF Step, T, n

---------------------------------------------------------------------------
(* The tree *)

\* findOrCreate() node by node.
LEMMA CreatedSteps ==
  ASSUME NEW L, NEW labels \in Seq(L), nodes \in Seq(Seq(L))
  PROVE  \E c \in [0..Len(labels) -> Seq(Seq(L))] :
           /\ c[0] = nodes
           /\ \A i \in 1..Len(labels) :
                c[i] = IF SubSeq(labels, 1, i) \in Range(c[i - 1]) THEN c[i - 1] ELSE Append(c[i - 1], SubSeq(labels, 1, i))
           /\ Created(labels) = c[Len(labels)]
  <1> DEFINE n == Len(labels)
             T == Seq(Seq(L))
             Step(i, x) == IF SubSeq(labels, 1, i) \in Range(x) THEN x ELSE Append(x, SubSeq(labels, 1, i))
  <1> DEFINE Is(f) == f = [i \in 0..n |-> IF i = 0 THEN nodes ELSE Step(i, f[i - 1])]
             step == [i \in 1..n |-> [x \in T |-> Step(i, x)]]
             c == CHOOSE f : Is(f)
  <1>1. n \in Nat /\ nodes \in T
    OBVIOUS
  <1>2. ASSUME NEW i \in 1..n, NEW x \in T PROVE Step(i, x) \in T
    <2>1. SubSeq(labels, 1, i) \in Seq(L)  OBVIOUS
    <2>2. QED  BY <2>1
  <1> HIDE DEF Step, T, n
  <1>3. step \in [1..n -> [T -> T]] /\ \A i \in 1..n, x \in T : step[i][x] = Step(i, x)  BY <1>2
  <1> HIDE DEF step
  <1>4. PICK f \in [0..n -> T] : Solves(f, n, nodes, step)  BY <1>1, <1>3, RecExists, Zenon
  <1>5. Is(f)
    <2>1. ASSUME NEW i \in 0..n
          PROVE  f[i] = IF i = 0 THEN nodes ELSE Step(i, f[i - 1])
      <3>1. CASE i = 0  BY <3>1, <1>4 DEF Solves
      <3>2. CASE i # 0
        <4>1. i \in 1..n /\ i - 1 \in 0..n  BY <3>2, <1>1
        <4>2. f[i - 1] \in T /\ f[i] = step[i][f[i - 1]]  BY <4>1, <1>4, Zenon DEF Solves
        <4>3. QED  BY <3>2, <4>1, <4>2, <1>3, Zenon
      <3>3. QED  BY <3>1, <3>2
    <2>2. QED  BY <2>1
  <1>6. Is(c)  BY <1>5, Zenon
  <1> HIDE DEF c
  <1>7. c = [i \in 0..n |-> c[i]] /\ \A i \in 0..n : c[i] = IF i = 0 THEN nodes ELSE Step(i, c[i - 1])  BY <1>6
  <1> HIDE DEF Is
  <1>8. c[0] = nodes /\ \A i \in 1..n : c[i] = Step(i, c[i - 1])
    <2>1. 0 \in 0..n /\ \A i \in 1..n : i \in 0..n /\ i # 0  BY <1>1
    <2>2. QED  BY <2>1, <1>7, Zenon
  <1>9. \A i \in 1..n : c[i - 1] \in T => c[i] \in T  BY <1>2, <1>8, Zenon
  <1>10. \A i \in 0..n : c[i] \in T  BY <1>1, <1>8, <1>9, RecTyped, Zenon
  <1>11. c \in [0..n -> T]  BY <1>7, <1>10
  <1>12. Created(labels) = c[n]
    BY Zenon DEF Created, c, Is, Step, n
  <1>13. QED  BY <1>8, <1>11, <1>12, Zenon DEF Step, T, n

\* Normal paths: "/" at the odd places, segments at the even ones.
Alternates(q) == \A j \in 1..Len(q) : q[j] = "/" <=> j % 2 = 1
IsNormal(q) == Len(q) >= 1 /\ (Len(q) = 1 \/ Len(q) % 2 = 0) /\ Alternates(q)

\* Even and odd numbers take turns, and so do halves grow.
LEMMA Parity ==
  ASSUME NEW m \in Nat
  PROVE  (m % 2 = 0 <=> m % 2 # 1) /\ ((m + 1) % 2 = 1 <=> m % 2 = 0) /\ ((m + 1) % 2 = 0 <=> m % 2 # 0)
  OBVIOUS

LEMMA Halves ==
  ASSUME NEW m \in Nat \ {0}
  PROVE  /\ m % 2 = 1 => (m - 1) \div 2 = m \div 2
         /\ m % 2 # 1 => m \div 2 = (m - 1) \div 2 + 1 /\ 2 * (m \div 2) = m
         /\ m \div 2 \in Nat /\ (m - 1) \div 2 \in Nat
  OBVIOUS

\* normalizePath() makes them.
LEMMA NormalizeForm ==
  ASSUME NEW p, IsPath(p)
  PROVE  NormalizePath(p) \in Seq(Range(p)) /\ IsNormal(NormalizePath(p))
  <1> DEFINE A == Range(p)
             n == Len(p)
  <1>1. p \in Seq(A) /\ n \in Nat \ {0} /\ p[1] = "/" /\ \A i \in 1..n - 1 : p[i] = "/" \/ p[i + 1] = "/"
    BY DEF IsPath
  <1>2. PICK c \in [0..n -> Seq(A)] :
           /\ c[0] = <<>>
           /\ \A i \in 1..n : c[i] = IF Skip(p, i) THEN c[i - 1] ELSE Append(c[i - 1], p[i])
           /\ NormalizePath(p) = WithoutEnd(c[n])
    BY <1>1, NormalizeSteps, Zenon
  <1>3. \A i \in 1..n : p[i] \in A  BY <1>1
  <1> HIDE DEF A, n
  <1> DEFINE Good(i) == /\ Len(c[i]) >= 1 /\ Alternates(c[i]) /\ (Len(c[i]) % 2 = 1 <=> p[i] = "/")
             S == {i \in 0..n : i # 0 => Good(i)}
  <1>4. 0 \in S  BY <1>1
  <1>5. ASSUME NEW i \in 1..n, i - 1 \in S PROVE i \in S
    <2> DEFINE x == c[i - 1]
    <2>1. x \in Seq(A) /\ Len(x) \in Nat /\ i \in 0..n /\ p[i] \in A  BY <1>1, <1>2, <1>3
    <2>2. CASE Skip(p, i)
      <3>1. c[i] = x /\ p[i] = "/" /\ p[i - 1] = "/" /\ i - 1 # 0  BY <2>2, <1>2 DEF Skip
      <3>2. QED  BY <3>1, <2>1, <1>5
    <2>3. CASE ~Skip(p, i)
      <3>1. c[i] = Append(x, p[i])  BY <2>3, <1>2
      <3>2. /\ Len(c[i]) = Len(x) + 1 /\ c[i][Len(x) + 1] = p[i]
            /\ \A j \in 1..Len(x) : c[i][j] = x[j]
        BY <2>1, <3>1
      <3>3. Alternates(x) /\ (p[i] = "/" <=> Len(x) % 2 = 0)
        <4>1. CASE i = 1
          <5>1. x = <<>> /\ p[i] = "/"  BY <4>1, <1>1, <1>2
          <5>2. QED  BY <5>1 DEF Alternates
        <4>2. CASE i # 1
          <5>1. i - 1 \in 1..n - 1 /\ (i - 1) + 1 = i /\ i - 1 # 0 /\ i > 1  BY <4>2, <1>1
          <5>2. Good(i - 1)  BY <5>1, <1>5
          <5>3. p[i - 1] = "/" \/ p[i] = "/"  BY <5>1, <1>1
          <5>4. ~(p[i] = "/" /\ p[i - 1] = "/")  BY <5>1, <2>3 DEF Skip
          <5>5. Alternates(x) /\ (Len(x) % 2 = 1 <=> p[i - 1] = "/")  BY <5>2
          <5>6. Len(x) % 2 = 0 <=> Len(x) % 2 # 1  BY <2>1, Parity
          <5>7. QED  BY <5>3, <5>4, <5>5, <5>6, Zenon
        <4>3. QED  BY <4>1, <4>2
      <3>4. Alternates(c[i])
        <4>1. SUFFICES ASSUME NEW j \in 1..Len(x) + 1 PROVE c[i][j] = "/" <=> j % 2 = 1
          BY <3>2 DEF Alternates
        <4>2. CASE j = Len(x) + 1
          <5>1. j % 2 = 1 <=> Len(x) % 2 = 0  BY <4>2, <2>1, Parity
          <5>2. QED  BY <5>1, <4>2, <3>2, <3>3
        <4>3. CASE j # Len(x) + 1
          <5>1. j \in 1..Len(x)  BY <4>3, <2>1
          <5>2. QED  BY <5>1, <3>2, <3>3 DEF Alternates
        <4>4. QED  BY <4>2, <4>3
      <3>5. Len(c[i]) % 2 = 1 <=> p[i] = "/"
        <4>1. (Len(x) + 1) % 2 = 1 <=> Len(x) % 2 = 0  BY <2>1, Parity
        <4>2. QED  BY <4>1, <3>2, <3>3
      <3>6. Len(c[i]) >= 1  BY <3>2, <2>1
      <3>7. QED  BY <3>4, <3>5, <3>6, <2>1, Zenon
    <2>4. QED  BY <2>2, <2>3
  <1> HIDE DEF S
  <1>6. \A i \in 0..n : i \in S  BY <1>1, <1>4, <1>5, UpTo
  <1> DEFINE q == c[n]
  <1>7. Good(n) /\ q \in Seq(A) /\ Len(q) \in Nat  BY <1>1, <1>2, <1>6 DEF S
  <1>8. Last(q) = "/" <=> Len(q) % 2 = 1
    <2>1. Len(q) \in 1..Len(q)  BY <1>7
    <2>2. QED  BY <2>1, <1>7, Zenon DEF Alternates, Last
  <1>9. CASE Len(q) > 1 /\ Last(q) = "/"
    <2> DEFINE r == SubSeq(q, 1, Len(q) - 1)
    <2>1. WithoutEnd(q) = r  BY <1>9 DEF WithoutEnd, Front
    <2>2. r \in Seq(A) /\ Len(r) = Len(q) - 1 /\ \A j \in 1..Len(q) - 1 : r[j] = q[j]  BY <1>7, <1>9
    <2> HIDE DEF r
    <2>3. Len(r) >= 1 /\ Len(r) % 2 = 0
      <3>1. Len(r) \in Nat /\ Len(r) + 1 = Len(q) /\ Len(r) >= 1  BY <2>2, <1>7, <1>9
      <3>2. (Len(r) + 1) % 2 = 1 <=> Len(r) % 2 = 0  BY <3>1, Parity
      <3>3. QED  BY <3>1, <3>2, <1>8, <1>9
    <2>4. Alternates(r)  BY <2>2, <1>7 DEF Alternates
    <2>5. QED  BY <2>1, <2>2, <2>3, <2>4, <1>2 DEF IsNormal, A
  <1>10. CASE ~(Len(q) > 1 /\ Last(q) = "/")
    <2>1. WithoutEnd(q) = q  BY <1>10 DEF WithoutEnd
    <2>2. Len(q) = 1 \/ Len(q) % 2 = 0
      <3>1. Len(q) % 2 = 0 <=> Len(q) % 2 # 1  BY <1>7, Parity
      <3>2. Len(q) \in Nat /\ Len(q) >= 1  BY <1>7, Zenon
      <3>3. \A l \in Nat : l >= 1 => l > 1 \/ l = 1  OBVIOUS
      <3>4. Len(q) > 1 \/ Len(q) = 1  BY <3>2, <3>3, Zenon
      <3>5. QED  BY <3>1, <3>4, <1>8, <1>10, Zenon
    <2>3. QED  BY <2>1, <2>2, <1>2, <1>7 DEF IsNormal, A
  <1>11. QED  BY <1>9, <1>10

\* splitPath() takes the segments from the even places.
LEMMA SplitForm ==
  ASSUME NEW A, NEW q \in Seq(A), IsNormal(q)
  PROVE  /\ SplitPath(q) \in Seq(A) /\ Len(SplitPath(q)) = Len(q) \div 2
         /\ \A j \in 1..Len(q) \div 2 : SplitPath(q)[j] = q[2 * j] /\ SplitPath(q)[j] # "/"
  <1> DEFINE n == Len(q)
  <1>1. PICK c \in [0..n -> Seq(A)] :
           /\ c[0] = <<>>
           /\ \A i \in 1..n : c[i] = IF q[i] = "/" THEN c[i - 1] ELSE Append(c[i - 1], q[i])
           /\ SplitPath(q) = c[n]
    BY SplitSteps, Zenon
  <1>2. n \in Nat /\ \A i \in 1..n : q[i] \in A /\ (q[i] = "/" <=> i % 2 = 1)  BY DEF IsNormal, Alternates
  <1> HIDE DEF n
  <1> DEFINE S == {i \in 0..n : Len(c[i]) = i \div 2 /\ \A j \in 1..i \div 2 : c[i][j] = q[2 * j]}
  <1>3. 0 \in S
    <2>1. 0 \div 2 = 0 /\ 0 \in 0..n /\ Len(c[0]) = 0  BY <1>1, <1>2
    <2>2. QED  BY <2>1
  <1>4. ASSUME NEW i \in 1..n, i - 1 \in S PROVE i \in S
    <2> DEFINE x == c[i - 1]
    <2>1. x \in Seq(A) /\ q[i] \in A /\ i \in 0..n  BY <1>1, <1>2
    <2>2. Len(x) = (i - 1) \div 2 /\ \A j \in 1..(i - 1) \div 2 : x[j] = q[2 * j]  BY <1>4
    <2>3. CASE i % 2 = 1
      <3>1. c[i] = x /\ (i - 1) \div 2 = i \div 2  BY <2>3, <1>1, <1>2, Halves
      <3>2. QED  BY <3>1, <2>1, <2>2
    <2>4. CASE i % 2 # 1
      <3>1. c[i] = Append(x, q[i])  BY <2>4, <1>1, <1>2
      <3>6. i \div 2 = (i - 1) \div 2 + 1 /\ 2 * (i \div 2) = i /\ (i - 1) \div 2 \in Nat
        <4>1. i \in Nat \ {0}  BY <1>2
        <4>2. QED  BY <4>1, <2>4, Halves
      <3>2. Len(c[i]) = Len(x) + 1 /\ c[i][Len(x) + 1] = q[i] /\ \A j \in 1..Len(x) : c[i][j] = x[j]
        BY <3>1, <2>1
      <3>3. Len(c[i]) = i \div 2  BY <3>6, <3>2, <2>2
      <3>4. ASSUME NEW j \in 1..i \div 2 PROVE c[i][j] = q[2 * j]
        <4>1. CASE j = i \div 2  BY <4>1, <3>6, <3>2, <2>2
        <4>2. CASE j # i \div 2
          <5>1. j \in 1..(i - 1) \div 2  BY <4>2, <3>6
          <5>2. QED  BY <5>1, <3>2, <2>2
        <4>3. QED  BY <4>1, <4>2
      <3>5. QED  BY <3>3, <3>4, <2>1
    <2>5. QED  BY <2>3, <2>4
  <1> HIDE DEF S
  <1>5. \A i \in 0..n : i \in S  BY <1>2, <1>3, <1>4, UpTo
  <1>6. n \in S /\ c[n] \in Seq(A)  BY <1>1, <1>2, <1>5
  <1>7. Len(c[n]) = n \div 2 /\ \A j \in 1..n \div 2 : c[n][j] = q[2 * j]  BY <1>6 DEF S
  <1>8. ASSUME NEW j \in 1..n \div 2 PROVE q[2 * j] # "/"
    <2>1. 2 * j \in 1..n /\ (2 * j) % 2 # 1  BY <1>2
    <2>2. QED  BY <2>1, <1>2
  <1>9. QED  BY <1>1, <1>6, <1>7, <1>8 DEF n

\* A normal path is determined by its segments.
LEMMA NormalUnique ==
  ASSUME NEW A, NEW q \in Seq(A), IsNormal(q), NEW B, NEW r \in Seq(B), IsNormal(r), SplitPath(q) = SplitPath(r)
  PROVE  q = r
  <1>1. Len(q) \div 2 = Len(r) \div 2 /\ \A j \in 1..Len(q) \div 2 : q[2 * j] = r[2 * j]
    <2>1. /\ Len(SplitPath(q)) = Len(q) \div 2 /\ Len(SplitPath(r)) = Len(r) \div 2
          /\ \A j \in 1..Len(q) \div 2 : SplitPath(q)[j] = q[2 * j]
          /\ \A j \in 1..Len(r) \div 2 : SplitPath(r)[j] = r[2 * j]
      BY SplitForm, Zenon
    <2>2. QED  BY <2>1
  <1>2. Len(q) \in Nat /\ Len(r) \in Nat /\ Len(q) = Len(r)
    <2>1. Len(q) \in Nat /\ Len(r) \in Nat  OBVIOUS
    <2>2. QED  BY <2>1, <1>1 DEF IsNormal
  <1>3. ASSUME NEW j \in 1..Len(q) PROVE q[j] = r[j]
    <2>1. CASE j % 2 = 1  BY <2>1, <1>2, <1>3 DEF IsNormal, Alternates
    <2>2. CASE j % 2 # 1
      <3>1. j \div 2 \in 1..Len(q) \div 2 /\ 2 * (j \div 2) = j  BY <2>2, <1>2
      <3>2. QED  BY <3>1, <1>1
    <2>3. QED  BY <2>1, <2>2
  <1>4. q \in Seq(A \cup B) /\ r \in Seq(A \cup B)
    <2>1. (\A j \in 1..Len(q) : q[j] \in A) /\ (\A j \in 1..Len(r) : r[j] \in B)  OBVIOUS
    <2>2. QED  BY <2>1
  <1>5. QED  BY <1>2, <1>3, <1>4, SeqEqual

\* What addRoute() gets from a path.
LEMMA RouteSegs ==
  ASSUME NEW p, IsPath(p)
  PROVE  /\ NormalizePath(p) \in Seq(Range(p)) /\ IsNormal(NormalizePath(p))
         /\ SplitPath(NormalizePath(p)) \in Seq(Range(p))
  <1>1. NormalizePath(p) \in Seq(Range(p)) /\ IsNormal(NormalizePath(p))  BY NormalizeForm
  <1>2. QED  BY <1>1, SplitForm, Zenon

\* Sequences over a set are sequences over a larger one.
LEMMA SeqWider ==
  ASSUME NEW A, NEW B, A \subseteq B, NEW s \in Seq(A)
  PROVE  s \in Seq(B)
  OBVIOUS

LEMMA RouteTokens ==
  ASSUME NEW p \in RoutePaths
  PROVE  /\ NormalizePath(p) \in Seq(Tokens) /\ IsNormal(NormalizePath(p))
         /\ SplitPath(NormalizePath(p)) \in Seq(Tokens)
  <1>1. Range(p) \subseteq Tokens  BY Zenon DEF Tokens
  <1>2. IsPath(p)  BY RoutePathsAssumption
  <1>3. QED  BY <1>1, <1>2, RouteSegs, SeqWider, Zenon

\* Labels() of segments.
TreeLabels == {Label(t) : t \in Tokens}

LEMMA LabelsType ==
  ASSUME NEW segs \in Seq(Tokens)
  PROVE  /\ Labels(segs) \in Seq(TreeLabels) /\ Len(Labels(segs)) = Len(segs)
         /\ \A i \in 1..Len(segs) : Labels(segs)[i] = Label(segs[i])
  <1>1. \A i \in 1..Len(segs) : Label(segs[i]) \in TreeLabels
    <2>1. \A i \in 1..Len(segs) : segs[i] \in Tokens  OBVIOUS
    <2>2. QED  BY <2>1, Zenon DEF TreeLabels
  <1>2. Labels(segs) = [i \in 1..Len(segs) |-> Label(segs[i])]  BY DEF Labels
  <1> HIDE DEF TreeLabels
  <1>3. QED  BY <1>1, <1>2

LEMMA RangeAppend ==
  ASSUME NEW A, NEW s \in Seq(A), NEW x
  PROVE  Range(Append(s, x)) = Range(s) \cup {x}
  <1>1. /\ DOMAIN Append(s, x) = 1..Len(s) + 1 /\ DOMAIN s = 1..Len(s) /\ Len(s) \in Nat
        /\ Append(s, x)[Len(s) + 1] = x /\ \A i \in 1..Len(s) : Append(s, x)[i] = s[i]
    OBVIOUS
  <1>2. \A i \in 1..Len(s) + 1 : i \in 1..Len(s) \/ i = Len(s) + 1  BY <1>1
  <1>3. \A i \in 1..Len(s) : i \in 1..Len(s) + 1  BY <1>1
  <1>4. Len(s) + 1 \in 1..Len(s) + 1  BY <1>1
  <1> DEFINE t == Append(s, x)
  <1> HIDE DEF t
  <1>5. QED  BY <1>1, <1>2, <1>3, <1>4, Zenon DEF Range, t

\* findOrCreate() adds to the nodes.
LEMMA CreatedType ==
  ASSUME NEW L, NEW labels \in Seq(L), nodes \in Seq(Seq(L))
  PROVE  Created(labels) \in Seq(Seq(L))
  <1>1. PICK c \in [0..Len(labels) -> Seq(Seq(L))] : Created(labels) = c[Len(labels)]
    BY CreatedSteps, Zenon
  <1>2. Len(labels) \in 0..Len(labels)  OBVIOUS
  <1>3. QED  BY <1>1, <1>2

---------------------------------------------------------------------------
(* What the connection keeps *)

\* The table with its types.
TableTypes ==
  /\ routes \in Seq([m : Methods, segs : Seq(Tokens)])
  /\ statics \subseteq Handlers(Seq(Tokens))
  /\ nodes \in Seq(Seq(TreeLabels)) /\ leaves \subseteq Handlers(Seq(TreeLabels))

LEMMA WithType ==
  ASSUME NEW Keys, NEW table, table \subseteq Handlers(Keys), NEW key \in Keys, NEW m \in Methods,
         NEW r, routes \in Seq(r), NEW x \in r, routes' = Append(routes, x)
  PROVE  With(table, key, m, Len(routes) + 1) \subseteq Handlers(Keys)' /\ table \subseteq Handlers(Keys)'
  <1>1. DOMAIN routes = 1..Len(routes) /\ DOMAIN routes' = 1..Len(routes) + 1 /\ Len(routes) \in Nat  OBVIOUS
  <1>2. DOMAIN routes \subseteq DOMAIN routes' /\ Len(routes) + 1 \in DOMAIN routes'  BY <1>1
  <1>3. table \subseteq Handlers(Keys)'  BY <1>2 DEF Handlers
  <1>4. [key |-> key, m |-> m, h |-> Len(routes) + 1] \in Handlers(Keys)'  BY <1>2 DEF Handlers
  <1>5. QED  BY <1>3, <1>4 DEF With

LEMMA AddRouteTypes ==
  ASSUME TableTypes, NEW m \in Methods, NEW p \in RoutePaths, AddRoute(m, p)
  PROVE  TableTypes'
  <1> DEFINE norm == NormalizePath(p)
             segs == SplitPath(norm)
             h == Len(routes) + 1
             r == [m : Methods, segs : Seq(Tokens)]
             x == [m |-> m, segs |-> segs]
  <1>1. norm \in Seq(Tokens) /\ segs \in Seq(Tokens)  BY RouteTokens
  <1>2. /\ routes' = Append(routes, x)
        /\ \/ statics' = With(statics, norm, m, h) /\ nodes' = nodes /\ leaves' = leaves
           \/ nodes' = Created(Labels(segs)) /\ leaves' = With(leaves, Labels(segs), m, h) /\ statics' = statics
    BY DEF AddRoute
  <1>3. x \in r  BY <1>1
  <1>4. Labels(segs) \in Seq(TreeLabels)  BY <1>1, LabelsType
  <1> HIDE DEF norm, segs, x, h, r
  <1>5. routes \in Seq(r) /\ routes' \in Seq(r)  BY <1>2, <1>3 DEF TableTypes, r
  <1>6. statics' \subseteq Handlers(Seq(Tokens))'
    <2>1. With(statics, norm, m, h) \subseteq Handlers(Seq(Tokens))' /\ statics \subseteq Handlers(Seq(Tokens))'
      BY <1>1, <1>2, <1>3, <1>5, WithType, Zenon DEF TableTypes, h
    <2>2. QED  BY <2>1, <1>2, Zenon
  <1>7. leaves' \subseteq Handlers(Seq(TreeLabels))'
    <2>1. With(leaves, Labels(segs), m, h) \subseteq Handlers(Seq(TreeLabels))' /\ leaves \subseteq Handlers(Seq(TreeLabels))'
      BY <1>4, <1>2, <1>3, <1>5, WithType, Zenon DEF TableTypes, h
    <2>2. QED  BY <2>1, <1>2, Zenon
  <1>8. nodes' \in Seq(Seq(TreeLabels))
    <2>1. Created(Labels(segs)) \in Seq(Seq(TreeLabels))  BY <1>4, CreatedType DEF TableTypes
    <2>2. QED  BY <2>1, <1>2 DEF TableTypes
  <1>9. TreeLabels' = TreeLabels  BY DEF TreeLabels, Label
  <1>10. QED  BY <1>5, <1>6, <1>7, <1>8, <1>9 DEF TableTypes, r

\* Min() of a set of numbers is its least element, Max() its greatest.
LEMMA MinOf ==
  ASSUME NEW T \in SUBSET Nat, T # {}
  PROVE  Min(T) \in T /\ \A y \in T : Min(T) <= y
  <1>1. PICK x \in T : \A y \in T : x <= y  BY LeastOf
  <1>2. QED  BY <1>1 DEF Min

\* While a file is sent, the head of its response has announced its size, and
\* unless the file changed since, no more than that was sent.
JobFits ==
  job # NoJob =>
    LET w == Last(wire)
    IN /\ wire # <<>> /\ w.cl = <<job.size>> /\ ~w.done /\ w.file /\ ~w.cut
       /\ w.plain => file = job.size /\ w.len <= job.size

\* The compressor and the codec remember the latest request.
PeerFits ==
  requests # <<>> => peer = PeerOf(Last(requests).accept) /\ keepAlive = ~Last(requests).close

\* A response with a body says how long it is; that of a file may be cut.
Framed(w) ==
  IF w.cut THEN w.file /\ w.cl # <<>> /\ w.len <= w.cl[1]
  ELSE w.cl = (IF w.len > 0 \/ w.cl # <<>> THEN <<w.len>> ELSE <<>>)
\* A response is encoded as its request accepts, and says close as it does.
Fits(w, q) == w.enc \in q.accept \cup {"none"} /\ w.ka = (~q.close \/ w.file)

HttpInv == HttpTypeOK /\ JobFits /\ PeerFits /\ WellFramed /\ AnswerFitsRequest

LEMMA HttpTypes ==
  ASSUME HttpTypeOK
  PROVE  /\ TableTypes
         /\ requests \in Seq(Request) /\ Len(requests) \in Nat /\ DOMAIN requests = 1..Len(requests)
         /\ wire \in Seq(Answered) /\ Len(wire) \in Nat /\ DOMAIN wire = 1..Len(wire)
         /\ \A i \in 1..Len(wire) : wire[i] \in Answered
         /\ file \in Nat /\ peer \in Encodings \cup {"none"} /\ keepAlive \in BOOLEAN
  <1>1. TableTypes  BY Zenon DEF HttpTypeOK, TableTypes, TreeLabels
  <1>2. requests \in Seq(Request) /\ wire \in Seq(Answered)  BY DEF HttpTypeOK
  <1>3. file \in Nat /\ peer \in Encodings \cup {"none"} /\ keepAlive \in BOOLEAN
    BY LengthsAssumption DEF HttpTypeOK
  <1>4. QED  BY <1>1, <1>2, <1>3

LEMMA PeerOfFits ==
  ASSUME NEW q \in Request
  PROVE  /\ q.accept \in SUBSET Encodings /\ q.close \in BOOLEAN
         /\ PeerOf(q.accept) \in Encodings \cup {"none"} /\ PeerOf(q.accept) \in q.accept \cup {"none"}
  BY DEF Request, PeerOf, Encodings

AnsweredIn(D) ==
  [req : D, cl : Seq(Nat), len : Nat, enc : Encodings \cup {"none"}, ka : BOOLEAN,
   latest : BOOLEAN, plain : BOOLEAN, file : BOOLEAN, cut : BOOLEAN, done : BOOLEAN]
Responds(w, D, i, enc, ka, latest) ==
  /\ w \in AnsweredIn(D) /\ w.req = i /\ w.ka = ka /\ w.latest = latest /\ w.enc \in {enc, "none"}
  /\ w.file = FALSE
  /\ w.plain => Framed(w)

\* The bytes of a response whose length the handler left to the server.
LEMMA OnTheWireFramed ==
  ASSUME NEW D, NEW i \in D, NEW style \in Styles, NEW n \in Nat, NEW enc \in Encodings \cup {"none"},
         NEW ka \in BOOLEAN, NEW latest \in BOOLEAN
  PROVE  Responds(OnTheWire(i, style, n, enc, ka, latest), D, i, enc, ka, latest)
  <1> DEFINE resp == Response(style, n)
             sent == Compress(resp, enc)
             w == OnTheWire(i, style, n, enc, ka, latest)
  <1>1. resp = [len |-> n, headers |-> IF style = "plain" THEN <<>> ELSE <<n>>, lengthSet |-> style = "length"]
    BY DEF Response
  <1>2. /\ sent.len \in Nat /\ sent.headers = (IF style = "plain" THEN <<>> ELSE <<n>>)
        /\ sent.lengthSet = (style = "length")
    BY <1>1 DEF Compress, Deflated
  <1> HIDE DEF sent
  <1>3. /\ Lengths(sent) \in Seq(Nat)
        /\ style = "plain" => Lengths(sent) = IF sent.len > 0 THEN <<sent.len>> ELSE <<>>
    <2>1. Lengths(sent) = sent.headers \o (IF ~sent.lengthSet /\ sent.len > 0 THEN <<sent.len>> ELSE <<>>)
      BY DEF Lengths
    <2>2. CASE style = "plain"
      <3>1. Lengths(sent) = <<>> \o (IF sent.len > 0 THEN <<sent.len>> ELSE <<>>)  BY <2>1, <2>2, <1>2
      <3>2. QED  BY <3>1, <1>2
    <2>3. CASE style # "plain"
      <3>1. Lengths(sent) = <<n>> \o (IF ~sent.lengthSet /\ sent.len > 0 THEN <<sent.len>> ELSE <<>>)  BY <2>1, <2>3, <1>2
      <3>2. QED  BY <3>1, <2>3, <1>2
    <2>4. QED  BY <2>2, <2>3
  <1>4. w = [req |-> i, cl |-> Lengths(sent), len |-> sent.len, enc |-> IF sent.len = 0 THEN "none" ELSE enc,
             ka |-> ka, latest |-> latest, plain |-> style = "plain", file |-> FALSE, cut |-> FALSE, done |-> TRUE]
    BY DEF OnTheWire, sent
  <1>5. w \in AnsweredIn(D)  BY <1>2, <1>3, <1>4 DEF AnsweredIn
  <1>6. w.plain => Framed(w)
    <2>1. /\ w.plain = (style = "plain") /\ w.cl = Lengths(sent) /\ w.len = sent.len /\ w.cut = FALSE  BY <1>4
    <2>2. QED  BY <2>1, <1>2, <1>3 DEF Framed
  <1>7. w.req = i /\ w.ka = ka /\ w.latest = latest /\ w.enc \in {enc, "none"} /\ w.file = FALSE  BY <1>4
  <1>8. QED  BY <1>5, <1>6, <1>7 DEF Responds

\* The responses so far stay as they are when a request comes in.
Grown == requests' \in Seq(Request) /\ Len(requests) <= Len(requests')
         /\ \A i \in 1..Len(requests) : requests'[i] = requests[i]

LEMMA AnsweredGrows ==
  ASSUME HttpTypeOK, Grown
  PROVE  Answered \subseteq Answered' /\ DOMAIN requests \subseteq DOMAIN requests' /\ wire \in Seq(Answered')
  <1>1. DOMAIN requests \subseteq DOMAIN requests'  BY HttpTypes DEF Grown
  <1>2. Answered \subseteq Answered'  BY <1>1 DEF Answered, Encodings
  <1>3. QED  BY <1>1, <1>2, HttpTypes, SeqWider, Zenon

LEMMA WireStays ==
  ASSUME HttpInv, Grown, wire' = wire
  PROVE  (wire \in Seq(Answered))' /\ WellFramed' /\ AnswerFitsRequest'
  <1>1. wire \in Seq(Answered) /\ DOMAIN requests = 1..Len(requests)  BY HttpTypes DEF HttpInv
  <1>2. \A i \in DOMAIN wire : wire[i].req \in DOMAIN requests
    <2>1. \A i \in DOMAIN wire : wire[i] \in Answered  BY <1>1
    <2>2. QED  BY <2>1 DEF Answered
  <1>3. \A i \in DOMAIN wire : requests'[wire[i].req] = requests[wire[i].req]  BY <1>1, <1>2 DEF Grown
  <1>4. WellFramed /\ AnswerFitsRequest  BY DEF HttpInv
  <1>5. WellFramed'  BY <1>4 DEF WellFramed
  <1>6. AnswerFitsRequest'  BY <1>3, <1>4, Zenon DEF AnswerFitsRequest
  <1>7. wire \in Seq(Answered')  BY AnsweredGrows DEF HttpInv
  <1>8. QED  BY <1>5, <1>6, <1>7

\* Another response joins them.
LEMMA WireGrows ==
  ASSUME HttpInv, Grown, NEW w \in Answered', wire' = Append(wire, w),
         w.done /\ w.plain => Framed(w), w.latest => Fits(w, requests'[w.req])
  PROVE  (wire \in Seq(Answered))' /\ WellFramed' /\ AnswerFitsRequest'
  <1>1. wire \in Seq(Answered) /\ DOMAIN requests = 1..Len(requests) /\ wire \in Seq(Answered')
    BY HttpTypes, AnsweredGrows DEF HttpInv
  <1>2. wire' \in Seq(Answered')  BY <1>1
  <1>3. /\ DOMAIN wire' = 1..Len(wire) + 1 /\ DOMAIN wire = 1..Len(wire) /\ Len(wire) \in Nat
        /\ wire'[Len(wire) + 1] = w /\ \A i \in 1..Len(wire) : wire'[i] = wire[i]
    BY <1>1
  <1>4. \A i \in DOMAIN wire' : i = Len(wire) + 1 \/ i \in DOMAIN wire  BY <1>3
  <1>5. \A i \in DOMAIN wire : wire[i].req \in DOMAIN requests
    <2>1. \A i \in DOMAIN wire : wire[i] \in Answered  BY <1>1
    <2>2. QED  BY <2>1 DEF Answered
  <1>6. \A i \in DOMAIN wire : requests'[wire[i].req] = requests[wire[i].req]  BY <1>1, <1>5 DEF Grown
  <1>7. WellFramed /\ AnswerFitsRequest  BY DEF HttpInv
  <1>8. WellFramed'
    <2>1. \A i \in DOMAIN wire : wire[i].done /\ wire[i].plain => Framed(wire[i])  BY <1>7, Zenon DEF WellFramed, Framed
    <2>2. \A i \in DOMAIN wire' : wire'[i].done /\ wire'[i].plain => Framed(wire'[i])
      BY <2>1, <1>3, <1>4, Zenon
    <2>3. QED  BY <2>2, Zenon DEF WellFramed, Framed
  <1>9. AnswerFitsRequest'
    <2>1. \A i \in DOMAIN wire : wire[i].latest => Fits(wire[i], requests[wire[i].req])
      BY <1>7, Zenon DEF AnswerFitsRequest, Fits
    <2>2. ASSUME NEW i \in DOMAIN wire', wire'[i].latest PROVE Fits(wire'[i], requests'[wire'[i].req])
      <3>1. CASE i \in DOMAIN wire
        <4>1. wire'[i] = wire[i]  BY <3>1, <1>3
        <4>2. requests'[wire[i].req] = requests[wire[i].req]  BY <3>1, <1>6
        <4>3. QED  BY <4>1, <4>2, <3>1, <2>1, <2>2
      <3>2. CASE i = Len(wire) + 1
        <4>1. wire'[i] = w  BY <3>2, <1>3
        <4>2. QED  BY <4>1, <2>2
      <3>3. QED  BY <3>1, <3>2, <1>4
    <2>3. QED  BY <2>2, Zenon DEF AnswerFitsRequest, Fits
  <1>10. QED  BY <1>2, <1>8, <1>9

\* A request arrives when no file is being sent.
LEMMA ReceiveFits ==
  ASSUME HttpInv, NEW q \in Request, Receive(q)
  PROVE  /\ Grown /\ job = NoJob /\ requests' = Append(requests, q) /\ Len(requests') = Len(requests) + 1
         /\ Len(requests) + 1 \in DOMAIN requests' /\ requests'[Len(requests) + 1] = q
         /\ peer' = PeerOf(q.accept) /\ keepAlive' = ~q.close
         /\ PeerFits' /\ peer' \in Encodings \cup {"none"} /\ keepAlive' \in BOOLEAN
         /\ PeerOf(q.accept) \in q.accept \cup {"none"}
  <1>1. requests \in Seq(Request) /\ Len(requests) \in Nat  BY HttpTypes DEF HttpInv
  <1>2. job = NoJob /\ requests' = Append(requests, q) /\ keepAlive' = ~q.close /\ peer' = PeerOf(q.accept)
    BY DEF Receive
  <1>3. /\ requests' \in Seq(Request) /\ Len(requests') = Len(requests) + 1
        /\ requests'[Len(requests) + 1] = q /\ \A i \in 1..Len(requests) : requests'[i] = requests[i]
    BY <1>1, <1>2
  <1>4. Grown  BY <1>1, <1>3 DEF Grown
  <1>5. Last(requests') = q  BY <1>3 DEF Last
  <1>6. PeerFits'  BY <1>2, <1>5 DEF PeerFits, PeerOf
  <1>7. Len(requests) + 1 \in DOMAIN requests'  BY <1>1, <1>3
  <1>8. QED  BY <1>2, <1>3, <1>4, <1>6, <1>7, PeerOfFits

Changed(v, w, k, d, pl, ct) ==
  /\ v \in Answered /\ v.cl = w.cl /\ v.req = w.req /\ v.enc = w.enc /\ v.ka = w.ka /\ v.file = w.file
  /\ v.latest = w.latest /\ v.len = k /\ v.done = d /\ v.plain = pl /\ v.cut = ct

LEMMA RecordChange ==
  ASSUME NEW R, NEW C, NEW L, NEW E, NEW K, NEW A, NEW P, NEW F, NEW T, NEW D,
         NEW w \in [req : R, cl : C, len : L, enc : E, ka : K, latest : A, plain : P, file : F, cut : T, done : D],
         NEW k \in L, NEW d \in D, NEW pl \in P, NEW ct \in T
  PROVE  LET v == [w EXCEPT !.len = k, !.cut = ct, !.done = d, !.plain = pl]
         IN /\ v \in [req : R, cl : C, len : L, enc : E, ka : K, latest : A, plain : P, file : F, cut : T, done : D]
            /\ v.cl = w.cl /\ v.req = w.req /\ v.enc = w.enc /\ v.ka = w.ka /\ v.file = w.file
            /\ v.latest = w.latest /\ v.len = k /\ v.done = d /\ v.plain = pl /\ v.cut = ct
  OBVIOUS

LEMMA RecordSame ==
  ASSUME NEW R, NEW C, NEW L, NEW E, NEW K, NEW A, NEW P, NEW F, NEW T, NEW D,
         NEW w \in [req : R, cl : C, len : L, enc : E, ka : K, latest : A, plain : P, file : F, cut : T, done : D],
         NEW k, NEW d
  PROVE  /\ [w EXCEPT !.len = k, !.cut = w.cut, !.done = d, !.plain = w.plain] = [w EXCEPT !.len = k, !.done = d]
         /\ [w EXCEPT !.len = w.len, !.cut = k, !.done = d, !.plain = w.plain] = [w EXCEPT !.cut = k, !.done = d]
         /\ [w EXCEPT !.len = w.len, !.cut = w.cut, !.done = w.done, !.plain = k] = [w EXCEPT !.plain = k]
  OBVIOUS

LEMMA AnsweredChange ==
  ASSUME NEW w \in Answered, NEW k \in Nat, NEW d \in BOOLEAN, NEW pl \in BOOLEAN, NEW ct \in BOOLEAN
  PROVE  Changed([w EXCEPT !.len = k, !.cut = ct, !.done = d, !.plain = pl], w, k, d, pl, ct)
  BY RecordChange, Zenon DEF Answered, Changed

\* The response at the end is changed in its length and its marks only.
LEMMA LastChanges ==
  ASSUME HttpInv, wire # <<>>, NEW k \in Nat, NEW d \in BOOLEAN, NEW pl \in BOOLEAN, NEW ct \in BOOLEAN,
         wire' = [wire EXCEPT ![Len(wire)] = [@ EXCEPT !.len = k, !.cut = ct, !.done = d, !.plain = pl]],
         requests' = requests, d /\ pl => Framed(Last(wire'))
  PROVE  /\ (wire \in Seq(Answered))' /\ WellFramed' /\ AnswerFitsRequest' /\ wire' # <<>>
         /\ Last(wire').cl = Last(wire).cl /\ Last(wire').len = k /\ Last(wire').done = d /\ Last(wire').plain = pl
         /\ Last(wire').file = Last(wire).file /\ Last(wire').cut = ct
  <1> DEFINE n == Len(wire)
             v == [wire[n] EXCEPT !.len = k, !.cut = ct, !.done = d, !.plain = pl]
  <1>1. wire \in Seq(Answered) /\ n \in Nat \ {0} /\ DOMAIN wire = 1..n  BY HttpTypes DEF HttpInv
  <1>2. wire[n] \in Answered  BY <1>1
  <1>3. /\ v \in Answered /\ v.cl = wire[n].cl /\ v.req = wire[n].req /\ v.enc = wire[n].enc /\ v.ka = wire[n].ka
        /\ v.latest = wire[n].latest /\ v.len = k /\ v.done = d /\ v.plain = pl /\ v.file = wire[n].file /\ v.cut = ct
    <2>1. n \in Nat  BY <1>1
    <2>2. Changed(v, wire[n], k, d, pl, ct)  BY <1>2, AnsweredChange, Zenon
    <2>3. QED  BY <2>2, Zenon DEF Changed
  <1>4. wire' = [wire EXCEPT ![n] = v]  OBVIOUS
  <1> HIDE DEF v
  <1>5. wire' \in Seq(Answered) /\ Len(wire') = n /\ wire'[n] = v /\ \A i \in 1..n : i # n => wire'[i] = wire[i]
    <2>1. v \in Answered /\ n \in 1..n  BY <1>1, <1>3
    <2>2. QED  BY <2>1, <1>1, <1>4
  <1>6. Last(wire') = v /\ Last(wire) = wire[n] /\ wire' # <<>>  BY <1>1, <1>5 DEF Last
  <1>7. Answered' = Answered  BY DEF Answered, Encodings
  <1>8. WellFramed /\ AnswerFitsRequest /\ n \in 1..n /\ DOMAIN wire' = 1..n  BY <1>1, <1>5 DEF HttpInv
  <1>9. WellFramed'
    <2>1. \A i \in 1..n : wire[i].done /\ wire[i].plain => Framed(wire[i])  BY <1>1, <1>8, Zenon DEF WellFramed, Framed
    <2>2. ASSUME NEW i \in 1..n, wire'[i].done, wire'[i].plain PROVE Framed(wire'[i])
      <3>1. CASE i = n  BY <3>1, <2>2, <1>3, <1>5, <1>6
      <3>2. CASE i # n
        <4>1. wire'[i] = wire[i]  BY <3>2, <1>5
        <4>2. QED  BY <4>1, <2>1, <2>2
      <3>3. QED  BY <3>1, <3>2
    <2>3. QED  BY <2>2, <1>8, Zenon DEF WellFramed, Framed
  <1>10. AnswerFitsRequest'
    <2>1. \A i \in 1..n : wire[i].latest => Fits(wire[i], requests[wire[i].req])
      BY <1>1, <1>8, Zenon DEF AnswerFitsRequest, Fits
    <2>2. ASSUME NEW i \in 1..n, wire'[i].latest PROVE Fits(wire'[i], requests'[wire'[i].req])
      <3>1. CASE i = n
        <4>1. Fits(wire[n], requests[wire[n].req])  BY <3>1, <2>1, <2>2, <1>3, <1>5, <1>8
        <4>2. QED  BY <4>1, <3>1, <1>3, <1>5 DEF Fits
      <3>2. CASE i # n
        <4>1. wire'[i] = wire[i]  BY <3>2, <1>5
        <4>2. QED  BY <4>1, <2>1, <2>2
      <3>3. QED  BY <3>1, <3>2
    <2>3. QED  BY <2>2, <1>8, Zenon DEF AnswerFitsRequest, Fits
  <1>11. QED  BY <1>3, <1>5, <1>6, <1>7, <1>9, <1>10

LEMMA HttpInvInit == HttpInit => HttpInv
  <1> SUFFICES ASSUME HttpInit PROVE HttpInv  OBVIOUS
  <1> USE DEF HttpInit, RouterInit
  <1>1. HttpTypeOK
    <2>1. \A A : <<>> \in Seq(A) /\ {} \subseteq Handlers(A)  BY DEF Handlers
    <2>2. routes = <<>> /\ nodes = <<>> /\ requests = <<>> /\ wire = <<>> /\ statics = {} /\ leaves = {} /\ pending = {}
      OBVIOUS
    <2>3. pending \subseteq DOMAIN requests  BY <2>2
    <2>4. serving \in BOOLEAN /\ keepAlive \in BOOLEAN /\ peer \in Encodings \cup {"none"} /\ file \in FileSizes /\ job = NoJob
      OBVIOUS
    <2>5. QED  BY <2>1, <2>2, <2>3, <2>4, Zenon DEF HttpTypeOK
  <1>2. JobFits /\ PeerFits  BY DEF JobFits, PeerFits
  <1>3. WellFramed /\ AnswerFitsRequest  BY DEF WellFramed, AnswerFitsRequest
  <1>4. QED  BY <1>1, <1>2, <1>3 DEF HttpInv

\* When a step leaves the table of routes alone, its types stay.
LEMMA TypesFrom ==
  ASSUME HttpTypeOK, TableTypes',
         serving' \in BOOLEAN, keepAlive' \in BOOLEAN, requests' \in Seq(Request), peer' \in Encodings \cup {"none"},
         pending' \subseteq DOMAIN requests', file' \in FileSizes,
         job' = NoJob \/ job' \in [req : DOMAIN requests', size : FileSizes, reads : BOOLEAN], (wire \in Seq(Answered))'
  PROVE  HttpTypeOK'
  <1>1. TreeLabels = {Label(t) : t \in Tokens}' /\ TreeLabels' = TreeLabels  BY DEF TreeLabels, Label
  <1>2. (Encodings = Encodings') /\ (NoJob = NoJob') /\ (Request' = Request)  BY DEF Encodings, NoJob, Request
  <1>3. QED  BY <1>1, <1>2, Zenon DEF HttpTypeOK, TableTypes, TreeLabels

LEMMA TableStays ==
  ASSUME HttpTypeOK, UNCHANGED <<routes, statics, nodes, leaves>>
  PROVE  TableTypes'
  <1>1. TableTypes  BY HttpTypes
  <1>2. QED  BY <1>1 DEF TableTypes, TreeLabels, Handlers, Label

\* A request, and at most one response to it.
LEMMA ReadKeeps ==
  ASSUME HttpInv, NEW q \in Request, Receive(q), UNCHANGED <<routes, statics, nodes, leaves, serving, job, file>>,
         pending' \subseteq DOMAIN requests',
         \/ wire' = wire
         \/ wire' = Append(wire, OnTheWire(Len(requests) + 1, "plain", 1, PeerOf(q.accept), ~q.close, TRUE))
  PROVE  HttpInv'
  <1> DEFINE i == Len(requests) + 1
             w == OnTheWire(i, "plain", 1, PeerOf(q.accept), ~q.close, TRUE)
  <1>1. /\ Grown /\ job = NoJob /\ i \in DOMAIN requests' /\ requests'[i] = q
        /\ PeerFits' /\ peer' \in Encodings \cup {"none"} /\ keepAlive' \in BOOLEAN
        /\ PeerOf(q.accept) \in q.accept \cup {"none"} /\ requests' \in Seq(Request)
    BY ReceiveFits, Zenon DEF Grown
  <1>2. (wire \in Seq(Answered))' /\ WellFramed' /\ AnswerFitsRequest'
    <2>1. CASE wire' = wire  BY <2>1, <1>1, WireStays
    <2>2. CASE wire' = Append(wire, w)
      <3>1. /\ PeerOf(q.accept) \in Encodings \cup {"none"} /\ (~q.close) \in BOOLEAN
            /\ "plain" \in Styles /\ 1 \in Nat /\ TRUE \in BOOLEAN
        <4>1. PeerOf(q.accept) \in Encodings \cup {"none"}  BY PeerOfFits, Zenon
        <4>2. "plain" \in Styles /\ 1 \in Nat  BY DEF Styles
        <4>3. QED  BY <4>1, <4>2, Zenon
      <3>2. w \in Answered' /\ w.req = i /\ w.ka = ~q.close /\ w.enc \in {PeerOf(q.accept), "none"}
            /\ (w.plain => Framed(w)) /\ w.file = FALSE
        <4>1. Responds(w, DOMAIN requests', i, PeerOf(q.accept), ~q.close, TRUE)
          BY <1>1, <3>1, OnTheWireFramed, Zenon
        <4> HIDE DEF w
        <4>2. Answered' = AnsweredIn(DOMAIN requests')  BY DEF Answered, AnsweredIn, Encodings
        <4>3. QED  BY <4>1, <4>2, Zenon DEF Responds
      <3>3. Fits(w, requests'[w.req])  BY <3>2, <1>1 DEF Fits
      <3> HIDE DEF w
      <3>4. QED  BY <2>2, <3>2, <3>3, <1>1, WireGrows, Zenon
    <2>3. QED  BY <2>1, <2>2
  <1>3. JobFits'  BY <1>1 DEF JobFits, NoJob
  <1>4. TableTypes'  BY TableStays DEF HttpInv
  <1>5. serving' \in BOOLEAN /\ file' \in FileSizes /\ job' = NoJob  BY <1>1 DEF HttpInv, HttpTypeOK
  <1>6. HttpTypeOK'  BY <1>1, <1>2, <1>4, <1>5, TypesFrom, Zenon DEF HttpInv
  <1>7. QED  BY <1>1, <1>2, <1>3, <1>6 DEF HttpInv

LEMMA BeginFileKeeps ==
  ASSUME HttpInv, NEW q \in Request, NEW target \in Targets, BeginFile(q, target)
  PROVE  HttpInv'
  <1> DEFINE i == Len(requests) + 1
             w == [req |-> i, cl |-> <<file>>, len |-> 0, enc |-> "none", ka |-> TRUE,
                   latest |-> TRUE, plain |-> TRUE, file |-> TRUE, cut |-> FALSE, done |-> FALSE]
             b == target # "index directory"
  <1>1. Receive(q) /\ job' = [req |-> i, size |-> file, reads |-> b] /\ wire' = Append(wire, w)
        /\ UNCHANGED <<routes, statics, nodes, leaves, serving, pending, file>>
    BY DEF BeginFile
  <1>2. /\ Grown /\ i \in DOMAIN requests'
        /\ PeerFits' /\ peer' \in Encodings \cup {"none"} /\ keepAlive' \in BOOLEAN /\ requests' \in Seq(Request)
    BY <1>1, ReceiveFits, Zenon DEF Grown
  <1>3. file \in Nat /\ file \in FileSizes /\ wire \in Seq(Answered) /\ Len(wire) \in Nat
    BY HttpTypes DEF HttpInv, HttpTypeOK
  <1>4. w \in Answered'
    <2>1. <<file>> \in Seq(Nat)  BY <1>3
    <2>2. 0 \in Nat /\ "none" \in Encodings \cup {"none"} /\ TRUE \in BOOLEAN /\ FALSE \in BOOLEAN  OBVIOUS
    <2>3. QED  BY <2>1, <2>2, <1>2, Zenon DEF Answered
  <1>5. /\ w.cl = <<file>> /\ w.len = 0 /\ w.done = FALSE /\ w.plain = TRUE
        /\ w.req = i /\ w.enc = "none" /\ w.ka = TRUE /\ w.file = TRUE /\ w.cut = FALSE
    OBVIOUS
  <1>15. b \in BOOLEAN  OBVIOUS
  <1> HIDE DEF w, b
  <1>16. Fits(w, requests'[w.req])  BY <1>5 DEF Fits
  <1>6. (wire \in Seq(Answered))' /\ WellFramed' /\ AnswerFitsRequest'
    BY <1>1, <1>2, <1>4, <1>5, <1>16, WireGrows DEF HttpInv
  <1>7. wire' # <<>> /\ Last(wire') = w  BY <1>1, <1>3 DEF Last
  <1>8. job'.size = file /\ job' \in [req : DOMAIN requests', size : FileSizes, reads : BOOLEAN]
    BY <1>1, <1>2, <1>3, <1>15
  <1>9. JobFits'  BY <1>1, <1>3, <1>5, <1>7, <1>8 DEF JobFits
  <1>10. TableTypes'  BY <1>1, TableStays DEF HttpInv
  <1>11. serving' \in BOOLEAN /\ file' \in FileSizes  BY <1>1 DEF HttpInv, HttpTypeOK
  <1>12. pending' \subseteq DOMAIN requests'
    BY <1>1, <1>2, AnsweredGrows DEF HttpInv, HttpTypeOK
  <1>13. HttpTypeOK'  BY <1>2, <1>6, <1>8, <1>10, <1>11, <1>12, TypesFrom, Zenon DEF HttpInv
  <1>14. QED  BY <1>2, <1>6, <1>9, <1>13 DEF HttpInv

LEMMA AnswerKeeps ==
  ASSUME HttpInv, NEW i \in pending, NEW style \in Styles, NEW n \in BodyLengths, Answer(i, style, n)
  PROVE  HttpInv'
  <1> DEFINE w == OnTheWire(i, style, n, peer, keepAlive, i = Len(requests))
  <1>1. /\ job = NoJob /\ pending' = pending \ {i} /\ wire' = Append(wire, w)
        /\ UNCHANGED <<routes, statics, nodes, leaves, serving, requests, peer, keepAlive, job, file>>
    BY DEF Answer
  <1>2. /\ requests \in Seq(Request) /\ Len(requests) \in Nat /\ DOMAIN requests = 1..Len(requests)
        /\ peer \in Encodings \cup {"none"} /\ keepAlive \in BOOLEAN /\ i \in DOMAIN requests /\ n \in Nat
    BY HttpTypes, LengthsAssumption DEF HttpInv, HttpTypeOK
  <1>3. Grown  BY <1>1, <1>2 DEF Grown
  <1>4. (i = Len(requests)) \in BOOLEAN  OBVIOUS
  <1>5. /\ w \in Answered' /\ w.req = i /\ w.ka = keepAlive /\ w.latest = (i = Len(requests))
        /\ w.enc \in {peer, "none"} /\ (w.plain => Framed(w)) /\ w.file = FALSE
    <2>1. i \in DOMAIN requests'  BY <1>1, <1>2
    <2> DEFINE b == (i = Len(requests))
    <2>5. b \in BOOLEAN  OBVIOUS
    <2>2. Responds(w, DOMAIN requests', i, peer, keepAlive, b)
      <3> HIDE DEF b
      <3>1. Responds(OnTheWire(i, style, n, peer, keepAlive, b), DOMAIN requests', i, peer, keepAlive, b)
        BY <2>1, <2>5, <1>2, OnTheWireFramed, ZenonT(60)
      <3>2. QED  BY <3>1 DEF b
    <2> HIDE DEF w
    <2>3. Answered' = AnsweredIn(DOMAIN requests')  BY DEF Answered, AnsweredIn, Encodings
    <2>4. QED  BY <2>2, <2>3, Zenon DEF Responds
  <1> HIDE DEF w
  <1>6. w.latest => Fits(w, requests'[w.req])
    <2>1. SUFFICES ASSUME i = Len(requests) PROVE Fits(w, requests[i])  BY <1>1, <1>5
    <2>2. peer = PeerOf(requests[i].accept) /\ keepAlive = ~requests[i].close
      BY <2>1, <1>2 DEF HttpInv, PeerFits, Last
    <2>3. requests[i] \in Request  BY <1>2
    <2>4. peer \in requests[i].accept \cup {"none"}  BY <2>2, <2>3, PeerOfFits
    <2>5. QED  BY <2>2, <2>4, <1>5 DEF Fits
  <1>7. (wire \in Seq(Answered))' /\ WellFramed' /\ AnswerFitsRequest'
    BY <1>1, <1>3, <1>5, <1>6, WireGrows, Zenon
  <1>8. JobFits' /\ PeerFits'  BY <1>1 DEF JobFits, NoJob, HttpInv, PeerFits, PeerOf
  <1>9. TableTypes'  BY <1>1, TableStays DEF HttpInv
  <1>10. serving' \in BOOLEAN /\ file' \in FileSizes /\ job' = NoJob /\ pending' \subseteq DOMAIN requests'
         /\ peer' \in Encodings \cup {"none"} /\ keepAlive' \in BOOLEAN /\ requests' \in Seq(Request)
    BY <1>1, <1>2 DEF HttpInv, HttpTypeOK
  <1>11. HttpTypeOK'  BY <1>7, <1>9, <1>10, TypesFrom, Zenon DEF HttpInv
  <1>12. QED  BY <1>7, <1>8, <1>11 DEF HttpInv

\* What read() gives is no more than the file has left.
LEMMA SendChunkKeeps ==
  ASSUME HttpInv, SendChunk
  PROVE  HttpInv'
  <1> DEFINE w == Last(wire)
             T == {ChunkSize, job.size, IF file > w.len THEN file - w.len ELSE 0}
             n == Min(T)
  <1>1. /\ job # NoJob /\ job' = IF n = 0 THEN NoJob ELSE job
        /\ wire' = [wire EXCEPT ![Len(wire)].len = @ + n, ![Len(wire)].done = (n = 0)]
        /\ UNCHANGED <<routes, statics, nodes, leaves, serving, requests, peer, keepAlive, pending, file>>
    BY DEF SendChunk
  <1>2. /\ wire # <<>> /\ w.cl = <<job.size>> /\ ~w.done /\ w.file /\ ~w.cut
        /\ w.plain => file = job.size /\ w.len <= job.size
    BY <1>1 DEF HttpInv, JobFits
  <1>3. /\ job \in [req : DOMAIN requests, size : FileSizes, reads : BOOLEAN] /\ job.size \in Nat /\ file \in Nat /\ file \in FileSizes
        /\ wire \in Seq(Answered) /\ Len(wire) \in Nat
    BY <1>1, HttpTypes, LengthsAssumption DEF HttpInv, HttpTypeOK
  <1>4. w \in Answered /\ w.len \in Nat /\ w.plain \in BOOLEAN /\ w.cut \in BOOLEAN /\ Len(wire) \in 1..Len(wire)
    <2>1. w \in Answered /\ Len(wire) \in 1..Len(wire)  BY <1>2, <1>3 DEF Last
    <2>2. QED  BY <2>1 DEF Answered
  <1>5. n \in T /\ n \in Nat /\ \A y \in T : n <= y
    <2>1. T \in SUBSET Nat /\ T # {}  BY <1>3, <1>4, ChunkAssumption
    <2>2. QED  BY <2>1, MinOf
  <1> HIDE DEF n
  <1>6. /\ n <= job.size /\ (file > w.len => n <= file - w.len) /\ (file <= w.len => n = 0)
        /\ n = 0 => job.size = 0 \/ file <= w.len
    BY <1>3, <1>4, <1>5, ChunkAssumption
  <1> HIDE DEF T
  <1> DEFINE d == (n = 0)
  <1>7. wire' = [wire EXCEPT ![Len(wire)] = [@ EXCEPT !.len = w.len + n, !.cut = w.cut, !.done = d, !.plain = w.plain]]
    <2>1. w \in AnsweredIn(DOMAIN requests)  BY <1>4 DEF Answered, AnsweredIn
    <2>2. [w EXCEPT !.len = w.len + n, !.cut = w.cut, !.done = d, !.plain = w.plain] = [w EXCEPT !.len = w.len + n, !.done = d]
      BY <2>1, RecordSame, Zenon DEF AnsweredIn
    <2>3. wire[Len(wire)] = w  BY DEF Last
    <2>4. wire' = [wire EXCEPT ![Len(wire)] = [w EXCEPT !.len = w.len + n, !.done = d]]
      BY <1>1, <1>3, <1>4, <2>3
    <2>5. QED  BY <2>2, <2>3, <2>4
  <1>8. w.len + n \in Nat /\ d \in BOOLEAN /\ (d <=> n = 0)  BY <1>4, <1>5
  <1>9. d /\ w.plain => Framed(Last(wire'))
    <2>1. SUFFICES ASSUME n = 0, w.plain PROVE Framed(Last(wire'))  OBVIOUS
    <2>2. w.len = job.size  BY <2>1, <1>2, <1>3, <1>4, <1>6
    <2>3. Last(wire').cl = w.cl /\ Last(wire').len = w.len + n /\ Last(wire').cut = w.cut
      BY <1>7, <1>3, <1>4 DEF Last
    <2>4. QED  BY <2>1, <2>2, <2>3, <1>2, <1>4 DEF Framed
  <1> HIDE DEF d, w
  <1>10. /\ (wire \in Seq(Answered))' /\ WellFramed' /\ AnswerFitsRequest' /\ wire' # <<>>
         /\ Last(wire').cl = w.cl /\ Last(wire').len = w.len + n /\ Last(wire').done = d /\ Last(wire').plain = w.plain
         /\ Last(wire').file = w.file /\ Last(wire').cut = w.cut
    BY <1>1, <1>2, <1>4, <1>7, <1>8, <1>9, LastChanges DEF w
  <1>11. JobFits'
    <2>1. CASE n = 0  BY <2>1, <1>1 DEF JobFits, NoJob
    <2>2. CASE n # 0
      <3>1. job' = job /\ file' = file /\ ~d  BY <2>2, <1>1, <1>8
      <3>2. w.plain => w.len + n <= job.size  BY <2>2, <1>2, <1>3, <1>4, <1>5, <1>6
      <3>3. QED  BY <3>1, <3>2, <1>2, <1>10 DEF JobFits
    <2>3. QED  BY <2>1, <2>2
  <1>12. PeerFits'  BY <1>1 DEF HttpInv, PeerFits, PeerOf
  <1>13. TableTypes'  BY <1>1, TableStays DEF HttpInv
  <1>14. /\ serving' \in BOOLEAN /\ file' \in FileSizes /\ pending' \subseteq DOMAIN requests'
         /\ peer' \in Encodings \cup {"none"} /\ keepAlive' \in BOOLEAN /\ requests' \in Seq(Request)
         /\ (job' = NoJob \/ job' \in [req : DOMAIN requests', size : FileSizes, reads : BOOLEAN])
    BY <1>1, <1>3 DEF HttpInv, HttpTypeOK
  <1>15. HttpTypeOK'  BY <1>10, <1>13, <1>14, TypesFrom, Zenon DEF HttpInv
  <1>16. QED  BY <1>10, <1>11, <1>12, <1>15 DEF HttpInv

\* When it fails the response stays as short as it is.
LEMMA ReadFailsKeeps ==
  ASSUME HttpInv, ReadFails
  PROVE  HttpInv'
  <1> DEFINE w == Last(wire)
  <1>1. /\ job # NoJob /\ job' = NoJob
        /\ wire' = [wire EXCEPT ![Len(wire)].cut = TRUE, ![Len(wire)].done = TRUE]
        /\ UNCHANGED <<routes, statics, nodes, leaves, serving, requests, peer, keepAlive, pending, file>>
    BY DEF ReadFails
  <1>2. /\ wire # <<>> /\ w.cl = <<job.size>> /\ w.file
        /\ w.plain => w.len <= job.size
    BY <1>1 DEF HttpInv, JobFits
  <1>3. /\ job \in [req : DOMAIN requests, size : FileSizes, reads : BOOLEAN] /\ job.size \in Nat
        /\ file \in FileSizes /\ wire \in Seq(Answered) /\ Len(wire) \in Nat
    BY <1>1, HttpTypes, LengthsAssumption DEF HttpInv, HttpTypeOK
  <1>4. w \in Answered /\ w.len \in Nat /\ w.plain \in BOOLEAN /\ Len(wire) \in 1..Len(wire)
    <2>1. w \in Answered /\ Len(wire) \in 1..Len(wire)  BY <1>2, <1>3 DEF Last
    <2>2. QED  BY <2>1 DEF Answered
  <1> DEFINE d == TRUE
  <1>5. d \in BOOLEAN /\ d = TRUE  OBVIOUS
  <1>6. wire' = [wire EXCEPT ![Len(wire)] = [@ EXCEPT !.len = w.len, !.cut = d, !.done = d, !.plain = w.plain]]
    <2>1. w \in AnsweredIn(DOMAIN requests)  BY <1>4 DEF Answered, AnsweredIn
    <2>2. [w EXCEPT !.len = w.len, !.cut = d, !.done = d, !.plain = w.plain] = [w EXCEPT !.cut = d, !.done = d]
      BY <2>1, RecordSame, Zenon DEF AnsweredIn
    <2>3. wire[Len(wire)] = w  BY DEF Last
    <2>4. wire' = [wire EXCEPT ![Len(wire)] = [w EXCEPT !.cut = d, !.done = d]]
      BY <1>1, <1>3, <1>4, <2>3
    <2>5. QED  BY <2>2, <2>3, <2>4
  <1> HIDE DEF d
  <1>7. d /\ w.plain => Framed(Last(wire'))
    <2>1. SUFFICES ASSUME w.plain PROVE Framed(Last(wire'))  OBVIOUS
    <2>2. Last(wire').cl = w.cl /\ Last(wire').len = w.len /\ Last(wire').cut = d /\ Last(wire').file = w.file
      BY <1>6, <1>3, <1>4 DEF Last
    <2>3. w.cl[1] = job.size /\ w.cl # <<>>  BY <1>2
    <2>4. QED  BY <2>1, <2>2, <2>3, <1>2, <1>5 DEF Framed
  <1>8. (wire \in Seq(Answered))' /\ WellFramed' /\ AnswerFitsRequest'
    BY <1>1, <1>2, <1>4, <1>5, <1>6, <1>7, LastChanges
  <1>9. JobFits' /\ PeerFits'  BY <1>1 DEF JobFits, NoJob, HttpInv, PeerFits, PeerOf
  <1>10. TableTypes'  BY <1>1, TableStays DEF HttpInv
  <1>11. /\ serving' \in BOOLEAN /\ file' \in FileSizes /\ pending' \subseteq DOMAIN requests' /\ job' = NoJob
         /\ peer' \in Encodings \cup {"none"} /\ keepAlive' \in BOOLEAN /\ requests' \in Seq(Request)
    BY <1>1, <1>3 DEF HttpInv, HttpTypeOK
  <1>12. HttpTypeOK'  BY <1>8, <1>10, <1>11, TypesFrom, Zenon DEF HttpInv
  <1>13. QED  BY <1>8, <1>9, <1>12 DEF HttpInv

LEMMA ChangeFileKeeps ==
  ASSUME HttpInv, NEW size \in FileSizes, ChangeFile(size)
  PROVE  HttpInv'
  <1> DEFINE w == Last(wire)
  <1>1. /\ file' = size /\ size # file
        /\ wire' = IF job = NoJob THEN wire ELSE [wire EXCEPT ![Len(wire)].plain = FALSE]
        /\ UNCHANGED <<routes, statics, nodes, leaves, serving, requests, peer, keepAlive, pending, job>>
    BY DEF ChangeFile
  <1>2. requests \in Seq(Request) /\ Len(requests) \in Nat /\ wire \in Seq(Answered) /\ Len(wire) \in Nat
    BY HttpTypes DEF HttpInv
  <1>3. Grown  BY <1>1, <1>2 DEF Grown
  <1>4. /\ (wire \in Seq(Answered))' /\ WellFramed' /\ AnswerFitsRequest' /\ JobFits'
    <2>1. CASE job = NoJob
      <3>1. wire' = wire  BY <1>1, <2>1
      <3>2. JobFits'  BY <1>1, <2>1 DEF JobFits, NoJob
      <3>3. QED  BY <3>1, <3>2, <1>3, WireStays
    <2>2. CASE job # NoJob
      <3>1. wire # <<>> /\ w.cl = <<job.size>> /\ ~w.done /\ w.file /\ ~w.cut  BY <2>2 DEF HttpInv, JobFits
      <3>2. w \in Answered /\ w.len \in Nat /\ w.done \in BOOLEAN /\ w.cut \in BOOLEAN /\ Len(wire) \in 1..Len(wire)
        <4>1. w \in Answered /\ Len(wire) \in 1..Len(wire)  BY <1>2, <3>1 DEF Last
        <4>2. QED  BY <4>1 DEF Answered
      <3>3. wire' = [wire EXCEPT ![Len(wire)] = [@ EXCEPT !.len = w.len, !.cut = w.cut, !.done = w.done, !.plain = FALSE]]
        <4>1. w \in AnsweredIn(DOMAIN requests)  BY <3>2 DEF Answered, AnsweredIn
        <4>2. [w EXCEPT !.len = w.len, !.cut = w.cut, !.done = w.done, !.plain = FALSE] = [w EXCEPT !.plain = FALSE]
          BY <4>1, RecordSame, Zenon DEF AnsweredIn
        <4>3. wire[Len(wire)] = w  BY DEF Last
        <4>4. wire' = [wire EXCEPT ![Len(wire)] = [w EXCEPT !.plain = FALSE]]
          BY <1>1, <2>2, <1>2, <3>2, <4>3
        <4>5. QED  BY <4>2, <4>3, <4>4
      <3> HIDE DEF w
      <3>4. /\ (wire \in Seq(Answered))' /\ WellFramed' /\ AnswerFitsRequest' /\ wire' # <<>>
            /\ Last(wire').cl = w.cl /\ Last(wire').done = w.done /\ Last(wire').plain = FALSE
            /\ Last(wire').file = w.file /\ Last(wire').cut = w.cut
        <4> DEFINE pl == FALSE
        <4>1. pl \in BOOLEAN /\ (w.done /\ pl => Framed(Last(wire'))) /\ pl = FALSE  OBVIOUS
        <4>2. wire' = [wire EXCEPT ![Len(wire)] = [@ EXCEPT !.len = w.len, !.cut = w.cut, !.done = w.done, !.plain = pl]]  BY <3>3
        <4> HIDE DEF pl
        <4>3. requests' = requests /\ w.cl = Last(wire).cl /\ w.file = Last(wire).file  BY <1>1 DEF w
        <4>4. /\ (wire \in Seq(Answered))' /\ WellFramed' /\ AnswerFitsRequest' /\ wire' # <<>>
              /\ Last(wire').cl = Last(wire).cl /\ Last(wire').done = w.done /\ Last(wire').plain = pl
              /\ Last(wire').file = Last(wire).file /\ Last(wire').cut = w.cut
          BY <3>1, <3>2, <4>1, <4>2, <4>3, LastChanges
        <4>5. QED  BY <4>1, <4>3, <4>4
      <3>5. JobFits'  BY <1>1, <3>1, <3>4 DEF JobFits
      <3>6. QED  BY <3>4, <3>5
    <2>3. QED  BY <2>1, <2>2
  <1>5. PeerFits'  BY <1>1 DEF HttpInv, PeerFits, PeerOf
  <1>6. TableTypes'  BY <1>1, TableStays DEF HttpInv
  <1>7. /\ serving' \in BOOLEAN /\ file' \in FileSizes /\ pending' \subseteq DOMAIN requests'
        /\ peer' \in Encodings \cup {"none"} /\ keepAlive' \in BOOLEAN /\ requests' \in Seq(Request)
        /\ (job' = NoJob \/ job' \in [req : DOMAIN requests', size : FileSizes, reads : BOOLEAN])
    BY <1>1 DEF HttpInv, HttpTypeOK
  <1>8. HttpTypeOK'  BY <1>4, <1>6, <1>7, TypesFrom, Zenon DEF HttpInv
  <1>9. QED  BY <1>4, <1>5, <1>8 DEF HttpInv

\* Every step keeps the connection's invariant.
LEMMA HttpInvNext == HttpInv /\ [HttpNext]_httpVars => HttpInv'
  <1> SUFFICES ASSUME HttpInv, [HttpNext]_httpVars PROVE HttpInv'  OBVIOUS
  <1> DEFINE Rest == <<requests, peer, keepAlive, pending, job, file, wire>>
  <1>1. ASSUME TableTypes', serving' \in BOOLEAN, UNCHANGED Rest PROVE HttpInv'
    <2>1. requests \in Seq(Request) /\ Len(requests) \in Nat  BY HttpTypes DEF HttpInv
    <2>2. Grown  BY <1>1, <2>1 DEF Grown
    <2>3. (wire \in Seq(Answered))' /\ WellFramed' /\ AnswerFitsRequest'  BY <1>1, <2>2, WireStays
    <2>4. JobFits' /\ PeerFits'  BY <1>1 DEF HttpInv, JobFits, NoJob, PeerFits, PeerOf
    <2>5. /\ file' \in FileSizes /\ pending' \subseteq DOMAIN requests'
          /\ peer' \in Encodings \cup {"none"} /\ keepAlive' \in BOOLEAN /\ requests' \in Seq(Request)
          /\ (job' = NoJob \/ job' \in [req : DOMAIN requests', size : FileSizes, reads : BOOLEAN])
      BY <1>1 DEF HttpInv, HttpTypeOK
    <2>6. HttpTypeOK'  BY <1>1, <2>3, <2>5, TypesFrom, Zenon DEF HttpInv
    <2>7. QED  BY <2>3, <2>4, <2>6 DEF HttpInv
  <1>2. CASE Configure
    <2>1. PICK m \in Methods, p \in RoutePaths : AddRoute(m, p)  BY <1>2 DEF Configure
    <2>2. TableTypes  BY HttpTypes DEF HttpInv
    <2>3. TableTypes'  BY <2>1, <2>2, AddRouteTypes
    <2>4. UNCHANGED Rest /\ serving' = serving  BY <1>2 DEF Configure, serverVars
    <2>5. serving' \in BOOLEAN  BY <2>4 DEF HttpInv, HttpTypeOK
    <2>6. QED  BY <2>3, <2>4, <2>5, <1>1, Zenon
  <1>3. CASE Serve
    <2>1. UNCHANGED <<routes, statics, nodes, leaves>> /\ UNCHANGED Rest /\ serving' = TRUE  BY <1>3 DEF Serve
    <2>2. TableTypes'  BY <2>1, TableStays DEF HttpInv
    <2>3. QED  BY <2>1, <2>2, <1>1
  <1>4. ASSUME NEW q \in Request, NEW content \in {<<>>, <<"stream">>}, ReadPacked(q, content) PROVE HttpInv'
    <2>1. /\ Receive(q) /\ UNCHANGED <<routes, statics, nodes, leaves, serving, pending, job, file, wire>>
      BY <1>4 DEF ReadPacked
    <2>2. pending' \subseteq DOMAIN requests'
      <3>1. Grown  BY <2>1, ReceiveFits, Zenon
      <3>2. DOMAIN requests \subseteq DOMAIN requests'  BY <3>1, AnsweredGrows DEF HttpInv
      <3>3. QED  BY <2>1, <3>2 DEF HttpInv, HttpTypeOK
    <2>3. QED  BY <2>1, <2>2, ReadKeeps
  <1>5. ASSUME NEW q \in Request, NEW target \in Targets, RefuseFile(q, target) PROVE HttpInv'
    <2>1. /\ Receive(q) /\ UNCHANGED <<routes, statics, nodes, leaves, serving, pending, job, file>>
          /\ wire' = Append(wire, OnTheWire(Len(requests) + 1, "plain", 1, PeerOf(q.accept), ~q.close, TRUE))
      BY <1>5 DEF RefuseFile
    <2>2. pending' \subseteq DOMAIN requests'
      <3>1. Grown  BY <2>1, ReceiveFits, Zenon
      <3>2. DOMAIN requests \subseteq DOMAIN requests'  BY <3>1, AnsweredGrows DEF HttpInv
      <3>3. QED  BY <2>1, <3>2 DEF HttpInv, HttpTypeOK
    <2>3. QED  BY <2>1, <2>2, ReadKeeps
  <1>6. ASSUME NEW q \in Request, NEW target \in Targets, BeginFile(q, target) PROVE HttpInv'  BY <1>6, BeginFileKeeps
  <1>7. ASSUME NEW q \in Request, NEW m, NEW p, ReadRouted(q, m, p) PROVE HttpInv'
    <2>1. /\ Receive(q) /\ UNCHANGED <<routes, statics, nodes, leaves, serving, job, file>>
          /\ pending' \in {pending, pending \cup {Len(requests) + 1}}
          /\ \/ wire' = wire
             \/ wire' = Append(wire, OnTheWire(Len(requests) + 1, "plain", 1, PeerOf(q.accept), ~q.close, TRUE))
      BY <1>7 DEF ReadRouted
    <2>2. Grown /\ Len(requests) + 1 \in DOMAIN requests'  BY <2>1, ReceiveFits, Zenon
    <2>3. pending \subseteq DOMAIN requests'  BY <2>2, AnsweredGrows DEF HttpInv, HttpTypeOK
    <2>4. pending' \subseteq DOMAIN requests'  BY <2>1, <2>2, <2>3
    <2>5. QED  BY <2>1, <2>4, ReadKeeps
  <1>8. ASSUME NEW i \in pending, NEW style \in Styles, NEW n \in BodyLengths, Answer(i, style, n) PROVE HttpInv'
    BY <1>8, AnswerKeeps
  <1>9. CASE SendChunk  BY <1>9, SendChunkKeeps
  <1>13. CASE ReadFails  BY <1>13, ReadFailsKeeps
  <1>10. ASSUME NEW size \in FileSizes, ChangeFile(size) PROVE HttpInv'  BY <1>10, ChangeFileKeeps
  <1>11. CASE UNCHANGED httpVars
    <2>1. UNCHANGED <<routes, statics, nodes, leaves>> /\ UNCHANGED Rest /\ serving' = serving  BY <1>11 DEF httpVars
    <2>2. TableTypes'  BY <2>1, TableStays DEF HttpInv
    <2>3. serving' \in BOOLEAN  BY <2>1 DEF HttpInv, HttpTypeOK
    <2>4. QED  BY <2>1, <2>2, <2>3, <1>1
  <1>12. QED
    BY <1>2, <1>3, <1>4, <1>5, <1>6, <1>7, <1>8, <1>9, <1>10, <1>11, <1>13, Zenon DEF HttpNext

LEMMA HttpInvariant == HttpSpec => []HttpInv
  BY HttpInvInit, HttpInvNext, PTL DEF HttpSpec

\* The table of routes, the connection and its responses have their types.
THEOREM HttpTypeCorrect == HttpSpec => []HttpTypeOK
  <1>1. HttpInv => HttpTypeOK  BY DEF HttpInv
  <1>2. QED  BY <1>1, HttpInvariant, PTL

\* The head of a finished response announces the body that follows, whether
\* it was compressed, sent in chunks from a file, or empty; when read() fails
\* the body is at most as long.
THEOREM ResponsesWellFramed == HttpSpec => []WellFramed
  <1>1. HttpInv => WellFramed  BY DEF HttpInv
  <1>2. QED  BY <1>1, HttpInvariant, PTL

\* A response written before the next request is read is encoded as its own
\* request accepts, for any sequence of requests, and says close as it did;
\* the head of a file says keep-alive.
THEOREM AnswersFitRequests == HttpSpec => []AnswerFitsRequest
  <1>1. HttpInv => AnswerFitsRequest  BY DEF HttpInv
  <1>2. QED  BY <1>1, HttpInvariant, PTL

---------------------------------------------------------------------------
(* The table of routes *)

\* Routes whose handler is in the tree, the root included.
InTree(segs) == HasParam(segs) \/ segs = <<>>
Same(e, key, m) == e.key = key /\ e.m = m

StaticsFit ==
  \A e \in statics :
    /\ e.h \in DOMAIN routes /\ routes[e.h].m = e.m /\ routes[e.h].segs = SplitPath(e.key)
    /\ e.key \in Seq(Tokens) /\ IsNormal(e.key) /\ ~InTree(SplitPath(e.key))

LeavesFit ==
  \A e \in leaves :
    /\ e.h \in DOMAIN routes /\ routes[e.h].m = e.m /\ Labels(routes[e.h].segs) = e.key
    /\ InTree(routes[e.h].segs)

\* No route is forgotten, and the handler that is there is as new.
RoutesKept ==
  \A i \in DOMAIN routes :
    /\ InTree(routes[i].segs) => \E e \in leaves : Same(e, Labels(routes[i].segs), routes[i].m) /\ e.h >= i
    /\ ~InTree(routes[i].segs) => \E e \in statics : SplitPath(e.key) = routes[i].segs /\ e.m = routes[i].m /\ e.h >= i

OneEach(table) == \A e, f \in table : e.key = f.key /\ e.m = f.m => e = f

\* The nodes are the prefixes of the leaves, and of nothing else.
NodesFit ==
  /\ \A e \in leaves : \A k \in 1..Len(e.key) : SubSeq(e.key, 1, k) \in Range(nodes)
  /\ \A x \in Range(nodes) : \E i \in DOMAIN routes :
       Len(x) \in 1..Len(routes[i].segs) /\ x = SubSeq(Labels(routes[i].segs), 1, Len(x))

TableInv == TableTypes /\ StaticsFit /\ LeavesFit /\ RoutesKept /\ OneEach(statics) /\ OneEach(leaves) /\ NodesFit

\* With() replaces at most the handler of the same key and method.
LEMMA WithFits ==
  ASSUME NEW table, NEW key, NEW m, NEW h
  PROVE  /\ \A e \in With(table, key, m, h) : (e \in table /\ ~Same(e, key, m)) \/ e = [key |-> key, m |-> m, h |-> h]
         /\ \A e \in table : ~Same(e, key, m) => e \in With(table, key, m, h)
         /\ [key |-> key, m |-> m, h |-> h] \in With(table, key, m, h)
  BY DEF With, Same

LEMMA WithOneEach ==
  ASSUME NEW table, NEW key, NEW m, NEW h, OneEach(table)
  PROVE  OneEach(With(table, key, m, h))
  BY DEF OneEach, With

\* findOrCreate() makes the nodes on the way and no others.
LEMMA CreatedNodes ==
  ASSUME NEW L, NEW labels \in Seq(L), nodes \in Seq(Seq(L))
  PROVE  Range(Created(labels)) = Range(nodes) \cup {SubSeq(labels, 1, i) : i \in 1..Len(labels)}
  <1> DEFINE n == Len(labels)
             Begin(i) == SubSeq(labels, 1, i)
  <1>1. PICK c \in [0..n -> Seq(Seq(L))] :
           /\ c[0] = nodes
           /\ \A i \in 1..n : c[i] = IF Begin(i) \in Range(c[i - 1]) THEN c[i - 1] ELSE Append(c[i - 1], Begin(i))
           /\ Created(labels) = c[n]
    BY CreatedSteps, Zenon
  <1>2. n \in Nat  OBVIOUS
  <1> HIDE DEF n, Begin
  <1> DEFINE S == {i \in 0..n : Range(c[i]) = Range(nodes) \cup {Begin(j) : j \in 1..i}}
  <1>3. 0 \in S
    <2>1. 0 \in 0..n /\ {Begin(j) : j \in 1..0} = {}  BY <1>2
    <2>2. QED  BY <2>1, <1>1
  <1>4. ASSUME NEW i \in 1..n, i - 1 \in S PROVE i \in S
    <2>1. i \in 0..n /\ i - 1 \in 0..n /\ c[i - 1] \in Seq(Seq(L))  BY <1>1, <1>2
    <2>2. {Begin(j) : j \in 1..i} = {Begin(j) : j \in 1..i - 1} \cup {Begin(i)}
      <3>1. 1..i = (1..i - 1) \cup {i}  BY <1>2
      <3>2. QED  BY <3>1
    <2>3. Range(c[i]) = Range(c[i - 1]) \cup {Begin(i)}
      <3>1. CASE Begin(i) \in Range(c[i - 1])  BY <3>1, <1>1
      <3>2. CASE Begin(i) \notin Range(c[i - 1])
        <4>1. c[i] = Append(c[i - 1], Begin(i))  BY <3>2, <1>1
        <4>2. QED  BY <4>1, <2>1, RangeAppend
      <3>3. QED  BY <3>1, <3>2
    <2>4. QED  BY <2>1, <2>2, <2>3, <1>4
  <1> HIDE DEF S
  <1>5. \A i \in 0..n : i \in S  BY <1>2, <1>3, <1>4, UpTo
  <1>6. n \in S  BY <1>2, <1>5
  <1>7. QED  BY <1>1, <1>6 DEF S, n, Begin

\* A new handler in one of the tables: everyone else keeps its route.
LEMMA OlderRoutes ==
  ASSUME NEW R, routes \in Seq(R), NEW x \in R, routes' = Append(routes, x)
  PROVE  /\ Len(routes) \in Nat /\ DOMAIN routes = 1..Len(routes) /\ DOMAIN routes' = 1..Len(routes) + 1
         /\ Len(routes) + 1 \in DOMAIN routes' /\ routes'[Len(routes) + 1] = x
         /\ \A i \in DOMAIN routes : i \in DOMAIN routes' /\ routes'[i] = routes[i] /\ i <= Len(routes) + 1
         /\ \A i \in DOMAIN routes' : i \in DOMAIN routes \/ i = Len(routes) + 1
  OBVIOUS

LEMMA AddStaticKeeps ==
  ASSUME TableInv, NEW m \in Methods, NEW norm \in Seq(Tokens), IsNormal(norm), ~InTree(SplitPath(norm)),
         SplitPath(norm) \in Seq(Tokens),
         routes' = Append(routes, [m |-> m, segs |-> SplitPath(norm)]),
         statics' = With(statics, norm, m, Len(routes) + 1), nodes' = nodes, leaves' = leaves
  PROVE  StaticsFit' /\ LeavesFit' /\ RoutesKept' /\ OneEach(statics)' /\ OneEach(leaves)' /\ NodesFit'
  <1> DEFINE h == Len(routes) + 1
             segs == SplitPath(norm)
             x == [m |-> m, segs |-> segs]
             new == [key |-> norm, m |-> m, h |-> h]
             R == [m : Methods, segs : Seq(Tokens)]
  <1>1. x \in R /\ routes \in Seq(R)  BY DEF TableInv, TableTypes
  <1>2. x.m = m /\ x.segs = segs /\ new.key = norm /\ new.m = m /\ new.h = h  OBVIOUS
  <1> HIDE DEF x, new, R, segs
  <1>3. /\ DOMAIN routes = 1..Len(routes) /\ h \in Nat /\ h \in DOMAIN routes' /\ routes'[h] = x
        /\ \A i \in DOMAIN routes : i \in DOMAIN routes' /\ routes'[i] = routes[i] /\ i <= h
        /\ \A i \in DOMAIN routes' : i \in DOMAIN routes \/ i = h
    <2>1. routes' = Append(routes, x)  BY DEF x, segs
    <2>2. QED  BY <2>1, <1>1, OlderRoutes
  <1>4. /\ \A e \in statics' : (e \in statics /\ ~Same(e, norm, m)) \/ e = new
        /\ \A e \in statics : ~Same(e, norm, m) => e \in statics'
        /\ new \in statics'
    <2>1. statics' = With(statics, norm, m, h)  BY DEF h
    <2> HIDE DEF h
    <2>2. QED  BY <2>1, WithFits, Zenon DEF new
  <1> HIDE DEF h
  <1>5. StaticsFit'
    <2>1. SUFFICES ASSUME NEW e \in statics'
                   PROVE  /\ e.h \in DOMAIN routes' /\ routes'[e.h].m = e.m /\ routes'[e.h].segs = SplitPath(e.key)
                          /\ e.key \in Seq(Tokens) /\ IsNormal(e.key) /\ ~InTree(SplitPath(e.key))
      BY Zenon DEF StaticsFit, InTree, HasParam
    <2>2. CASE e \in statics  BY <2>2, <1>3, Zenon DEF TableInv, StaticsFit
    <2>3. CASE e = new  BY <2>3, <1>2, <1>3, Zenon DEF segs
    <2>4. QED  BY <2>2, <2>3, <1>4
  <1>6. LeavesFit'
    <2>1. SUFFICES ASSUME NEW e \in leaves
                   PROVE  /\ e.h \in DOMAIN routes' /\ routes'[e.h].m = e.m
                          /\ Labels(routes'[e.h].segs) = e.key /\ InTree(routes'[e.h].segs)
      BY Zenon DEF LeavesFit, InTree, HasParam, Labels, Label
    <2>2. QED  BY <1>3, Zenon DEF TableInv, LeavesFit
  <1>7. RoutesKept'
    <2>1. SUFFICES ASSUME NEW i \in DOMAIN routes'
                   PROVE  /\ InTree(routes'[i].segs) => \E e \in leaves : Same(e, Labels(routes'[i].segs), routes'[i].m) /\ e.h >= i
                          /\ ~InTree(routes'[i].segs) => \E e \in statics' :
                               SplitPath(e.key) = routes'[i].segs /\ e.m = routes'[i].m /\ e.h >= i
      BY Zenon DEF RoutesKept, InTree, HasParam, Labels, Label, Same
    <2>2. CASE i \in DOMAIN routes
      <3>1. routes'[i] = routes[i] /\ h >= i  BY <2>2, <1>3
      <3>2. CASE InTree(routes[i].segs)  BY <2>2, <3>1, <3>2, Zenon DEF TableInv, RoutesKept
      <3>3. CASE ~InTree(routes[i].segs)
        <4>1. PICK e \in statics : SplitPath(e.key) = routes[i].segs /\ e.m = routes[i].m /\ e.h >= i
          BY <2>2, <3>3, Zenon DEF TableInv, RoutesKept
        <4>2. CASE Same(e, norm, m)  BY <4>1, <4>2, <3>1, <3>3, <1>2, <1>4, Zenon DEF Same
        <4>3. CASE ~Same(e, norm, m)  BY <4>1, <4>3, <3>1, <3>3, <1>4, Zenon
        <4>4. QED  BY <4>2, <4>3
      <3>4. QED  BY <3>2, <3>3
    <2>3. CASE i = h
      <3>1. new.h >= i  BY <2>3, <1>2, <1>3
      <3>2. routes'[i].segs = SplitPath(new.key) /\ routes'[i].m = new.m /\ ~InTree(routes'[i].segs)
        BY <2>3, <1>2, <1>3 DEF segs
      <3>3. QED  BY <3>1, <3>2, <1>4, Zenon
    <2>4. QED  BY <2>2, <2>3, <1>3
  <1>8. OneEach(statics)'
    <2>1. OneEach(With(statics, norm, m, Len(routes) + 1))  BY WithOneEach, Zenon DEF TableInv
    <2>2. QED  BY <2>1 DEF OneEach
  <1>9. OneEach(leaves)'  BY DEF TableInv, OneEach
  <1>10. NodesFit'
    <2>1. SUFFICES ASSUME NEW y \in Range(nodes)
                   PROVE  \E i \in DOMAIN routes' :
                            Len(y) \in 1..Len(routes'[i].segs) /\ y = SubSeq(Labels(routes'[i].segs), 1, Len(y))
      BY Zenon DEF TableInv, NodesFit, Labels, Label
    <2>2. PICK i \in DOMAIN routes : Len(y) \in 1..Len(routes[i].segs) /\ y = SubSeq(Labels(routes[i].segs), 1, Len(y))
      BY Zenon DEF TableInv, NodesFit
    <2>3. QED  BY <2>2, <1>3, Zenon
  <1>11. QED  BY <1>5, <1>6, <1>7, <1>8, <1>9, <1>10

LEMMA AddTreeKeeps ==
  ASSUME TableInv, NEW m \in Methods, NEW segs \in Seq(Tokens), InTree(segs),
         routes' = Append(routes, [m |-> m, segs |-> segs]),
         nodes' = Created(Labels(segs)), leaves' = With(leaves, Labels(segs), m, Len(routes) + 1), statics' = statics
  PROVE  StaticsFit' /\ LeavesFit' /\ RoutesKept' /\ OneEach(statics)' /\ OneEach(leaves)' /\ NodesFit'
  <1> DEFINE h == Len(routes) + 1
             key == Labels(segs)
             x == [m |-> m, segs |-> segs]
             new == [key |-> key, m |-> m, h |-> h]
             R == [m : Methods, segs : Seq(Tokens)]
  <1>1. x \in R /\ routes \in Seq(R)  BY DEF TableInv, TableTypes
  <1>2. x.m = m /\ x.segs = segs /\ new.key = key /\ new.m = m /\ new.h = h  OBVIOUS
  <1>3. /\ DOMAIN routes = 1..Len(routes) /\ h \in Nat /\ h \in DOMAIN routes' /\ routes'[h] = x
        /\ \A i \in DOMAIN routes : i \in DOMAIN routes' /\ routes'[i] = routes[i] /\ i <= h
        /\ \A i \in DOMAIN routes' : i \in DOMAIN routes \/ i = h
    <2> HIDE DEF R
    <2>1. routes' = Append(routes, x)  OBVIOUS
    <2>2. QED  BY <2>1, <1>1, OlderRoutes
  <1> HIDE DEF x, new, R
  <1>4. /\ \A e \in leaves' : (e \in leaves /\ ~Same(e, key, m)) \/ e = new
        /\ \A e \in leaves : ~Same(e, key, m) => e \in leaves'
        /\ new \in leaves'
    <2>1. leaves' = With(leaves, key, m, h)  OBVIOUS
    <2> HIDE DEF h, key
    <2>2. QED  BY <2>1, WithFits, Zenon DEF new
  <1>5. key \in Seq(TreeLabels) /\ Len(key) = Len(segs) /\ Len(key) \in Nat  BY LabelsType
  <1>6. Range(nodes') = Range(nodes) \cup {SubSeq(key, 1, i) : i \in 1..Len(key)}
    <2>1. nodes \in Seq(Seq(TreeLabels))  BY DEF TableInv, TableTypes
    <2>2. QED  BY <2>1, <1>5, CreatedNodes, Zenon
  <1> HIDE DEF h
  <1>7. StaticsFit'
    <2>1. SUFFICES ASSUME NEW e \in statics
                   PROVE  /\ e.h \in DOMAIN routes' /\ routes'[e.h].m = e.m /\ routes'[e.h].segs = SplitPath(e.key)
                          /\ e.key \in Seq(Tokens) /\ IsNormal(e.key) /\ ~InTree(SplitPath(e.key))
      BY Zenon DEF StaticsFit, InTree, HasParam
    <2>2. QED  BY <1>3, Zenon DEF TableInv, StaticsFit
  <1>8. LeavesFit'
    <2>1. SUFFICES ASSUME NEW e \in leaves'
                   PROVE  /\ e.h \in DOMAIN routes' /\ routes'[e.h].m = e.m
                          /\ Labels(routes'[e.h].segs) = e.key /\ InTree(routes'[e.h].segs)
      BY Zenon DEF LeavesFit, InTree, HasParam, Labels, Label
    <2>2. CASE e \in leaves  BY <2>2, <1>3, Zenon DEF TableInv, LeavesFit
    <2>3. CASE e = new  BY <2>3, <1>2, <1>3, Zenon
    <2>4. QED  BY <2>2, <2>3, <1>4
  <1>9. RoutesKept'
    <2>1. SUFFICES ASSUME NEW i \in DOMAIN routes'
                   PROVE  /\ InTree(routes'[i].segs) => \E e \in leaves' : Same(e, Labels(routes'[i].segs), routes'[i].m) /\ e.h >= i
                          /\ ~InTree(routes'[i].segs) => \E e \in statics :
                               SplitPath(e.key) = routes'[i].segs /\ e.m = routes'[i].m /\ e.h >= i
      BY Zenon DEF RoutesKept, InTree, HasParam, Labels, Label, Same
    <2>2. CASE i \in DOMAIN routes
      <3>1. routes'[i] = routes[i] /\ h >= i  BY <2>2, <1>3
      <3>2. CASE ~InTree(routes[i].segs)  BY <2>2, <3>1, <3>2, Zenon DEF TableInv, RoutesKept
      <3>3. CASE InTree(routes[i].segs)
        <4>1. PICK e \in leaves : Same(e, Labels(routes[i].segs), routes[i].m) /\ e.h >= i
          BY <2>2, <3>3, Zenon DEF TableInv, RoutesKept
        <4>2. CASE Same(e, key, m)
          <5>1. Same(new, Labels(routes[i].segs), routes[i].m)  BY <4>1, <4>2, <1>2 DEF Same
          <5>2. QED  BY <5>1, <3>1, <3>3, <1>2, <1>4, Zenon
        <4>3. CASE ~Same(e, key, m)  BY <4>1, <4>3, <3>1, <3>3, <1>4, Zenon
        <4>4. QED  BY <4>2, <4>3
      <3>4. QED  BY <3>2, <3>3
    <2>3. CASE i = h
      <3>1. new.h >= i  BY <2>3, <1>2, <1>3
      <3>2. Same(new, Labels(routes'[i].segs), routes'[i].m) /\ InTree(routes'[i].segs)
        BY <2>3, <1>2, <1>3 DEF Same
      <3>3. QED  BY <3>1, <3>2, <1>4, Zenon
    <2>4. QED  BY <2>2, <2>3, <1>3
  <1>10. OneEach(statics)'  BY DEF TableInv, OneEach
  <1>11. OneEach(leaves)'
    <2>1. OneEach(With(leaves, key, m, Len(routes) + 1))  BY WithOneEach, Zenon DEF TableInv
    <2>2. QED  BY <2>1 DEF OneEach
  <1>12. ASSUME NEW e \in leaves', NEW k \in 1..Len(e.key) PROVE SubSeq(e.key, 1, k) \in Range(nodes')
    <2>1. CASE e \in leaves  BY <2>1, <1>12, <1>6, Zenon DEF TableInv, NodesFit
    <2>2. CASE e = new  BY <2>2, <1>12, <1>2, <1>6, Zenon
    <2>3. QED  BY <2>1, <2>2, <1>4
  <1>13. ASSUME NEW y \in Range(nodes')
         PROVE  \E i \in DOMAIN routes' : Len(y) \in 1..Len(routes'[i].segs) /\ y = SubSeq(Labels(routes'[i].segs), 1, Len(y))
    <2>1. CASE y \in Range(nodes)
      <3>1. PICK i \in DOMAIN routes : Len(y) \in 1..Len(routes[i].segs) /\ y = SubSeq(Labels(routes[i].segs), 1, Len(y))
        BY <2>1, Zenon DEF TableInv, NodesFit
      <3>2. QED  BY <3>1, <1>3, Zenon
    <2>2. CASE y \in {SubSeq(key, 1, i) : i \in 1..Len(key)}
      <3>1. PICK k \in 1..Len(key) : y = SubSeq(key, 1, k)  BY <2>2
      <3>2. Len(y) = k  BY <3>1, <1>5
      <3>3. routes'[h].segs = segs /\ k \in 1..Len(segs)  BY <3>1, <1>2, <1>3, <1>5
      <3>4. QED  BY <3>1, <3>2, <3>3, <1>3, Zenon
    <2>3. QED  BY <2>1, <2>2, <1>6
  <1>14. NodesFit'  BY <1>12, <1>13, Zenon DEF NodesFit, Range, Labels, Label
  <1>15. QED  BY <1>7, <1>8, <1>9, <1>10, <1>11, <1>14

\* A table with no routes, a route more, and everything else that happens.
LEMMA TableInvInit == HttpInit => TableInv
  <1> SUFFICES ASSUME HttpInit PROVE TableInv  OBVIOUS
  <1>1. routes = <<>> /\ statics = {} /\ nodes = <<>> /\ leaves = {}  BY DEF HttpInit, RouterInit
  <1>2. TableTypes
    <2> HIDE DEF TreeLabels
    <2>1. QED  BY <1>1 DEF TableTypes
  <1>3. Range(nodes) = {} /\ DOMAIN routes = {}  BY <1>1 DEF Range
  <1>4. QED  BY <1>1, <1>2, <1>3, Zenon DEF TableInv, StaticsFit, LeavesFit, RoutesKept, OneEach, NodesFit

LEMMA AddRouteKeeps ==
  ASSUME TableInv, NEW m \in Methods, NEW p \in RoutePaths, AddRoute(m, p)
  PROVE  TableInv'
  <1> DEFINE norm == NormalizePath(p)
             segs == SplitPath(norm)
             h == Len(routes) + 1
  <1>1. norm \in Seq(Tokens) /\ IsNormal(norm) /\ segs \in Seq(Tokens)  BY RouteTokens
  <1>2. TableTypes'  BY AddRouteTypes DEF TableInv
  <1>3. routes' = Append(routes, [m |-> m, segs |-> segs])  BY DEF AddRoute
  <1>4. StaticsFit' /\ LeavesFit' /\ RoutesKept' /\ OneEach(statics)' /\ OneEach(leaves)' /\ NodesFit'
    <2>1. CASE InTree(segs)
      <3>1. nodes' = Created(Labels(segs)) /\ leaves' = With(leaves, Labels(segs), m, h) /\ statics' = statics
        BY <2>1 DEF AddRoute, InTree
      <3> HIDE DEF segs, norm
      <3>2. QED  BY <2>1, <3>1, <1>1, <1>3, AddTreeKeeps, Zenon
    <2>2. CASE ~InTree(segs)
      <3>1. statics' = With(statics, norm, m, h) /\ nodes' = nodes /\ leaves' = leaves
        BY <2>2 DEF AddRoute, InTree
      <3> HIDE DEF norm
      <3>2. QED  BY <2>2, <3>1, <1>1, <1>3, AddStaticKeeps, Zenon
    <2>3. QED  BY <2>1, <2>2
  <1>5. QED  BY <1>2, <1>4 DEF TableInv

LEMMA TableInvNext == TableInv /\ [HttpNext]_httpVars => TableInv'
  <1> SUFFICES ASSUME TableInv, [HttpNext]_httpVars PROVE TableInv'  OBVIOUS
  <1>1. CASE UNCHANGED <<routes, statics, nodes, leaves>>
    <2>1. TableTypes'  BY <1>1 DEF TableInv, TableTypes, TreeLabels, Handlers, Label
    <2>2. StaticsFit'  BY <1>1 DEF TableInv, StaticsFit, InTree, HasParam
    <2>3. LeavesFit'  BY <1>1 DEF TableInv, LeavesFit, InTree, HasParam, Labels, Label
    <2>4. RoutesKept'  BY <1>1 DEF TableInv, RoutesKept, InTree, HasParam, Labels, Label, Same
    <2>5. OneEach(statics)' /\ OneEach(leaves)'  BY <1>1 DEF TableInv, OneEach
    <2>6. NodesFit'
      <3>1. routes' = routes /\ leaves' = leaves /\ nodes' = nodes /\ NodesFit  BY <1>1 DEF TableInv
      <3>2. /\ \A e \in leaves' : \A k \in 1..Len(e.key) : SubSeq(e.key, 1, k) \in Range(nodes')
            /\ \A y \in Range(nodes') : \E i \in DOMAIN routes' :
                 Len(y) \in 1..Len(routes'[i].segs) /\ y = SubSeq(Labels(routes'[i].segs), 1, Len(y))
        BY <3>1, SMT DEF NodesFit
      <3>3. QED  BY <3>2, Zenon DEF NodesFit, Range, Labels, Label
    <2>7. QED  BY <2>1, <2>2, <2>3, <2>4, <2>5, <2>6 DEF TableInv
  <1>2. CASE Configure
    <2>1. PICK m \in Methods, p \in RoutePaths : AddRoute(m, p)  BY <1>2 DEF Configure
    <2>2. QED  BY <2>1, AddRouteKeeps
  <1>3. Configure \/ UNCHANGED <<routes, statics, nodes, leaves>>
    BY DEF HttpNext, httpVars, Serve, ReadPacked, RefuseFile, BeginFile, ReadRouted, Answer, SendChunk, ReadFails, ChangeFile
  <1>4. QED  BY <1>1, <1>2, <1>3

LEMMA TableInvariant == HttpSpec => []TableInv
  BY TableInvInit, TableInvNext, PTL DEF HttpSpec

---------------------------------------------------------------------------
(* The search in the tree *)

\* What matchNode() returns.
Results(segs) == [ok : BOOLEAN, params : Bindings(segs)]
Searches(segs) == [Nodes -> [Bindings(segs) -> Results(segs)]]

\* A label is told by its segment.
LEMMA LabelFits ==
  ASSUME NEW t \in TreeLabels
  PROVE  t.param \in BOOLEAN /\ (t.param <=> t.seg \in Params) /\ t = Label(t.seg)
  <1>1. PICK u \in Tokens : t = [seg |-> u, param |-> u \in Params]  BY DEF TreeLabels, Label
  <1> DEFINE b == u \in Params
  <1>2. b \in BOOLEAN  OBVIOUS
  <1> HIDE DEF b
  <1>3. t.seg = u /\ t.param = b  BY <1>1 DEF b
  <1>4. QED  BY <1>1, <1>2, <1>3, Zenon DEF Label, b

LEMMA NodesType ==
  ASSUME TableTypes
  PROVE  Nodes \subseteq Seq(TreeLabels) /\ Range(nodes) \subseteq Nodes /\ <<>> \in Nodes
  <1> HIDE DEF TreeLabels
  <1>1. nodes \in Seq(Seq(TreeLabels))  BY DEF TableTypes
  <1>2. Range(nodes) \subseteq Seq(TreeLabels)  BY <1>1 DEF Range
  <1>3. <<>> \in Seq(TreeLabels)  OBVIOUS
  <1>4. QED  BY <1>2, <1>3 DEF Nodes

\* A turn is for one of the nodes, and each node has two turns.
LEMMA TurnsType ==
  ASSUME TableTypes
  PROVE  /\ Len(nodes) \in Nat /\ 2 * Len(nodes) \in Nat
         /\ \A i \in Turns : Child(i) \in Range(nodes)
         /\ \A x \in Range(nodes) : \E i \in 1..Len(nodes) :
              /\ i \in Turns /\ Child(i) = x
              /\ i + Len(nodes) \in Turns /\ ~(i + Len(nodes) <= Len(nodes)) /\ Child(i + Len(nodes)) = x
  <1>1. Len(nodes) \in Nat /\ DOMAIN nodes = 1..Len(nodes)  BY DEF TableTypes
  <1>2. ASSUME NEW i \in Turns PROVE Child(i) \in Range(nodes)
    <2>1. CASE i <= Len(nodes)
      <3>1. i \in DOMAIN nodes /\ Child(i) = nodes[i]  BY <1>1, <2>1 DEF Turns, Child
      <3>2. QED  BY <3>1, Zenon DEF Range
    <2>2. CASE ~(i <= Len(nodes))
      <3>1. i - Len(nodes) \in DOMAIN nodes /\ Child(i) = nodes[i - Len(nodes)]  BY <1>1, <2>2 DEF Turns, Child
      <3>2. QED  BY <3>1, Zenon DEF Range
    <2>3. QED  BY <2>1, <2>2
  <1>3. ASSUME NEW x \in Range(nodes)
        PROVE  \E i \in 1..Len(nodes) :
                 /\ i \in Turns /\ Child(i) = x
                 /\ i + Len(nodes) \in Turns /\ ~(i + Len(nodes) <= Len(nodes)) /\ Child(i + Len(nodes)) = x
    <2>1. PICK i \in 1..Len(nodes) : nodes[i] = x  BY <1>1 DEF Range
    <2>2. /\ i \in Turns /\ i + Len(nodes) \in Turns /\ i <= Len(nodes)
          /\ ~(i + Len(nodes) <= Len(nodes)) /\ (i + Len(nodes)) - Len(nodes) = i
      BY <1>1 DEF Turns
    <2>3. QED  BY <2>1, <2>2, Zenon DEF Child
  <1>4. QED  BY <1>1, <1>2, <1>3

\* A child that a turn visits.
LEMMA VisitsChild ==
  ASSUME TableTypes, NEW node \in Nodes, NEW seg, NEW i \in Turns, Visits(node, seg, i)
  PROVE  /\ Child(i) \in Nodes /\ Child(i) \in Seq(TreeLabels) /\ Len(Child(i)) = Len(node) + 1 /\ Len(node) \in Nat
         /\ SubSeq(Child(i), 1, Len(node)) = node
         /\ Last(Child(i)) \in TreeLabels /\ Last(Child(i)) = Child(i)[Len(node) + 1]
         /\ Last(Child(i)).param \/ Last(Child(i)).seg = seg
  <1> DEFINE child == Child(i)
  <1>1. child \in Nodes /\ child \in Seq(TreeLabels) /\ node \in Seq(TreeLabels)  BY NodesType, TurnsType, Zenon
  <1>2. /\ Len(child) = Len(node) + 1 /\ SubSeq(child, 1, Len(node)) = node
        /\ Last(child).param \/ Last(child).seg = seg
    BY DEF Visits, IsBelow
  <1> HIDE DEF child, TreeLabels
  <1>3. Len(node) \in Nat /\ Len(node) + 1 \in 1..Len(child)  BY <1>1, <1>2
  <1>4. Last(child) = child[Len(node) + 1] /\ child[Len(node) + 1] \in TreeLabels
    BY <1>1, <1>2, <1>3 DEF Last
  <1>5. QED  BY <1>1, <1>2, <1>3, <1>4 DEF child

\* params with one more binding, or with one less.
LEMMA BindingsType ==
  ASSUME NEW segs, NEW seg \in Range(segs), NEW name \in Params, NEW params \in Bindings(segs)
  PROVE  Bound(params, name, seg) \in Bindings(segs) /\ Erased(params, name) \in Bindings(segs)
  BY DEF Bindings, Bound, Erased

Tells(got, segs, below, child) ==
  got \in Results(segs) /\ \E ps \in Bindings(segs) : got.ok = below[child][ps].ok

\* A child is tried with the bindings so far and perhaps its own.
LEMMA TriedFits ==
  ASSUME TableTypes, NEW segs, NEW seg \in Range(segs), NEW below \in Searches(segs),
         NEW node \in Nodes, NEW i \in Turns, Visits(node, seg, i), NEW params \in Bindings(segs)
  PROVE  Tells(Tried(below, Child(i), seg, params), segs, below, Child(i))
  <1> DEFINE child == Child(i)
             name == Last(child).seg
             got == below[child][Bound(params, name, seg)]
  <1>1. child \in Nodes /\ Last(child) \in TreeLabels  BY VisitsChild
  <1>2. below[child] \in [Bindings(segs) -> Results(segs)]  BY <1>1 DEF Searches
  <1>3. CASE ~Last(child).param
    <2>1. Tried(below, child, seg, params) = below[child][params]  BY <1>3 DEF Tried
    <2> HIDE DEF child
    <2>2. below[child][params] \in Results(segs)  BY <1>2
    <2>3. QED  BY <2>1, <2>2, Zenon DEF child, Tells
  <1>4. CASE Last(child).param
    <2>1. name \in Params  BY <1>1, <1>4, LabelFits
    <2>2. Bound(params, name, seg) \in Bindings(segs)  BY <2>1, BindingsType
    <2>3. Tried(below, child, seg, params) = IF got.ok THEN got ELSE [ok |-> FALSE, params |-> Erased(got.params, name)]
      BY <1>4 DEF Tried
    <2> HIDE DEF child
    <2>4. got \in Results(segs)  BY <1>2, <2>2
    <2> HIDE DEF name
    <2>5. got.ok \in BOOLEAN /\ got.params \in Bindings(segs)  BY <2>4 DEF Results
    <2>6. Erased(got.params, name) \in Bindings(segs)  BY <2>1, <2>5, BindingsType
    <2>7. Tried(below, child, seg, params) \in Results(segs)  BY <2>3, <2>4, <2>6 DEF Results
    <2>9. got.ok = below[child][Bound(params, name, seg)].ok  OBVIOUS
    <2> HIDE DEF got
    <2>8. Tried(below, child, seg, params).ok = got.ok
      <3>1. CASE got.ok  BY <3>1, <2>3
      <3>2. CASE ~got.ok
        <4>1. Tried(below, child, seg, params).ok = FALSE  BY <3>2, <2>3
        <4>2. QED  BY <4>1, <3>2, <2>5
      <3>3. QED  BY <3>1, <3>2
    <2>10. QED  BY <2>2, <2>7, <2>8, <2>9, Zenon DEF child, Tells
  <1>5. QED  BY <1>3, <1>4

\* The loop over the children, turn by turn.
LoopRuns(c, segs, below, node, seg, params) ==
  /\ c \in [0..2 * Len(nodes) -> Results(segs)] /\ c[0] = [ok |-> FALSE, params |-> params]
  /\ \A i \in Turns : c[i] = IF c[i - 1].ok \/ ~Visits(node, seg, i) THEN c[i - 1]
                             ELSE Tried(below, Child(i), seg, c[i - 1].params)
  /\ Loop(below, node, seg, params) = c[2 * Len(nodes)]

LEMMA LoopSteps ==
  ASSUME TableTypes, NEW segs, NEW seg \in Range(segs), NEW below \in Searches(segs),
         NEW node \in Nodes, NEW params \in Bindings(segs)
  PROVE  \E c : LoopRuns(c, segs, below, node, seg, params)
  <1> DEFINE n == 2 * Len(nodes)
             T == Results(segs)
             start == [ok |-> FALSE, params |-> params]
             Step(i, x) == IF x.ok \/ ~Visits(node, seg, i) THEN x ELSE Tried(below, Child(i), seg, x.params)
  <1> DEFINE Is(f) == f = [i \in 0..n |-> IF i = 0 THEN start ELSE Step(i, f[i - 1])]
             step == [i \in 1..n |-> [x \in T |-> Step(i, x)]]
             c == CHOOSE f : Is(f)
  <1>1. n \in Nat /\ start \in T
    BY TurnsType DEF Results
  <1>2. ASSUME NEW i \in 1..n, NEW x \in T PROVE Step(i, x) \in T
    <2>1. i \in Turns  BY DEF Turns
    <2>2. CASE x.ok \/ ~Visits(node, seg, i)  BY <2>2
    <2>3. CASE ~(x.ok \/ ~Visits(node, seg, i))
      <3>1. x.params \in Bindings(segs)  BY DEF Results
      <3>2. Tried(below, Child(i), seg, x.params) \in Results(segs)
        BY <3>1, <2>1, <2>3, TriedFits, Zenon DEF Tells
      <3>3. QED  BY <3>2, <2>3
    <2>4. QED  BY <2>2, <2>3
  <1> HIDE DEF Step, T, n, start
  <1>3. step \in [1..n -> [T -> T]] /\ \A i \in 1..n, x \in T : step[i][x] = Step(i, x)  BY <1>2
  <1> HIDE DEF step
  <1>4. PICK f \in [0..n -> T] : Solves(f, n, start, step)  BY <1>1, <1>3, RecExists, Zenon
  <1>5. Is(f)
    <2>1. ASSUME NEW i \in 0..n
          PROVE  f[i] = IF i = 0 THEN start ELSE Step(i, f[i - 1])
      <3>1. CASE i = 0  BY <3>1, <1>4 DEF Solves
      <3>2. CASE i # 0
        <4>1. i \in 1..n /\ i - 1 \in 0..n  BY <3>2, <1>1
        <4>2. f[i - 1] \in T /\ f[i] = step[i][f[i - 1]]  BY <4>1, <1>4, Zenon DEF Solves
        <4>3. QED  BY <3>2, <4>1, <4>2, <1>3, Zenon
      <3>3. QED  BY <3>1, <3>2
    <2>2. QED  BY <2>1
  <1>6. Is(c)  BY <1>5, Zenon
  <1> HIDE DEF c
  <1>7. c = [i \in 0..n |-> c[i]] /\ \A i \in 0..n : c[i] = IF i = 0 THEN start ELSE Step(i, c[i - 1])  BY <1>6
  <1> HIDE DEF Is
  <1>8. c[0] = start /\ \A i \in 1..n : c[i] = Step(i, c[i - 1])
    <2>1. 0 \in 0..n /\ \A i \in 1..n : i \in 0..n /\ i # 0  BY <1>1
    <2>2. QED  BY <2>1, <1>7, Zenon
  <1>9. \A i \in 1..n : c[i - 1] \in T => c[i] \in T  BY <1>2, <1>8, Zenon
  <1>10. \A i \in 0..n : c[i] \in T  BY <1>1, <1>8, <1>9, RecTyped, Zenon
  <1>11. c \in [0..n -> T]  BY <1>7, <1>10
  <1>12. Loop(below, node, seg, params) = c[n]
    BY Zenon DEF Loop, c, Is, Step, n, start
  <1>13. QED  BY <1>8, <1>11, <1>12, Zenon DEF LoopRuns, Step, T, n, start, Turns

\* The loop finds something exactly if a turn it makes does, and then what
\* that turn found.
LEMMA LoopFinds ==
  ASSUME TableTypes, NEW segs, NEW seg \in Range(segs), NEW below \in Searches(segs),
         NEW node \in Nodes, NEW params \in Bindings(segs)
  PROVE  /\ Loop(below, node, seg, params) \in Results(segs)
         /\ Loop(below, node, seg, params).ok =>
              \E i \in Turns : Visits(node, seg, i) /\ \E ps \in Bindings(segs) : below[Child(i)][ps].ok
         /\ \A i \in Turns :
              Visits(node, seg, i) /\ (\A ps \in Bindings(segs) : below[Child(i)][ps].ok)
                => Loop(below, node, seg, params).ok
  <1> DEFINE n == 2 * Len(nodes)
             Finds(i) == \E ps \in Bindings(segs) : below[Child(i)][ps].ok
             Always(i) == \A ps \in Bindings(segs) : below[Child(i)][ps].ok
  <1>12. PICK c : LoopRuns(c, segs, below, node, seg, params)  BY LoopSteps
  <1>1. /\ c \in [0..n -> Results(segs)] /\ c[0] = [ok |-> FALSE, params |-> params]
        /\ \A i \in Turns : c[i] = IF c[i - 1].ok \/ ~Visits(node, seg, i) THEN c[i - 1]
                                   ELSE Tried(below, Child(i), seg, c[i - 1].params)
        /\ Loop(below, node, seg, params) = c[n]
    BY <1>12 DEF LoopRuns
  <1>2. n \in Nat /\ Turns = 1..n /\ \A i \in 1..n : i \in 0..n /\ i - 1 \in 0..n  BY TurnsType DEF Turns
  <1>3. ASSUME NEW i \in 1..n, Visits(node, seg, i), ~c[i - 1].ok
        PROVE  (c[i].ok => Finds(i)) /\ (Always(i) => c[i].ok)
    <2>1. c[i - 1].params \in Bindings(segs)  BY <1>1, <1>2 DEF Results
    <2>2. c[i] = Tried(below, Child(i), seg, c[i - 1].params)  BY <1>1, <1>2, <1>3
    <2>3. \E ps \in Bindings(segs) : c[i].ok = below[Child(i)][ps].ok
      <3> DEFINE ps1 == c[i - 1].params
      <3> HIDE DEF ps1
      <3>1. i \in Turns /\ ps1 \in Bindings(segs)  BY <2>1, <1>2 DEF ps1
      <3>2. Visits(node, seg, i)  BY <1>3
      <3> HIDE DEF n, Finds, Always
      <3>3. Tells(Tried(below, Child(i), seg, ps1), segs, below, Child(i))  BY <3>1, <3>2, TriedFits, Zenon
      <3>4. QED  BY <3>3, <2>2, Zenon DEF ps1, Tells
    <2>4. QED  BY <2>3
  <1> HIDE DEF n, Finds, Always
  <1> DEFINE S == {i \in 0..n : c[i].ok => \E j \in 1..n : Visits(node, seg, j) /\ Finds(j)}
             U == {i \in 0..n : \A j \in 1..i : Visits(node, seg, j) /\ Always(j) => c[i].ok}
  <1>4. 0 \in S /\ 0 \in U  BY <1>1, <1>2
  <1>5. ASSUME NEW i \in 1..n, i - 1 \in S PROVE i \in S
    <2>1. CASE c[i - 1].ok \/ ~Visits(node, seg, i)  BY <2>1, <1>1, <1>2, <1>5
    <2>2. CASE ~(c[i - 1].ok \/ ~Visits(node, seg, i))  BY <2>2, <1>2, <1>3
    <2>3. QED  BY <2>1, <2>2
  <1>6. ASSUME NEW i \in 1..n, i - 1 \in U PROVE i \in U
    <2>1. SUFFICES ASSUME NEW j \in 1..i, Visits(node, seg, j), Always(j) PROVE c[i].ok
      BY <1>2
    <2>2. CASE j = i
      <3>1. CASE c[i - 1].ok  BY <3>1, <1>1, <1>2
      <3>2. CASE ~c[i - 1].ok  BY <3>2, <2>1, <2>2, <1>3
      <3>3. QED  BY <3>1, <3>2
    <2>3. CASE j # i
      <3>1. j \in 1..i - 1  BY <2>3, <1>2
      <3>2. c[i - 1].ok  BY <3>1, <2>1, <1>6
      <3>3. QED  BY <3>2, <1>1, <1>2
    <2>4. QED  BY <2>2, <2>3
  <1> HIDE DEF S, U
  <1>7. n \in S
    <2>1. \A i \in 0..n : i \in S  BY <1>2, <1>4, <1>5, UpTo
    <2>2. QED  BY <2>1, <1>2
  <1>8. n \in U
    <2>1. \A i \in 0..n : i \in U  BY <1>2, <1>4, <1>6, UpTo
    <2>2. QED  BY <2>1, <1>2
  <1>9. c[n] \in Results(segs)  BY <1>1, <1>2
  <1>10. (c[n].ok => \E j \in 1..n : Visits(node, seg, j) /\ Finds(j))
         /\ \A j \in 1..n : Visits(node, seg, j) /\ Always(j) => c[n].ok
    BY <1>7, <1>8 DEF S, U
  <1>11. QED  BY <1>1, <1>2, <1>9, <1>10, ZenonT(60) DEF Finds, Always

\* matchNode() from the end of the request's path to its beginning.
Found(m, node, params) == [ok |-> HandlerFor(leaves, node, m) # 0, params |-> params]

MatchRuns(c, segs, m) ==
  /\ c \in [0..Len(segs) -> Searches(segs)]
  /\ \A node \in Nodes, params \in Bindings(segs) : c[0][node][params] = Found(m, node, params)
  /\ \A k \in 1..Len(segs), node \in Nodes, params \in Bindings(segs) :
       c[k][node][params] = Loop(c[k - 1], node, segs[Len(segs) - k + 1], params)
  /\ MatchNode(segs, m) = c[Len(segs)]

LEMMA MatchSteps ==
  ASSUME TableTypes, NEW A, NEW segs \in Seq(A), NEW m
  PROVE  \E c : MatchRuns(c, segs, m)
  <1> DEFINE n == Len(segs)
             T == Searches(segs)
             B == Bindings(segs)
             start == [node \in Nodes |-> [params \in B |-> Found(m, node, params)]]
             Step(k, x) == [node \in Nodes |-> [params \in B |-> Loop(x, node, segs[n - k + 1], params)]]
  <1> DEFINE Is(f) == f = [i \in 0..n |-> IF i = 0 THEN start ELSE Step(i, f[i - 1])]
             step == [i \in 1..n |-> [x \in T |-> Step(i, x)]]
             c == CHOOSE f : Is(f)
  <1>1. n \in Nat /\ start \in T
    <2>1. n \in Nat  OBVIOUS
    <2>2. \A node \in Nodes, params \in B : Found(m, node, params) \in Results(segs)  BY DEF Found, Results
    <2> HIDE DEF B
    <2>3. start \in [Nodes -> [B -> Results(segs)]]  BY <2>2
    <2>4. QED  BY <2>1, <2>3 DEF Searches, B
  <1>2. ASSUME NEW i \in 1..n, NEW x \in T PROVE Step(i, x) \in T
    <2>1. segs[n - i + 1] \in Range(segs)
      <3>1. n - i + 1 \in DOMAIN segs  OBVIOUS
      <3>2. QED  BY <3>1, Zenon DEF Range
    <2>2. \A node \in Nodes, params \in B : Loop(x, node, segs[n - i + 1], params) \in Results(segs)
      BY <2>1, LoopFinds, Zenon
    <2> HIDE DEF B, n
    <2>3. Step(i, x) \in [Nodes -> [B -> Results(segs)]]  BY <2>2
    <2>4. QED  BY <2>3 DEF Searches, B
  <1> HIDE DEF Step, T, n, start
  <1>3. step \in [1..n -> [T -> T]] /\ \A i \in 1..n, x \in T : step[i][x] = Step(i, x)  BY <1>2
  <1> HIDE DEF step
  <1>4. PICK f \in [0..n -> T] : Solves(f, n, start, step)  BY <1>1, <1>3, RecExists, Zenon
  <1>5. Is(f)
    <2>1. ASSUME NEW i \in 0..n
          PROVE  f[i] = IF i = 0 THEN start ELSE Step(i, f[i - 1])
      <3>1. CASE i = 0  BY <3>1, <1>4 DEF Solves
      <3>2. CASE i # 0
        <4>1. i \in 1..n /\ i - 1 \in 0..n  BY <3>2, <1>1
        <4>2. f[i - 1] \in T /\ f[i] = step[i][f[i - 1]]  BY <4>1, <1>4, Zenon DEF Solves
        <4>3. QED  BY <3>2, <4>1, <4>2, <1>3, Zenon
      <3>3. QED  BY <3>1, <3>2
    <2>2. QED  BY <2>1
  <1>6. Is(c)  BY <1>5, Zenon
  <1> HIDE DEF c
  <1>7. c = [i \in 0..n |-> c[i]] /\ \A i \in 0..n : c[i] = IF i = 0 THEN start ELSE Step(i, c[i - 1])  BY <1>6
  <1> HIDE DEF Is
  <1>8. c[0] = start /\ \A i \in 1..n : c[i] = Step(i, c[i - 1])
    <2>1. 0 \in 0..n /\ \A i \in 1..n : i \in 0..n /\ i # 0  BY <1>1
    <2>2. QED  BY <2>1, <1>7, Zenon
  <1>9. \A i \in 1..n : c[i - 1] \in T => c[i] \in T  BY <1>2, <1>8, Zenon
  <1>10. \A i \in 0..n : c[i] \in T  BY <1>1, <1>8, <1>9, RecTyped, Zenon
  <1>11. c \in [0..n -> T]  BY <1>7, <1>10
  <1>12. MatchNode(segs, m) = c[n]
    BY Zenon DEF MatchNode, c, Is, Step, n, start, Found, B
  <1>13. \A node \in Nodes, params \in B : c[0][node][params] = Found(m, node, params)
    <2> HIDE DEF B
    <2>1. QED  BY <1>8 DEF start
  <1>14. \A k \in 1..n, node \in Nodes, params \in B :
           c[k][node][params] = Loop(c[k - 1], node, segs[n - k + 1], params)
    <2> HIDE DEF B
    <2>1. SUFFICES ASSUME NEW k \in 1..n, NEW node \in Nodes, NEW params \in B
                   PROVE  c[k][node][params] = Loop(c[k - 1], node, segs[n - k + 1], params)
      OBVIOUS
    <2>2. c[k] = [node1 \in Nodes |-> [params1 \in B |-> Loop(c[k - 1], node1, segs[n - k + 1], params1)]]
      BY <1>8, Zenon DEF Step
    <2>3. QED  BY <2>2
  <1>15. QED  BY <1>11, <1>12, <1>13, <1>14, Zenon DEF MatchRuns, T, B, n

\* A key and how far down it is.
LEMMA KeyDown ==
  ASSUME NEW L, NEW s \in Seq(L), NEW d \in Nat, d < Len(s)
  PROVE  /\ SubSeq(s, 1, d + 1) \in Seq(L) /\ Len(SubSeq(s, 1, d + 1)) = d + 1
         /\ SubSeq(SubSeq(s, 1, d + 1), 1, d) = SubSeq(s, 1, d)
         /\ Last(SubSeq(s, 1, d + 1)) = s[d + 1] /\ s[d + 1] \in L
  <1> DEFINE t == SubSeq(s, 1, d + 1)
  <1>1. t \in Seq(L) /\ Len(t) = d + 1 /\ \A j \in 1..d + 1 : t[j] = s[j]  OBVIOUS
  <1>2. s[d + 1] \in L  OBVIOUS
  <1> HIDE DEF t
  <1>3. Last(t) = s[d + 1]
    <2>1. d + 1 \in 1..d + 1  OBVIOUS
    <2>2. QED  BY <2>1, <1>1 DEF Last
  <1>4. SubSeq(t, 1, d) = SubSeq(s, 1, d)
    <2>1. SubSeq(t, 1, d) \in Seq(L) /\ Len(SubSeq(t, 1, d)) = d /\ \A j \in 1..d : SubSeq(t, 1, d)[j] = t[j]  BY <1>1
    <2>2. SubSeq(s, 1, d) \in Seq(L) /\ Len(SubSeq(s, 1, d)) = d /\ \A j \in 1..d : SubSeq(s, 1, d)[j] = s[j]  OBVIOUS
    <2>3. \A j \in 1..d : t[j] = s[j]  BY <1>1
    <2> DEFINE u == SubSeq(t, 1, d)
               v == SubSeq(s, 1, d)
    <2> HIDE DEF u, v
    <2>4. u \in Seq(L) /\ v \in Seq(L) /\ Len(u) = Len(v) /\ \A j \in 1..Len(u) : u[j] = v[j]
      BY <2>1, <2>2, <2>3 DEF u, v
    <2>5. QED  BY <2>4, SeqEqual DEF u, v
  <1>5. QED  BY <1>1, <1>2, <1>3, <1>4 DEF t

\* The handler of an entry of the table, if there is one.
Handled(table, key, m, h) ==
  /\ h # 0 <=> \E e \in table : Same(e, key, m)
  /\ h # 0 => \E e \in table : Same(e, key, m) /\ e.h = h

LEMMA HandlerOf ==
  ASSUME NEW Keys, TableTypes, NEW table, table \subseteq Handlers(Keys), NEW key, NEW m
  PROVE  Handled(table, key, m, HandlerFor(table, key, m))
  <1> DEFINE hs == {e.h : e \in {e \in table : e.key = key /\ e.m = m}}
  <1>1. \A h \in hs : h # 0
    <2>1. \A e \in table : e.h \in DOMAIN routes  BY DEF Handlers
    <2>2. \A i \in DOMAIN routes : i # 0  BY DEF TableTypes
    <2>3. QED  BY <2>1, <2>2
  <1>2. \A h : h \in hs <=> \E e \in table : Same(e, key, m) /\ h = e.h  BY Zenon DEF Same
  <1>3. HandlerFor(table, key, m) = IF hs = {} THEN 0 ELSE CHOOSE h \in hs : TRUE  BY Zenon DEF HandlerFor
  <1> HIDE DEF hs
  <1>4. CASE hs = {}  BY <1>2, <1>3, <1>4 DEF Handled
  <1>5. CASE hs # {}
    <2>1. HandlerFor(table, key, m) \in hs  BY <1>3, <1>5
    <2>2. QED  BY <2>1, <1>1, <1>2 DEF Handled
  <1>6. QED  BY <1>4, <1>5

\* A key below a node fits the rest of the path.
FitsBelow(key, node, segs) ==
  /\ Len(key) = Len(segs) /\ SubSeq(key, 1, Len(node)) = node
  /\ \A j \in Len(node) + 1..Len(segs) : key[j].param \/ key[j].seg = segs[j]

LeafBelow(node, segs, m) == \E e \in leaves : e.m = m /\ FitsBelow(e.key, node, segs)

\* From a node the search goes down to a child below which there is a leaf,
\* if there is one.
LEMMA LeafDown ==
  ASSUME TableInv, NEW A, NEW segs \in Seq(A), NEW m, NEW node \in Nodes, Len(node) < Len(segs), LeafBelow(node, segs, m)
  PROVE  \E i \in Turns : Visits(node, segs[Len(node) + 1], i) /\ LeafBelow(Child(i), segs, m)
  <1> DEFINE d == Len(node)
             seg == segs[d + 1]
  <1>1. PICK e \in leaves : e.m = m /\ FitsBelow(e.key, node, segs)  BY DEF LeafBelow
  <1> DEFINE x == SubSeq(e.key, 1, d + 1)
  <1>2. d \in Nat /\ Len(segs) \in Nat
    <2>1. node \in Seq(TreeLabels)  BY NodesType DEF TableInv
    <2> HIDE DEF TreeLabels
    <2>2. QED  BY <2>1
  <1>3. e.key \in Seq(TreeLabels) /\ Len(e.key) = Len(segs) /\ SubSeq(e.key, 1, d) = node
        /\ \A j \in d + 1..Len(segs) : e.key[j].param \/ e.key[j].seg = segs[j]
    <2>1. e.key \in Seq(TreeLabels)  BY DEF TableInv, TableTypes, Handlers
    <2>2. QED  BY <2>1, <1>1 DEF FitsBelow
  <1>4. d + 1 \in 1..Len(e.key) /\ d < Len(e.key) /\ d + 1 \in d + 1..Len(segs)  BY <1>2, <1>3
  <1>5. /\ x \in Seq(TreeLabels) /\ Len(x) = d + 1 /\ SubSeq(x, 1, d) = node
        /\ Last(x) = e.key[d + 1] /\ e.key[d + 1] \in TreeLabels
    BY <1>2, <1>3, <1>4, KeyDown
  <1>6. x \in Range(nodes)  BY <1>4 DEF TableInv, NodesFit
  <1>7. PICK i \in 1..Len(nodes) :
          /\ i \in Turns /\ Child(i) = x
          /\ i + Len(nodes) \in Turns /\ ~(i + Len(nodes) <= Len(nodes)) /\ Child(i + Len(nodes)) = x
    BY <1>6, TurnsType DEF TableInv
  <1>8. IsBelow(node, x)  BY <1>5 DEF IsBelow
  <1>9. Last(x).param \/ Last(x).seg = seg  BY <1>3, <1>4, <1>5
  <1>10. LeafBelow(x, segs, m)
    <2>1. \A j \in d + 1 + 1..Len(segs) : j \in d + 1..Len(segs)  BY <1>2
    <2>2. FitsBelow(e.key, x, segs)  BY <1>3, <1>5, <2>1 DEF FitsBelow
    <2>3. QED  BY <2>2, <1>1 DEF LeafBelow
  <1> HIDE DEF x, d
  <1>11. CASE Last(x).param
    <2>1. Visits(node, seg, i + Len(nodes))  BY <1>7, <1>8, <1>11, Zenon DEF Visits
    <2>2. QED  BY <2>1, <1>7, <1>10, Zenon DEF d
  <1>12. CASE ~Last(x).param
    <2>1. i <= Len(nodes)  OBVIOUS
    <2>2. Visits(node, seg, i)  BY <2>1, <1>7, <1>8, <1>9, <1>12, Zenon DEF Visits
    <2>3. QED  BY <2>2, <1>7, <1>10, Zenon DEF d
  <1>13. QED  BY <1>11, <1>12

\* And what is below a child that it visits is below the node.
LEMMA LeafUp ==
  ASSUME TableInv, NEW A, NEW segs \in Seq(A), NEW m, NEW node \in Nodes, Len(node) < Len(segs),
         NEW i \in Turns, Visits(node, segs[Len(node) + 1], i), LeafBelow(Child(i), segs, m)
  PROVE  LeafBelow(node, segs, m)
  <1> DEFINE d == Len(node)
             x == Child(i)
  <1>1. PICK e \in leaves : e.m = m /\ FitsBelow(e.key, x, segs)  BY DEF LeafBelow
  <1>2. /\ d \in Nat /\ Len(x) = d + 1 /\ SubSeq(x, 1, d) = node
        /\ Last(x).param \/ Last(x).seg = segs[d + 1]
    BY VisitsChild DEF TableInv
  <1>3. e.key \in Seq(TreeLabels) /\ Len(e.key) = Len(segs) /\ SubSeq(e.key, 1, d + 1) = x
        /\ \A j \in d + 1 + 1..Len(segs) : e.key[j].param \/ e.key[j].seg = segs[j]
    <2>1. e.key \in Seq(TreeLabels)  BY DEF TableInv, TableTypes, Handlers
    <2>2. QED  BY <2>1, <1>1, <1>2 DEF FitsBelow
  <1> HIDE DEF x
  <1>4. SubSeq(e.key, 1, d) = node /\ Last(x) = e.key[d + 1]  BY <1>2, <1>3, KeyDown
  <1>5. \A j \in d + 1..Len(segs) : j = d + 1 \/ j \in d + 1 + 1..Len(segs)  BY <1>2
  <1>6. \A j \in d + 1..Len(segs) : e.key[j].param \/ e.key[j].seg = segs[j]  BY <1>2, <1>3, <1>4, <1>5
  <1>7. FitsBelow(e.key, node, segs)  BY <1>3, <1>4, <1>6 DEF FitsBelow
  <1>8. QED  BY <1>1, <1>7 DEF LeafBelow

\* The search finds a leaf for the method exactly if one fits the path.
LEMMA MatchFinds ==
  ASSUME TableInv, NEW A, NEW segs \in Seq(A), NEW m
  PROVE  MatchNode(segs, m)[<<>>][{}].ok <=> LeafBelow(<<>>, segs, m)
  <1> DEFINE n == Len(segs)
             B == Bindings(segs)
  <1>1. PICK c : MatchRuns(c, segs, m)  BY MatchSteps DEF TableInv
  <1>2. /\ c \in [0..n -> Searches(segs)]
        /\ \A node \in Nodes, ps \in B : c[0][node][ps] = Found(m, node, ps)
        /\ \A k \in 1..n, node \in Nodes, ps \in B : c[k][node][ps] = Loop(c[k - 1], node, segs[n - k + 1], ps)
        /\ MatchNode(segs, m) = c[n]
    BY <1>1, Zenon DEF MatchRuns
  <1>3. n \in Nat /\ {} \in B /\ <<>> \in Nodes /\ Len(<<>>) = 0  BY NodesType DEF Bindings, TableInv
  <1> HIDE DEF n, B
  <1> DEFINE S == {k \in 0..n : \A node \in Nodes, ps \in B :
                                  Len(node) = n - k => (c[k][node][ps].ok <=> LeafBelow(node, segs, m))}
  <1>4. 0 \in S
    <2>1. SUFFICES ASSUME NEW node \in Nodes, NEW ps \in B, Len(node) = n
                   PROVE  c[0][node][ps].ok <=> LeafBelow(node, segs, m)
      BY <1>3
    <2>2. c[0][node][ps].ok <=> HandlerFor(leaves, node, m) # 0
      <3>1. c[0][node][ps] = [ok |-> HandlerFor(leaves, node, m) # 0, params |-> ps]  BY <1>2 DEF Found
      <3> DEFINE b == HandlerFor(leaves, node, m) # 0
      <3>2. b \in BOOLEAN  OBVIOUS
      <3> HIDE DEF b
      <3>3. c[0][node][ps].ok = b  BY <3>1 DEF b
      <3>4. QED  BY <3>2, <3>3 DEF b
    <2>3. HandlerFor(leaves, node, m) # 0 <=> \E e \in leaves : e.key = node /\ e.m = m
      <3>1. leaves \subseteq Handlers(Seq(TreeLabels)) /\ TableTypes  BY DEF TableInv, TableTypes
      <3> HIDE DEF TreeLabels
      <3>2. Handled(leaves, node, m, HandlerFor(leaves, node, m))  BY <3>1, HandlerOf
      <3>3. QED  BY <3>2, Zenon DEF Handled, Same
    <2>4. \A e \in leaves : FitsBelow(e.key, node, segs) <=> e.key = node
      <3>1. SUFFICES ASSUME NEW e \in leaves PROVE FitsBelow(e.key, node, segs) <=> e.key = node  OBVIOUS
      <3>2. e.key \in Seq(TreeLabels) /\ node \in Seq(TreeLabels)
        BY NodesType DEF TableInv, TableTypes, Handlers
      <3> HIDE DEF TreeLabels
      <3>3. Len(e.key) = n => SubSeq(e.key, 1, n) = e.key  BY <3>2
      <3>4. n + 1..n = {}  BY <1>3
      <3>5. QED  BY <2>1, <3>2, <3>3, <3>4 DEF FitsBelow, n
    <2>5. QED  BY <2>2, <2>3, <2>4, Zenon DEF LeafBelow
  <1>5. ASSUME NEW k \in 1..n, k - 1 \in S PROVE k \in S
    <2>1. SUFFICES ASSUME NEW node \in Nodes, NEW ps \in B, Len(node) = n - k
                   PROVE  c[k][node][ps].ok <=> LeafBelow(node, segs, m)
      BY <1>3
    <2> DEFINE seg == segs[Len(node) + 1]
               below == c[k - 1]
    <2>2. /\ n - k + 1 = Len(node) + 1 /\ k - 1 \in 0..n /\ Len(node) < n /\ Len(node) + 1 \in DOMAIN segs
          /\ Len(node) + 1 = n - (k - 1)
      BY <2>1, <1>3 DEF n
    <2>3. seg \in Range(segs) /\ below \in Searches(segs)  BY <2>2, <1>2, Zenon DEF Range
    <2>4. c[k][node][ps] = Loop(below, node, seg, ps)  BY <2>2, <1>2
    <2>5. \A i \in Turns : Visits(node, seg, i) =>
            Child(i) \in Nodes /\ \A qs \in B : below[Child(i)][qs].ok <=> LeafBelow(Child(i), segs, m)
      <3>1. SUFFICES ASSUME NEW i \in Turns, Visits(node, seg, i)
                     PROVE  Child(i) \in Nodes /\ \A qs \in B : below[Child(i)][qs].ok <=> LeafBelow(Child(i), segs, m)
        OBVIOUS
      <3>2. Child(i) \in Nodes /\ Len(Child(i)) = Len(node) + 1  BY <3>1, VisitsChild DEF TableInv
      <3>3. QED  BY <3>2, <2>2, <1>5
    <2> HIDE DEF seg, below
    <2>6. /\ Loop(below, node, seg, ps).ok =>
               \E i \in Turns : Visits(node, seg, i) /\ \E qs \in B : below[Child(i)][qs].ok
          /\ \A i \in Turns : Visits(node, seg, i) /\ (\A qs \in B : below[Child(i)][qs].ok)
               => Loop(below, node, seg, ps).ok
      BY <2>3, LoopFinds, Zenon DEF TableInv, B
    <2>7. ASSUME LeafBelow(node, segs, m) PROVE c[k][node][ps].ok
      <3>1. PICK i \in Turns : Visits(node, seg, i) /\ LeafBelow(Child(i), segs, m)
        BY <2>2, <2>7, LeafDown, Zenon DEF seg, n
      <3>2. QED  BY <3>1, <2>4, <2>5, <2>6, Zenon
    <2>8. ASSUME c[k][node][ps].ok PROVE LeafBelow(node, segs, m)
      <3>1. PICK i \in Turns : Visits(node, seg, i) /\ \E qs \in B : below[Child(i)][qs].ok
        BY <2>4, <2>6, <2>8, Zenon
      <3>2. LeafBelow(Child(i), segs, m)  BY <3>1, <2>5, Zenon
      <3>3. QED  BY <3>1, <3>2, <2>2, LeafUp, Zenon DEF seg, n
    <2>9. QED  BY <2>7, <2>8
  <1> HIDE DEF S
  <1>6. n \in S
    <2>1. \A k \in 0..n : k \in S  BY <1>3, <1>4, <1>5, UpTo
    <2>2. QED  BY <2>1, <1>3
  <1>7. c[n][<<>>][{}].ok <=> LeafBelow(<<>>, segs, m)
    <2>1. Len(<<>>) = n - n  BY <1>3
    <2>2. QED  BY <2>1, <1>3, <1>6 DEF S
  <1>8. QED  BY <1>2, <1>7

\* The walk, segment by segment.
WalksDown(before, seg) ==
  LET fits == {j \in Turns : Visits(before.node, seg, j)}
  IN IF before.found /\ fits # {} THEN [node |-> Child(Min(fits)), found |-> TRUE]
     ELSE [node |-> before.node, found |-> FALSE]

WalkRuns(c, segs) ==
  /\ c \in [0..Len(segs) -> [node : Nodes, found : BOOLEAN]]
  /\ c[0] = [node |-> <<>>, found |-> TRUE]
  /\ \A i \in 1..Len(segs) : c[i] = WalksDown(c[i - 1], segs[i])
  /\ Walk(segs) = c[Len(segs)]

\* The first of the turns that fit is one of them.
LEMMA FirstTurn ==
  ASSUME TableTypes, NEW node \in Nodes, NEW seg, {j \in Turns : Visits(node, seg, j)} # {}
  PROVE  /\ Min({j \in Turns : Visits(node, seg, j)}) \in Turns
         /\ Visits(node, seg, Min({j \in Turns : Visits(node, seg, j)}))
  <1> DEFINE fits == {j \in Turns : Visits(node, seg, j)}
  <1>1. fits \in SUBSET Nat  BY TurnsType DEF Turns
  <1> HIDE DEF fits
  <1>2. Min(fits) \in fits  BY <1>1, MinOf DEF fits
  <1>3. QED  BY <1>2 DEF fits

LEMMA WalkSteps ==
  ASSUME TableTypes, NEW A, NEW segs \in Seq(A)
  PROVE  \E c : WalkRuns(c, segs)
  <1> DEFINE n == Len(segs)
             T == [node : Nodes, found : BOOLEAN]
             start == [node |-> <<>>, found |-> TRUE]
             Step(i, x) == WalksDown(x, segs[i])
  <1> DEFINE Is(f) == f = [i \in 0..n |-> IF i = 0 THEN start ELSE Step(i, f[i - 1])]
             step == [i \in 1..n |-> [x \in T |-> Step(i, x)]]
             c == CHOOSE f : Is(f)
  <1>1. n \in Nat /\ start \in T
    BY NodesType
  <1>2. ASSUME NEW i \in 1..n, NEW x \in T PROVE Step(i, x) \in T
    <2>1. x.node \in Nodes  OBVIOUS
    <2> DEFINE fits == {j \in Turns : Visits(x.node, segs[i], j)}
    <2>2. fits # {} => Child(Min(fits)) \in Nodes
      <3>1. fits # {} => Min(fits) \in Turns /\ Visits(x.node, segs[i], Min(fits))  BY <2>1, FirstTurn
      <3>2. QED  BY <3>1, <2>1, VisitsChild, Zenon
    <2>3. Step(i, x) = IF x.found /\ fits # {} THEN [node |-> Child(Min(fits)), found |-> TRUE]
                       ELSE [node |-> x.node, found |-> FALSE]
      BY DEF WalksDown
    <2> HIDE DEF fits
    <2>4. QED  BY <2>1, <2>2, <2>3
  <1> HIDE DEF Step, T, n, start
  <1>3. step \in [1..n -> [T -> T]] /\ \A i \in 1..n, x \in T : step[i][x] = Step(i, x)  BY <1>2
  <1> HIDE DEF step
  <1>4. PICK f \in [0..n -> T] : Solves(f, n, start, step)  BY <1>1, <1>3, RecExists, Zenon
  <1>5. Is(f)
    <2>1. ASSUME NEW i \in 0..n
          PROVE  f[i] = IF i = 0 THEN start ELSE Step(i, f[i - 1])
      <3>1. CASE i = 0  BY <3>1, <1>4 DEF Solves
      <3>2. CASE i # 0
        <4>1. i \in 1..n /\ i - 1 \in 0..n  BY <3>2, <1>1
        <4>2. f[i - 1] \in T /\ f[i] = step[i][f[i - 1]]  BY <4>1, <1>4, Zenon DEF Solves
        <4>3. QED  BY <3>2, <4>1, <4>2, <1>3, Zenon
      <3>3. QED  BY <3>1, <3>2
    <2>2. QED  BY <2>1
  <1>6. Is(c)  BY <1>5, Zenon
  <1> HIDE DEF c
  <1>7. c = [i \in 0..n |-> c[i]] /\ \A i \in 0..n : c[i] = IF i = 0 THEN start ELSE Step(i, c[i - 1])  BY <1>6
  <1> HIDE DEF Is
  <1>8. c[0] = start /\ \A i \in 1..n : c[i] = Step(i, c[i - 1])
    <2>1. 0 \in 0..n /\ \A i \in 1..n : i \in 0..n /\ i # 0  BY <1>1
    <2>2. QED  BY <2>1, <1>7, Zenon
  <1>9. \A i \in 1..n : c[i - 1] \in T => c[i] \in T  BY <1>2, <1>8, Zenon
  <1>10. \A i \in 0..n : c[i] \in T  BY <1>1, <1>8, <1>9, RecTyped, Zenon
  <1>11. c \in [0..n -> T]  BY <1>7, <1>10
  <1>12. Walk(segs) = c[n]
    BY Zenon DEF Walk, c, Is, Step, WalksDown, n, start
  <1>13. QED  BY <1>8, <1>11, <1>12, Zenon DEF WalkRuns, Step, T, n, start

\* The node that a successful walk ends at fits the path.
LEMMA WalkFits ==
  ASSUME TableTypes, NEW A, NEW segs \in Seq(A), Walk(segs).found
  PROVE  /\ Walk(segs).node \in Nodes /\ Len(Walk(segs).node) = Len(segs)
         /\ \A j \in 1..Len(segs) : Walk(segs).node[j].param \/ Walk(segs).node[j].seg = segs[j]
  <1> DEFINE n == Len(segs)
  <1>1. PICK c : WalkRuns(c, segs)  BY WalkSteps
  <1>2. /\ c \in [0..n -> [node : Nodes, found : BOOLEAN]] /\ c[0] = [node |-> <<>>, found |-> TRUE]
        /\ \A i \in 1..n : c[i] = WalksDown(c[i - 1], segs[i])
        /\ Walk(segs) = c[n]
    BY <1>1, Zenon DEF WalkRuns
  <1>3. n \in Nat /\ Nodes \subseteq Seq(TreeLabels)  BY NodesType
  <1> HIDE DEF n, TreeLabels
  <1> DEFINE FitsSegs(node, i) == Len(node) = i /\ \A j \in 1..i : node[j].param \/ node[j].seg = segs[j]
             S == {i \in 0..n : c[i].found => FitsSegs(c[i].node, i)}
  <1>4. 0 \in S  BY <1>2, <1>3
  <1>5. ASSUME NEW i \in 1..n, i - 1 \in S PROVE i \in S
    <2> DEFINE x == c[i - 1]
               fits == {j \in Turns : Visits(x.node, segs[i], j)}
               t == Min(fits)
    <2>1. i \in 0..n /\ i - 1 \in 0..n /\ x.node \in Nodes  BY <1>2, <1>3
    <2>2. c[i] = IF x.found /\ fits # {} THEN [node |-> Child(t), found |-> TRUE] ELSE [node |-> x.node, found |-> FALSE]
      BY <1>2 DEF WalksDown
    <2>3. CASE ~(x.found /\ fits # {})
      <3> HIDE DEF x, fits
      <3>1. ~c[i].found  BY <2>2, <2>3
      <3>2. QED  BY <3>1, <2>1
    <2>4. CASE x.found /\ fits # {}
      <3>1. t \in Turns /\ Visits(x.node, segs[i], t)  BY <2>1, <2>4, FirstTurn
      <3>2. FitsSegs(x.node, i - 1)  BY <2>4, <1>5
      <3> DEFINE child == Child(t)
      <3>3. /\ child \in Seq(TreeLabels) /\ Len(child) = i /\ SubSeq(child, 1, i - 1) = x.node
            /\ child[i].param \/ child[i].seg = segs[i]
        <4>1. Len(x.node) = i - 1 /\ (i - 1) + 1 = i  BY <3>2
        <4> HIDE DEF x, t, fits, FitsSegs, S
        <4>2. /\ child \in Seq(TreeLabels) /\ Len(child) = Len(x.node) + 1 /\ SubSeq(child, 1, Len(x.node)) = x.node
              /\ Last(child).param \/ Last(child).seg = segs[i]
              /\ Last(child) = child[Len(x.node) + 1]
          BY <2>1, <3>1, VisitsChild, SMTT(60)
        <4>3. QED  BY <4>1, <4>2
      <3>4. c[i].node = child  BY <2>2, <2>4
      <3> HIDE DEF x, child
      <3>5. \A j \in 1..i - 1 : child[j] = x.node[j]
        <4>1. \A j \in 1..i - 1 : SubSeq(child, 1, i - 1)[j] = child[j]  BY <3>3
        <4>2. QED  BY <4>1, <3>3
      <3>6. \A j \in 1..i : child[j].param \/ child[j].seg = segs[j]
        <4>1. \A j \in 1..i : j = i \/ j \in 1..i - 1  OBVIOUS
        <4>2. QED  BY <4>1, <3>2, <3>3, <3>5
      <3>7. FitsSegs(c[i].node, i)  BY <3>3, <3>4, <3>6
      <3>8. QED  BY <3>7, <2>1
    <2>5. QED  BY <2>3, <2>4
  <1> HIDE DEF S
  <1>6. n \in S
    <2>1. \A k \in 0..n : k \in S  BY <1>3, <1>4, <1>5, UpTo
    <2>2. QED  BY <2>1, <1>3
  <1>7. FitsSegs(c[n].node, n) /\ c[n].node \in Nodes
    <2>1. n \in 0..n  BY <1>3
    <2>2. QED  BY <2>1, <1>2, <1>6 DEF S
  <1>8. QED  BY <1>2, <1>7 DEF n

LEMMA RouteOf ==
  ASSUME TableTypes, NEW i \in DOMAIN routes
  PROVE  routes[i].segs \in Seq(Tokens) /\ routes[i].m \in Methods
  <1> DEFINE T == Seq(Tokens)
             R == [m : Methods, segs : T]
  <1> HIDE DEF T
  <1>1. \A x \in R : x.segs \in T /\ x.m \in Methods  OBVIOUS
  <1>2. routes \in Seq(R)  BY DEF TableTypes, T
  <1> HIDE DEF R
  <1>3. routes[i] \in R  BY <1>2
  <1>4. QED  BY <1>1, <1>3 DEF T

\* A leaf fits a path when its route does.
LEMMA LeafMatches ==
  ASSUME TableInv, NEW A, NEW segs \in Seq(A), NEW e \in leaves
  PROVE  /\ FitsBelow(e.key, <<>>, segs) <=> Matches(routes[e.h], segs)
         /\ Matches(routes[e.h], segs) <=>
              Len(e.key) = Len(segs) /\ \A j \in 1..Len(segs) : e.key[j].param \/ e.key[j].seg = segs[j]
  <1> DEFINE r == routes[e.h].segs
  <1>1. e.h \in DOMAIN routes /\ e.key = Labels(r) /\ e.key \in Seq(TreeLabels)
    BY DEF TableInv, LeavesFit, TableTypes, Handlers
  <1>2. r \in Seq(Tokens)  BY <1>1, RouteOf DEF TableInv
  <1> HIDE DEF r
  <1>3. Len(e.key) = Len(r) /\ \A j \in 1..Len(r) : e.key[j] = Label(r[j])  BY <1>1, <1>2, LabelsType
  <1>4. \A j \in 1..Len(r) : (e.key[j].param <=> r[j] \in Params) /\ e.key[j].seg = r[j]
    <2>1. SUFFICES ASSUME NEW j \in 1..Len(r) PROVE (e.key[j].param <=> r[j] \in Params) /\ e.key[j].seg = r[j]
      OBVIOUS
    <2>2. e.key[j] \in TreeLabels  BY <1>1, <1>3
    <2>3. e.key[j].seg = r[j]
      <3>1. \A t : Label(t).seg = t  BY DEF Label
      <3>2. QED  BY <3>1, <1>3
    <2>4. QED  BY <2>2, <2>3, LabelFits
  <1>5. DOMAIN segs = 1..Len(segs) /\ Len(segs) \in Nat  OBVIOUS
  <1>6. Matches(routes[e.h], segs) <=>
          Len(e.key) = Len(segs) /\ \A j \in 1..Len(segs) : e.key[j].param \/ e.key[j].seg = segs[j]
    BY <1>3, <1>4, <1>5 DEF Matches, r
  <1>7. SubSeq(e.key, 1, 0) = <<>> /\ Len(<<>>) = 0
    <2> HIDE DEF TreeLabels
    <2>1. QED  BY <1>1
  <1>8. FitsBelow(e.key, <<>>, segs) <=>
          Len(e.key) = Len(segs) /\ \A j \in 1..Len(segs) : e.key[j].param \/ e.key[j].seg = segs[j]
    <2>1. Len(<<>>) + 1 = 1  OBVIOUS
    <2>2. QED  BY <1>7, <2>1 DEF FitsBelow
  <1>9. QED  BY <1>6, <1>8

\* What a request's path becomes.
LEMMA RequestSegs ==
  ASSUME NEW p \in RequestPaths
  PROVE  /\ NormalizePath(p) \in Seq(Range(p)) /\ IsNormal(NormalizePath(p))
         /\ SplitPath(NormalizePath(p)) \in Seq(Range(p))
  BY RouteSegs, RequestPathsAssumption, Zenon

\* A route without parameters is in the map, under the path that it fits.
LEMMA StaticMatches ==
  ASSUME TableInv, NEW A, NEW norm \in Seq(A), IsNormal(norm), NEW segs, segs = SplitPath(norm),
         NEW i \in DOMAIN routes, Matches(routes[i], segs), ~InTree(routes[i].segs)
  PROVE  routes[i].segs = segs /\ \E e \in statics : e.key = norm /\ e.m = routes[i].m /\ e.h >= i
  <1>1. routes[i].segs \in Seq(Tokens)  BY RouteOf DEF TableInv
  <1>2. segs \in Seq(A)  BY SplitForm
  <1>3. routes[i].segs = segs
    <2>1. \A j \in 1..Len(segs) : routes[i].segs[j] = segs[j] /\ Len(routes[i].segs) = Len(segs)
      BY <1>1, <1>2 DEF Matches, InTree, HasParam
    <2>2. Len(routes[i].segs) = Len(segs)  BY DEF Matches
    <2>3. routes[i].segs \in Seq(A \cup Tokens) /\ segs \in Seq(A \cup Tokens)  BY <1>1, <1>2, SeqWider
    <2>4. QED  BY <2>1, <2>2, <2>3, SeqEqual
  <1>4. PICK e \in statics : SplitPath(e.key) = routes[i].segs /\ e.m = routes[i].m /\ e.h >= i
    BY DEF TableInv, RoutesKept
  <1>5. e.key \in Seq(Tokens) /\ IsNormal(e.key)  BY DEF TableInv, StaticsFit
  <1>6. e.key = norm  BY <1>3, <1>4, <1>5, NormalUnique
  <1>7. QED  BY <1>3, <1>4, <1>6

\* A route with parameters, or of the root, is in the tree.
LEMMA TreeMatches ==
  ASSUME TableInv, NEW A, NEW segs \in Seq(A), NEW i \in DOMAIN routes, Matches(routes[i], segs), InTree(routes[i].segs)
  PROVE  \E e \in leaves : /\ e.key = Labels(routes[i].segs) /\ e.m = routes[i].m /\ e.h >= i
                           /\ FitsBelow(e.key, <<>>, segs)
  <1>1. PICK e \in leaves : Same(e, Labels(routes[i].segs), routes[i].m) /\ e.h >= i
    BY DEF TableInv, RoutesKept
  <1>2. e.key = Labels(routes[i].segs) /\ e.m = routes[i].m /\ e.h >= i  BY <1>1 DEF Same
  <1>3. FitsBelow(e.key, <<>>, segs)
    <2>1. routes[i].segs \in Seq(Tokens) /\ routes[e.h].segs \in Seq(Tokens) /\ Labels(routes[e.h].segs) = e.key
      <3>1. e.h \in DOMAIN routes /\ Labels(routes[e.h].segs) = e.key  BY Zenon DEF TableInv, LeavesFit
      <3>2. QED  BY <3>1, RouteOf DEF TableInv
    <2> DEFINE r == routes[i].segs
               s == routes[e.h].segs
    <2> HIDE DEF r, s
    <2>2. r \in Seq(Tokens) /\ s \in Seq(Tokens) /\ Labels(r) = Labels(s)  BY <1>2, <2>1 DEF r, s
    <2>3. Len(r) = Len(s) /\ \A j \in 1..Len(r) : Label(r[j]) = Label(s[j])
      <3>1. /\ Len(Labels(r)) = Len(r) /\ \A j \in 1..Len(r) : Labels(r)[j] = Label(r[j])
            /\ Len(Labels(s)) = Len(s) /\ \A j \in 1..Len(s) : Labels(s)[j] = Label(s[j])
        BY <2>2, LabelsType, Zenon
      <3>2. QED  BY <3>1, <2>2
    <2>4. \A j \in 1..Len(r) : r[j] = s[j]
      <3>1. \A t : Label(t).seg = t  BY DEF Label
      <3>2. QED  BY <3>1, <2>3
    <2>5. r = s  BY <2>2, <2>3, <2>4, SeqEqual
    <2>6. Matches(routes[e.h], segs)  BY <2>5 DEF Matches, r, s
    <2>7. QED  BY <2>6, LeafMatches
  <1>4. QED  BY <1>2, <1>3

\* onRequest() for a method that it knows, case by case.
Statics(norm) == {e \in statics : e.key = norm}
LeafAt(node) == \E e \in leaves : e.key = node

Decided(answer, static, match, walk, hs, hl) ==
  /\ static # {} /\ hs # 0 => answer = [kind |-> "call", h |-> hs, params |-> {}]
  /\ static # {} /\ hs = 0 => answer.kind = "405"
  /\ static = {} /\ match.ok /\ hl # 0 => answer = [kind |-> "call", h |-> hl, params |-> match.params]
  /\ static = {} /\ match.ok /\ hl = 0 => answer.kind = "silent"
  /\ static = {} /\ ~match.ok /\ walk.found /\ LeafAt(walk.node) => answer.kind = "405"
  /\ static = {} /\ ~match.ok /\ ~(walk.found /\ LeafAt(walk.node)) => answer.kind = "404"

LEMMA OnRequestCases ==
  ASSUME NEW m \in Methods, NEW p, NEW norm, norm = NormalizePath(p), NEW segs, segs = SplitPath(norm),
         NEW static, static = Statics(norm), NEW match, match = MatchNode(segs, m)[<<>>][{}],
         NEW walk, walk = Walk(segs), NEW hs, hs = HandlerFor(static, norm, m), NEW hl, hl = HandlerFor(leaves, walk.node, m)
  PROVE  Decided(OnRequest(m, p), static, match, walk, hs, hl)
  <1> DEFINE answer(kind, h, params) == [kind |-> kind, h |-> h, params |-> params]
  <1>1. OnRequest(m, p) =
          CASE ~HasMask(m) -> answer("405", 0, {})
            [] HasMask(m) /\ static # {} -> IF hs # 0 THEN answer("call", hs, {}) ELSE answer("405", 0, {})
            [] HasMask(m) /\ static = {} /\ match.ok ->
                 IF hl # 0 THEN answer("call", hl, match.params) ELSE answer("silent", 0, {})
            [] OTHER -> IF walk.found /\ LeafAt(walk.node) THEN answer("405", 0, {}) ELSE answer("404", 0, {})
    BY Zenon DEF OnRequest, Statics, LeafAt
  <1>2. HasMask(m)  BY DEF HasMask
  <1>3. CASE static # {}  BY <1>1, <1>2, <1>3 DEF Decided
  <1>4. CASE static = {} /\ match.ok  BY <1>1, <1>2, <1>4 DEF Decided
  <1>5. CASE static = {} /\ ~match.ok
    <2>1. OnRequest(m, p) = IF walk.found /\ LeafAt(walk.node) THEN answer("405", 0, {}) ELSE answer("404", 0, {})
      BY <1>1, <1>2, <1>5
    <2>2. QED  BY <2>1, <1>5 DEF Decided
  <1>6. QED  BY <1>3, <1>4, <1>5

\* A refusal of a table that fits its routes.
Refused405(p, m) ==
  /\ \E i \in Fitting(p) : routes[i].m # m
  /\ (\E i \in Fitting(p) : routes[i].m = m) => \E i \in Fitting(p) : routes[i].m # m /\ Literal(routes[i])
  /\ \A i \in Fitting(p) : routes[i].m = m => ~Literal(routes[i])

LEMMA RefusalOf ==
  ASSUME TableInv, NEW m \in Methods, NEW p \in RequestPaths
  PROVE  /\ OnRequest(m, p).kind = "404" => \A i \in Fitting(p) : routes[i].m # m
         /\ OnRequest(m, p).kind = "405" => Refused405(p, m)
  <1> DEFINE norm == NormalizePath(p)
             segs == SplitPath(norm)
             A == Range(p)
             static == Statics(norm)
             match == MatchNode(segs, m)[<<>>][{}]
             walk == Walk(segs)
             hs == HandlerFor(static, norm, m)
             hl == HandlerFor(leaves, walk.node, m)
             kind == OnRequest(m, p).kind
  <1>1. norm \in Seq(A) /\ IsNormal(norm) /\ segs \in Seq(A)  BY RequestSegs
  <1>2. /\ static # {} /\ hs # 0 => kind = "call"
        /\ static = {} /\ match.ok /\ hl # 0 => kind = "call"
        /\ static = {} /\ match.ok /\ hl = 0 => kind = "silent"
        /\ static = {} /\ ~match.ok /\ walk.found /\ LeafAt(walk.node) => kind = "405"
        /\ static = {} /\ ~match.ok /\ ~(walk.found /\ LeafAt(walk.node)) => kind = "404"
        /\ static # {} /\ hs = 0 => kind = "405"
    <2> HIDE DEF norm, segs, static, match, walk, hs, hl
    <2>1. Decided(OnRequest(m, p), static, match, walk, hs, hl)
      BY OnRequestCases, Zenon DEF norm, segs, static, match, walk, hs, hl
    <2>2. QED  BY <2>1 DEF Decided
  <1>3. match.ok <=> LeafBelow(<<>>, segs, m)  BY <1>1, MatchFinds
  <1>4. \A i : i \in Fitting(p) <=> i \in DOMAIN routes /\ Matches(routes[i], segs)  BY Zenon DEF Fitting
  <1> HIDE DEF norm, segs, A, static, match, walk, hs, hl, kind
  <1>8. ASSUME static = {}, ~match.ok, NEW i \in Fitting(p), routes[i].m = m PROVE FALSE
    <2>2. i \in DOMAIN routes /\ Matches(routes[i], segs)  BY <1>4
    <2>3. CASE InTree(routes[i].segs)
      <3>1. PICK e \in leaves : e.m = m /\ FitsBelow(e.key, <<>>, segs)
        BY <1>1, <1>8, <2>2, <2>3, TreeMatches
      <3>2. QED  BY <3>1, <1>8, <1>3 DEF LeafBelow
    <2>4. CASE ~InTree(routes[i].segs)
      <3>1. \E e \in statics : e.key = norm  BY <1>1, <2>2, <2>4, StaticMatches DEF segs
      <3>2. QED  BY <3>1, <1>8 DEF static, Statics
    <2>5. QED  BY <2>3, <2>4
  <1>5. ASSUME kind = "404", NEW i \in Fitting(p), routes[i].m = m PROVE FALSE
    <2>1. static = {} /\ ~match.ok  BY <1>2, <1>5
    <2>2. QED  BY <2>1, <1>5, <1>8
  <1>6. ASSUME kind = "405" PROVE Refused405(p, m)
    <2>1. (static # {} /\ hs = 0) \/ (static = {} /\ ~match.ok /\ walk.found /\ LeafAt(walk.node))
      BY <1>2, <1>6
    <2>2. CASE static # {} /\ hs = 0
      <3>1. PICK e \in statics : e.key = norm  BY <2>2 DEF static, Statics
      <3>2. e \in static /\ Handled(static, norm, m, hs)
        <4>1. static \subseteq Handlers(Seq(Tokens)) /\ TableTypes  BY DEF TableInv, TableTypes, static, Statics
        <4>2. QED  BY <4>1, <3>1, HandlerOf DEF static, Statics, hs
      <3>3. e.m # m  BY <3>1, <3>2, <2>2 DEF Handled, Same
      <3>4. e.h \in DOMAIN routes /\ routes[e.h].m = e.m /\ routes[e.h].segs = segs
        BY <3>1, Zenon DEF TableInv, StaticsFit, segs
      <3>5. Matches(routes[e.h], segs)  BY <3>4 DEF Matches
      <3>6. Literal(routes[e.h])
        <4>1. ~InTree(SplitPath(e.key))  BY <3>1 DEF TableInv, StaticsFit
        <4>2. QED  BY <4>1, <3>1, <3>4 DEF InTree, Literal, segs
      <3>7. e.h \in Fitting(p) /\ routes[e.h].m # m  BY <3>3, <3>4, <3>5, <1>4
      <3>8. ASSUME NEW i \in Fitting(p), routes[i].m = m, Literal(routes[i]) PROVE FALSE
        <4>1. i \in DOMAIN routes /\ Matches(routes[i], segs) /\ ~InTree(routes[i].segs)
          BY <3>8, <1>4 DEF Literal, InTree
        <4>2. PICK f \in statics : f.key = norm /\ f.m = m
          BY <4>1, <3>8, <1>1, StaticMatches DEF segs
        <4>3. f \in static  BY <4>2 DEF static, Statics
        <4>4. static \subseteq Handlers(Seq(Tokens)) /\ TableTypes  BY DEF TableInv, TableTypes, static, Statics
        <4>5. Handled(static, norm, m, hs)  BY <4>4, HandlerOf DEF hs
        <4>6. QED  BY <4>2, <4>3, <4>5, <2>2 DEF Handled, Same
      <3>9. QED  BY <3>6, <3>7, <3>8, Zenon DEF Refused405
    <2>3. CASE static = {} /\ ~match.ok /\ walk.found /\ LeafAt(walk.node)
      <3>1. PICK e \in leaves : e.key = walk.node  BY <2>3 DEF LeafAt
      <3>2. /\ Len(walk.node) = Len(segs)
            /\ \A j \in 1..Len(segs) : walk.node[j].param \/ walk.node[j].seg = segs[j]
        BY <2>3, <1>1, WalkFits DEF walk, TableInv
      <3>3. FitsBelow(e.key, <<>>, segs) /\ Matches(routes[e.h], segs)  BY <3>1, <3>2, <1>1, LeafMatches
      <3>4. e.m # m  BY <3>3, <2>3, <1>3 DEF LeafBelow
      <3>5. e.h \in DOMAIN routes /\ routes[e.h].m = e.m  BY Zenon DEF TableInv, LeavesFit
      <3>6. e.h \in Fitting(p) /\ routes[e.h].m # m  BY <3>3, <3>4, <3>5, <1>4
      <3>7. \A i \in Fitting(p) : routes[i].m # m  BY <2>3, <1>8
      <3>8. QED  BY <3>6, <3>7, Zenon DEF Refused405
    <2>4. QED  BY <2>1, <2>2, <2>3
  <1>7. QED  BY <1>5, <1>6 DEF kind

\* A 404 means that no route of the method fits, a 405 that one of another
\* method does; a 405 overlooks only routes with parameters, and only behind
\* a literal route: for any table of routes with and without parameters and
\* any request.
THEOREM RefusalsHonest == HttpSpec => []HonestRefusal
  <1> DEFINE own(m, p) == {i \in Fitting(p) : routes[i].m = m}
             others(m, p) == Fitting(p) \ own(m, p)
             kind(m, p) == OnRequest(m, p).kind
             Rightly(m, p) ==
               /\ kind(m, p) = "404" => own(m, p) = {}
               /\ kind(m, p) = "405" =>
                    /\ others(m, p) # {}
                    /\ own(m, p) # {} => \E i \in others(m, p) : Literal(routes[i])
                    /\ \A i \in own(m, p) : ~Literal(routes[i])
  <1>1. ASSUME TableInv, NEW m \in Methods, NEW p \in RequestPaths PROVE Rightly(m, p)
    <2>1. kind(m, p) = "404" => \A i \in Fitting(p) : routes[i].m # m  BY <1>1, RefusalOf
    <2>2. kind(m, p) = "405" => Refused405(p, m)  BY <1>1, RefusalOf
    <2> HIDE DEF kind
    <2>3. QED  BY <2>1, <2>2 DEF Refused405
  <1>2. (~serving => \A m \in Methods, p \in RequestPaths : Rightly(m, p)) => HonestRefusal
    BY DEF HonestRefusal
  <1> HIDE DEF Rightly
  <1>3. TableInv => HonestRefusal  BY <1>1, <1>2, Zenon
  <1>4. QED  BY <1>3, TableInvariant, PTL

---------------------------------------------------------------------------
(* Tables in which no parameter has a rival *)

\* Max() of a set of numbers, when it is known.
LEMMA MaxOf ==
  ASSUME NEW T \in SUBSET Nat, NEW x \in T, \A y \in T : y <= x
  PROVE  Max(T) = x
  <1>1. \E z \in T : \A y \in T : z >= y  BY SMT
  <1>2. Max(T) \in T /\ \A y \in T : Max(T) >= y  BY <1>1 DEF Max
  <1>3. x \in Nat /\ Max(T) \in Nat /\ Max(T) >= x /\ Max(T) <= x  BY <1>2
  <1>4. QED  BY <1>3

\* Two sequences that begin alike.
LEMMA SameBegin ==
  ASSUME NEW L, NEW s \in Seq(L), NEW t \in Seq(L), NEW d \in Nat, d <= Len(s), d <= Len(t)
  PROVE  SubSeq(s, 1, d) = SubSeq(t, 1, d) <=> \A j \in 1..d : s[j] = t[j]
  <1> DEFINE u == SubSeq(s, 1, d)
             v == SubSeq(t, 1, d)
  <1>1. u \in Seq(L) /\ Len(u) = d /\ \A j \in 1..d : u[j] = s[j]  OBVIOUS
  <1>2. v \in Seq(L) /\ Len(v) = d /\ \A j \in 1..d : v[j] = t[j]  OBVIOUS
  <1> HIDE DEF u, v
  <1>3. u = v => \A j \in 1..d : s[j] = t[j]  BY <1>1, <1>2
  <1>4. ASSUME \A j \in 1..d : s[j] = t[j] PROVE u = v
    <2>1. \A j \in 1..Len(u) : u[j] = v[j]  BY <1>1, <1>2, <1>4
    <2>2. QED  BY <2>1, <1>1, <1>2, SeqEqual
  <1>5. QED  BY <1>3, <1>4 DEF u, v

\* Where two routes agree up to a place, and one has a parameter there, the
\* other has the same.
LEMMA NoRival ==
  ASSUME TableTypes, Unambiguous, NEW a \in DOMAIN routes, NEW b \in DOMAIN routes, NEW d \in Nat,
         d < Len(routes[a].segs), d < Len(routes[b].segs),
         \A j \in 1..d : routes[a].segs[j] = routes[b].segs[j],
         routes[a].segs[d + 1] \in Params \/ routes[b].segs[d + 1] \in Params
  PROVE  routes[a].segs[d + 1] = routes[b].segs[d + 1]
  <1> DEFINE r == routes[a].segs
             s == routes[b].segs
  <1>1. r \in Seq(Tokens) /\ s \in Seq(Tokens)  BY RouteOf
  <1>2. \A i \in DOMAIN r \cap DOMAIN s :
          SubSeq(r, 1, i - 1) = SubSeq(s, 1, i - 1) => ({r[i], s[i]} \cap Params # {} => r[i] = s[i])
    BY Zenon DEF Unambiguous
  <1>3. d < Len(r) /\ d < Len(s) /\ (\A j \in 1..d : r[j] = s[j]) /\ (r[d + 1] \in Params \/ s[d + 1] \in Params)
    OBVIOUS
  <1> HIDE DEF r, s
  <1>4. d + 1 \in DOMAIN r \cap DOMAIN s /\ (d + 1) - 1 = d  BY <1>1, <1>3
  <1>5. SubSeq(r, 1, d) = SubSeq(s, 1, d)  BY <1>1, <1>3, SameBegin
  <1>6. {r[d + 1], s[d + 1]} \cap Params # {}  BY <1>3
  <1>7. r[d + 1] = s[d + 1]  BY <1>2, <1>4, <1>5, <1>6
  <1>8. QED  BY <1>7 DEF r, s

\* Then the routes that fit a path are all the same.
LEMMA FittingSame ==
  ASSUME TableTypes, Unambiguous, NEW A, NEW segs \in Seq(A), NEW a \in DOMAIN routes, NEW b \in DOMAIN routes,
         Matches(routes[a], segs), Matches(routes[b], segs)
  PROVE  routes[a].segs = routes[b].segs
  <1> DEFINE r == routes[a].segs
             s == routes[b].segs
             n == Len(segs)
  <1>1. r \in Seq(Tokens) /\ s \in Seq(Tokens) /\ n \in Nat  BY RouteOf
  <1>2. /\ Len(r) = n /\ Len(s) = n
        /\ \A j \in 1..n : (r[j] \in Params \/ r[j] = segs[j]) /\ (s[j] \in Params \/ s[j] = segs[j])
    BY DEF Matches
  <1>3. \A d \in Nat : d < n /\ (\A j \in 1..d : r[j] = s[j]) /\ (r[d + 1] \in Params \/ s[d + 1] \in Params)
          => r[d + 1] = s[d + 1]
    BY <1>2, NoRival
  <1> HIDE DEF r, s, n
  <1> DEFINE S == {k \in 0..n : \A j \in 1..k : r[j] = s[j]}
  <1>4. 0 \in S  BY <1>1
  <1>5. ASSUME NEW k \in 1..n, k - 1 \in S PROVE k \in S
    <2>1. k - 1 \in Nat /\ k - 1 < n /\ (k - 1) + 1 = k /\ k \in 0..n  BY <1>1
    <2>2. \A j \in 1..k - 1 : r[j] = s[j]  BY <1>5
    <2>3. r[k] = s[k]
      <3>1. CASE r[k] \in Params \/ s[k] \in Params  BY <3>1, <2>1, <2>2, <1>3
      <3>2. CASE ~(r[k] \in Params \/ s[k] \in Params)  BY <3>2, <1>2
      <3>3. QED  BY <3>1, <3>2
    <2>4. \A j \in 1..k : j = k \/ j \in 1..k - 1  BY <2>1
    <2>5. QED  BY <2>1, <2>2, <2>3, <2>4
  <1> HIDE DEF S
  <1>6. n \in S
    <2>1. \A k \in 0..n : k \in S  BY <1>1, <1>4, <1>5, UpTo
    <2>2. QED  BY <2>1, <1>1
  <1>7. \A j \in 1..Len(r) : r[j] = s[j]  BY <1>2, <1>6 DEF S
  <1>8. r = s  BY <1>1, <1>2, <1>7, SeqEqual
  <1>9. QED  BY <1>8 DEF r, s

\* Labels of segments that begin alike.
LEMMA LabelsBegin ==
  ASSUME NEW r \in Seq(Tokens), NEW s \in Seq(Tokens), NEW d \in Nat, d <= Len(r), d <= Len(s)
  PROVE  SubSeq(Labels(r), 1, d) = SubSeq(Labels(s), 1, d) <=> \A j \in 1..d : r[j] = s[j]
  <1>1. /\ Labels(r) \in Seq(TreeLabels) /\ Len(Labels(r)) = Len(r) /\ \A j \in 1..Len(r) : Labels(r)[j] = Label(r[j])
        /\ Labels(s) \in Seq(TreeLabels) /\ Len(Labels(s)) = Len(s) /\ \A j \in 1..Len(s) : Labels(s)[j] = Label(s[j])
    BY LabelsType, Zenon
  <1>2. SubSeq(Labels(r), 1, d) = SubSeq(Labels(s), 1, d) <=> \A j \in 1..d : Labels(r)[j] = Labels(s)[j]
    BY <1>1, SameBegin
  <1>3. \A j \in 1..d : Labels(r)[j] = Label(r[j]) /\ Labels(s)[j] = Label(s[j])
    <2>1. \A j \in 1..d : j \in 1..Len(r) /\ j \in 1..Len(s)  OBVIOUS
    <2>2. QED  BY <2>1, <1>1, Zenon
  <1>4. \A t, u : Label(t) = Label(u) <=> t = u
    <2>1. SUFFICES ASSUME NEW t, NEW u, Label(t) = Label(u) PROVE t = u  OBVIOUS
    <2>2. Label(t).seg = t /\ Label(u).seg = u  BY DEF Label
    <2>3. QED  BY <2>1, <2>2
  <1>5. ASSUME NEW j \in 1..d PROVE Labels(r)[j] = Labels(s)[j] <=> r[j] = s[j]
    <2>1. Labels(r)[j] = Label(r[j]) /\ Labels(s)[j] = Label(s[j])  BY <1>3
    <2>2. QED  BY <2>1, <1>4
  <1>6. QED  BY <1>2, <1>5, Zenon

\* On the way to a route that fits there is one child to go to.
LEMMA OneChild ==
  ASSUME TableInv, Unambiguous, NEW A, NEW segs \in Seq(A), NEW a \in DOMAIN routes, Matches(routes[a], segs),
         NEW d \in Nat, d < Len(segs), SubSeq(Labels(routes[a].segs), 1, d) \in Nodes,
         NEW i \in Turns, Visits(SubSeq(Labels(routes[a].segs), 1, d), segs[d + 1], i)
  PROVE  Child(i) = SubSeq(Labels(routes[a].segs), 1, d + 1)
  <1> DEFINE r == routes[a].segs
             node == SubSeq(Labels(r), 1, d)
             x == Child(i)
  <1>1. r \in Seq(Tokens) /\ Len(r) = Len(segs) /\ \A j \in 1..Len(segs) : r[j] \in Params \/ r[j] = segs[j]
    BY RouteOf DEF TableInv, Matches
  <1>2. Labels(r) \in Seq(TreeLabels) /\ Len(Labels(r)) = Len(r)  BY <1>1, LabelsType
  <1>3. Len(node) = d
    <2> HIDE DEF r, TreeLabels
    <2>1. QED  BY <1>1, <1>2
  <1>4. /\ Len(x) = d + 1 /\ SubSeq(x, 1, d) = node /\ Last(x) = x[d + 1] /\ Last(x) \in TreeLabels
        /\ Last(x).param \/ Last(x).seg = segs[d + 1]
    <2>1. /\ Len(x) = Len(node) + 1 /\ SubSeq(x, 1, Len(node)) = node /\ Last(x) \in TreeLabels
          /\ Last(x) = x[Len(node) + 1]
          /\ Last(x).param \/ Last(x).seg = segs[d + 1]
      BY VisitsChild DEF TableInv
    <2> HIDE DEF x, node, TreeLabels
    <2>2. QED  BY <2>1, <1>3, Zenon
  <1>5. x \in Range(nodes)  BY TurnsType DEF TableInv
  <1>6. PICK b \in DOMAIN routes : Len(x) \in 1..Len(routes[b].segs) /\ x = SubSeq(Labels(routes[b].segs), 1, Len(x))
    BY <1>5, Zenon DEF TableInv, NodesFit
  <1> DEFINE s == routes[b].segs
  <1>7. s \in Seq(Tokens) /\ d < Len(s) /\ d + 1 \in 1..Len(s) /\ x = SubSeq(Labels(s), 1, d + 1)
    BY <1>4, <1>6, RouteOf DEF TableInv
  <1>8. d < Len(r) /\ (r[d + 1] \in Params \/ r[d + 1] = segs[d + 1])  BY <1>1
  <1>9. TableTypes  BY DEF TableInv
  <1>10. (\A j \in 1..d : r[j] = s[j]) /\ (r[d + 1] \in Params \/ s[d + 1] \in Params) => r[d + 1] = s[d + 1]
    BY <1>7, <1>8, <1>9, NoRival
  <1> HIDE DEF r, s, x, TreeLabels
  <1>11. Labels(s) \in Seq(TreeLabels) /\ Len(Labels(s)) = Len(s) /\ Labels(s)[d + 1] = Label(s[d + 1])
    BY <1>7, LabelsType
  <1>12. SubSeq(x, 1, d) = SubSeq(Labels(s), 1, d) /\ Last(x) = Label(s[d + 1])
    BY <1>7, <1>11, KeyDown
  <1>13. \A j \in 1..d : r[j] = s[j]
    <2>1. SubSeq(Labels(r), 1, d) = SubSeq(Labels(s), 1, d)  BY <1>4, <1>12
    <2>2. d <= Len(r) /\ d <= Len(s)  BY <1>1, <1>7, <1>8
    <2>3. QED  BY <2>1, <2>2, <1>1, <1>7, LabelsBegin
  <1>14. r[d + 1] = s[d + 1]
    <2>1. CASE r[d + 1] \in Params \/ s[d + 1] \in Params  BY <2>1, <1>10, <1>13
    <2>2. CASE ~(r[d + 1] \in Params \/ s[d + 1] \in Params)
      <3>1. Last(x).seg = s[d + 1]  BY <1>12 DEF Label
      <3>2. ~Last(x).param  BY <3>1, <2>2, <1>4, LabelFits
      <3>3. QED  BY <3>1, <3>2, <2>2, <1>4, <1>8
    <2>3. QED  BY <2>1, <2>2
  <1>15. \A j \in 1..d + 1 : r[j] = s[j]
    <2>1. \A j \in 1..d + 1 : j = d + 1 \/ j \in 1..d  OBVIOUS
    <2>2. QED  BY <2>1, <1>13, <1>14
  <1>16. d + 1 \in Nat /\ d + 1 <= Len(r) /\ d + 1 <= Len(s)  BY <1>1, <1>7, <1>8
  <1>17. SubSeq(Labels(r), 1, d + 1) = SubSeq(Labels(s), 1, d + 1)  BY <1>1, <1>7, <1>15, <1>16, LabelsBegin
  <1>18. QED  BY <1>7, <1>17 DEF r, x

\* A leaf that fits is below each node on the way to it, and there is one
\* child to go to from each.
OnTheWay(key, segs, d) ==
  /\ SubSeq(key, 1, d) \in Nodes /\ Len(SubSeq(key, 1, d)) = d
  /\ d < Len(segs) =>
       /\ \E i \in Turns : Visits(SubSeq(key, 1, d), segs[d + 1], i)
       /\ \A i \in Turns : Visits(SubSeq(key, 1, d), segs[d + 1], i) => Child(i) = SubSeq(key, 1, d + 1)

LEMMA OneWay ==
  ASSUME TableInv, Unambiguous, NEW A, NEW segs \in Seq(A), NEW e \in leaves, FitsBelow(e.key, <<>>, segs)
  PROVE  /\ e.key \in Seq(TreeLabels) /\ Len(e.key) = Len(segs)
         /\ \A d \in 0..Len(segs) : OnTheWay(e.key, segs, d)
  <1> DEFINE key == e.key
  <1>1. /\ key \in Seq(TreeLabels) /\ e.h \in DOMAIN routes /\ Labels(routes[e.h].segs) = key
        /\ Len(key) = Len(segs) /\ Len(segs) \in Nat
        /\ \A j \in 1..Len(segs) : key[j].param \/ key[j].seg = segs[j]
    <2>1. key \in Seq(TreeLabels)  BY DEF TableInv, TableTypes, Handlers
    <2>2. e.h \in DOMAIN routes /\ Labels(routes[e.h].segs) = key  BY Zenon DEF TableInv, LeavesFit
    <2>3. Len(<<>>) + 1 = 1  OBVIOUS
    <2>4. Len(key) = Len(segs) /\ \A j \in 1..Len(segs) : key[j].param \/ key[j].seg = segs[j]
      BY <2>3 DEF FitsBelow
    <2>5. QED  BY <2>1, <2>2, <2>4
  <1>2. Matches(routes[e.h], segs)  BY LeafMatches
  <1>3. \A k \in 1..Len(key) : SubSeq(key, 1, k) \in Range(nodes)  BY Zenon DEF TableInv, NodesFit
  <1>4. ASSUME NEW d \in 0..Len(segs) PROVE OnTheWay(key, segs, d)
    <2> DEFINE node == SubSeq(key, 1, d)
    <2>1. node \in Seq(TreeLabels) /\ Len(node) = d
      <3> HIDE DEF TreeLabels, key
      <3>1. QED  BY <1>1
    <2>2. node \in Nodes
      <3>1. CASE d = 0
        <4>1. node = <<>>
          <5> HIDE DEF TreeLabels, key
          <5>1. QED  BY <1>1, <3>1
        <4>2. QED  BY <4>1, NodesType DEF TableInv
      <3>2. CASE d # 0
        <4>1. d \in 1..Len(key)  BY <3>2, <1>1
        <4>2. QED  BY <4>1, <1>3, NodesType, Zenon DEF TableInv
      <3>3. QED  BY <3>1, <3>2
    <2>3. ASSUME d < Len(segs)
          PROVE  /\ \E i \in Turns : Visits(node, segs[d + 1], i)
                 /\ \A i \in Turns : Visits(node, segs[d + 1], i) => Child(i) = SubSeq(key, 1, d + 1)
      <3>1. FitsBelow(key, node, segs)
        <4>1. \A j \in d + 1..Len(segs) : j \in 1..Len(segs)  OBVIOUS
        <4> HIDE DEF node, key
        <4>2. QED  BY <4>1, <1>1, <2>1 DEF FitsBelow, node
      <3>2. LeafBelow(node, segs, e.m)  BY <3>1 DEF LeafBelow
      <3> HIDE DEF node
      <3>3. \E i \in Turns : Visits(node, segs[d + 1], i)  BY <2>1, <2>2, <2>3, <3>2, LeafDown
      <3>4. ASSUME NEW i \in Turns, Visits(node, segs[d + 1], i) PROVE Child(i) = SubSeq(key, 1, d + 1)
        <4> DEFINE a == e.h
        <4>1. a \in DOMAIN routes /\ Matches(routes[a], segs) /\ key = Labels(routes[a].segs)  BY <1>1, <1>2
        <4> HIDE DEF a, key
        <4>2. d \in Nat  OBVIOUS
        <4>3. QED  BY <4>1, <4>2, <3>4, <2>2, <2>3, OneChild, Zenon DEF node
      <3>5. QED  BY <3>3, <3>4
    <2>4. QED  BY <2>1, <2>2, <2>3 DEF OnTheWay
  <1>5. QED  BY <1>1, <1>4

\* So the walk goes there.
LEMMA WalkStraight ==
  ASSUME TableInv, Unambiguous, NEW A, NEW segs \in Seq(A), NEW e \in leaves, FitsBelow(e.key, <<>>, segs)
  PROVE  Walk(segs).node = e.key
  <1> DEFINE n == Len(segs)
             key == e.key
             There(d) == [node |-> SubSeq(key, 1, d), found |-> TRUE]
  <1>1. PICK c : WalkRuns(c, segs)  BY WalkSteps DEF TableInv
  <1>2. /\ c[0] = [node |-> <<>>, found |-> TRUE]
        /\ \A i \in 1..n : c[i] = WalksDown(c[i - 1], segs[i])
        /\ Walk(segs) = c[n]
    BY <1>1, Zenon DEF WalkRuns
  <1>3. /\ key \in Seq(TreeLabels) /\ Len(key) = n
        /\ \A d \in 0..n : OnTheWay(key, segs, d)
    BY OneWay
  <1>4. n \in Nat  OBVIOUS
  <1> HIDE DEF n, key, TreeLabels
  <1> DEFINE S == {k \in 0..n : c[k] = There(k)}
  <1>5. 0 \in S
    <2>1. SubSeq(key, 1, 0) = <<>>  BY <1>3
    <2>2. c[0] = There(0)  BY <2>1, <1>2, Zenon
    <2>3. 0 \in 0..n  BY <1>4
    <2> HIDE DEF There
    <2>4. QED  BY <2>2, <2>3
  <1>6. ASSUME NEW k \in 1..n, k - 1 \in S PROVE k \in S
    <2> DEFINE node == SubSeq(key, 1, k - 1)
               fits == {j \in Turns : Visits(node, segs[k], j)}
    <2>1. k - 1 \in 0..n /\ k - 1 < n /\ (k - 1) + 1 = k /\ k \in 0..n  BY <1>4
    <2>2. OnTheWay(key, segs, k - 1)  BY <2>1, <1>3
    <2>3. /\ node \in Nodes /\ fits # {}
          /\ \A i \in Turns : Visits(node, segs[k], i) => Child(i) = SubSeq(key, 1, k)
      BY <2>1, <2>2 DEF OnTheWay, n
    <2>4. Min(fits) \in Turns /\ Visits(node, segs[k], Min(fits))  BY <2>3, FirstTurn DEF TableInv
    <2>5. c[k - 1].node = node /\ c[k - 1].found  BY <1>6
    <2>6. c[k] = IF c[k - 1].found /\ fits # {} THEN [node |-> Child(Min(fits)), found |-> TRUE]
                 ELSE [node |-> c[k - 1].node, found |-> FALSE]
      <3> HIDE DEF node
      <3>1. c[k] = WalksDown(c[k - 1], segs[k])  BY <1>2
      <3>2. QED  BY <3>1, <2>5, Zenon DEF WalksDown
    <2> HIDE DEF fits, node
    <2>7. c[k] = [node |-> SubSeq(key, 1, k), found |-> TRUE]  BY <2>3, <2>4, <2>5, <2>6
    <2>8. QED  BY <2>1, <2>7
  <1> HIDE DEF S
  <1>7. n \in S
    <2>1. \A k \in 0..n : k \in S  BY <1>4, <1>5, <1>6, UpTo
    <2>2. QED  BY <2>1, <1>4
  <1>8. c[n].node = SubSeq(key, 1, n)  BY <1>7 DEF S
  <1>9. SubSeq(key, 1, n) = key  BY <1>3
  <1>10. QED  BY <1>2, <1>8, <1>9 DEF key

\* The bindings of the first d segments, the last of a name winning.
LastOf(r, d) == {i \in 1..d : r[i] \in Params /\ \A j \in 1..d : r[j] = r[i] => j <= i}
BoundTo(r, segs, d) == {<<r[i], segs[i]>> : i \in LastOf(r, d)}

LEMMA BoundToType ==
  ASSUME NEW r, NEW A, NEW segs \in Seq(A), NEW d \in 0..Len(segs)
  PROVE  BoundTo(r, segs, d) \in Bindings(segs)
  <1>1. \A i \in 1..d : segs[i] \in Range(segs)
    <2>1. \A i \in 1..d : i \in DOMAIN segs  OBVIOUS
    <2>2. QED  BY <2>1, Zenon DEF Range
  <1>2. QED  BY <1>1 DEF BoundTo, LastOf, Bindings

\* One segment more.
LEMMA BoundToStep ==
  ASSUME NEW r, NEW segs, NEW d \in Nat
  PROVE  /\ r[d + 1] \notin Params => BoundTo(r, segs, d + 1) = BoundTo(r, segs, d)
         /\ r[d + 1] \in Params => BoundTo(r, segs, d + 1) = Bound(BoundTo(r, segs, d), r[d + 1], segs[d + 1])
  <1>1. 1..d + 1 = (1..d) \cup {d + 1} /\ \A i \in 1..d : ~(d + 1 <= i) /\ i <= d + 1
    OBVIOUS
  <1>2. d + 1 <= d + 1  OBVIOUS
  <1>3. \A i \in 1..d : i \in LastOf(r, d + 1) <=> i \in LastOf(r, d) /\ r[d + 1] # r[i]
    BY <1>1 DEF LastOf
  <1>4. d + 1 \in LastOf(r, d + 1) <=> r[d + 1] \in Params
    BY <1>1, <1>2 DEF LastOf
  <1>5. \A x : x \in BoundTo(r, segs, d + 1) <=>
          (\E i \in 1..d : i \in LastOf(r, d + 1) /\ x = <<r[i], segs[i]>>)
            \/ (d + 1 \in LastOf(r, d + 1) /\ x = <<r[d + 1], segs[d + 1]>>)
    <2>1. \A i \in LastOf(r, d + 1) : i \in 1..d \/ i = d + 1  BY <1>1 DEF LastOf
    <2>2. QED  BY <2>1, Zenon DEF BoundTo
  <1>6. \A x : x \in BoundTo(r, segs, d) <=> \E i \in 1..d : i \in LastOf(r, d) /\ x = <<r[i], segs[i]>>
    BY Zenon DEF BoundTo, LastOf
  <1>7. CASE r[d + 1] \notin Params
    <2>1. \A i \in 1..d : i \in LastOf(r, d) => r[d + 1] # r[i]  BY <1>7 DEF LastOf
    <2>2. \A x : x \in BoundTo(r, segs, d + 1) <=> x \in BoundTo(r, segs, d)
      BY <2>1, <1>3, <1>4, <1>5, <1>6, <1>7, Zenon
    <2>3. BoundTo(r, segs, d + 1) = BoundTo(r, segs, d)  BY <2>2
    <2>4. QED  BY <2>3, <1>7
  <1>8. CASE r[d + 1] \in Params
    <2>1. \A x : x \in Bound(BoundTo(r, segs, d), r[d + 1], segs[d + 1]) <=>
            (x \in BoundTo(r, segs, d) /\ x[1] # r[d + 1]) \/ x = <<r[d + 1], segs[d + 1]>>
      BY DEF Bound
    <2>2. \A i : <<r[i], segs[i]>>[1] = r[i]  OBVIOUS
    <2>3. \A x : (x \in BoundTo(r, segs, d) /\ x[1] # r[d + 1]) <=>
                 (\E i \in 1..d : i \in LastOf(r, d + 1) /\ x = <<r[i], segs[i]>>)
      <3>1. SUFFICES ASSUME NEW x
                     PROVE  (x \in BoundTo(r, segs, d) /\ x[1] # r[d + 1]) <=>
                            (\E i \in 1..d : i \in LastOf(r, d + 1) /\ x = <<r[i], segs[i]>>)
        OBVIOUS
      <3>2. \A i \in 1..d : x = <<r[i], segs[i]>> => x[1] = r[i]  BY <2>2
      <3>3. QED  BY <3>2, <1>3, <1>6, Zenon
    <2>4. \A x : x \in BoundTo(r, segs, d + 1) <=> x \in Bound(BoundTo(r, segs, d), r[d + 1], segs[d + 1])
      BY <2>1, <2>3, <1>4, <1>5, <1>8, Zenon
    <2>5. BoundTo(r, segs, d + 1) = Bound(BoundTo(r, segs, d), r[d + 1], segs[d + 1])  BY <2>4
    <2>6. QED  BY <2>5, <1>8
  <1>9. QED  BY <1>7, <1>8

\* A visited child that is tried with the bindings so far gives the answer
\* from below.
LEMMA TriedStraight ==
  ASSUME TableTypes, NEW A, NEW segs \in Seq(A), NEW r \in Seq(Tokens), Len(r) = Len(segs), NEW d \in Nat, d < Len(segs),
         NEW below, NEW res, res.ok, below[SubSeq(Labels(r), 1, d + 1)][BoundTo(r, segs, d + 1)] = res
  PROVE  Tried(below, SubSeq(Labels(r), 1, d + 1), segs[d + 1], BoundTo(r, segs, d)) = res
  <1> DEFINE child == SubSeq(Labels(r), 1, d + 1)
  <1>1. Last(child) = Label(r[d + 1]) /\ Last(child) \in TreeLabels
    <2>1. Labels(r) \in Seq(TreeLabels) /\ Len(Labels(r)) = Len(r) /\ Labels(r)[d + 1] = Label(r[d + 1])  BY LabelsType
    <2> HIDE DEF TreeLabels
    <2>2. QED  BY <2>1, KeyDown
  <1>2. Last(child).seg = r[d + 1] /\ (Last(child).param <=> r[d + 1] \in Params)
    <2>1. Last(child).seg = r[d + 1]  BY <1>1 DEF Label
    <2>2. QED  BY <2>1, <1>1, LabelFits
  <1> HIDE DEF child
  <1>3. below[child][BoundTo(r, segs, d + 1)] = res  BY DEF child
  <1>4. CASE r[d + 1] \notin Params
    <2>1. Tried(below, child, segs[d + 1], BoundTo(r, segs, d)) = below[child][BoundTo(r, segs, d)]
      BY <1>2, <1>4 DEF Tried
    <2>2. BoundTo(r, segs, d + 1) = BoundTo(r, segs, d)  BY <1>4, BoundToStep
    <2>3. QED  BY <2>1, <2>2, <1>3 DEF child
  <1>5. CASE r[d + 1] \in Params
    <2> DEFINE got == below[child][Bound(BoundTo(r, segs, d), r[d + 1], segs[d + 1])]
    <2>1. got = res  BY <1>3, <1>5, BoundToStep
    <2>2. Tried(below, child, segs[d + 1], BoundTo(r, segs, d)) =
            IF got.ok THEN got ELSE [ok |-> FALSE, params |-> Erased(got.params, r[d + 1])]
      BY <1>2, <1>5, Zenon DEF Tried
    <2> HIDE DEF got
    <2>3. QED  BY <2>1, <2>2 DEF child
  <1>6. QED  BY <1>4, <1>5

\* So the search goes there too, and binds what it passes.
LEMMA MatchStraight ==
  ASSUME TableInv, Unambiguous, NEW A, NEW segs \in Seq(A), NEW e \in leaves, FitsBelow(e.key, <<>>, segs),
         NEW r \in Seq(Tokens), e.key = Labels(r)
  PROVE  MatchNode(segs, e.m)[<<>>][{}] = [ok |-> TRUE, params |-> BoundTo(r, segs, Len(segs))]
  <1> DEFINE n == Len(segs)
             B == Bindings(segs)
             key == Labels(r)
             res == [ok |-> TRUE, params |-> BoundTo(r, segs, n)]
  <1>1. PICK c : MatchRuns(c, segs, e.m)  BY MatchSteps DEF TableInv
  <1>2. /\ c \in [0..n -> Searches(segs)]
        /\ \A node \in Nodes, ps \in B : c[0][node][ps] = Found(e.m, node, ps)
        /\ \A k \in 1..n, node \in Nodes, ps \in B : c[k][node][ps] = Loop(c[k - 1], node, segs[n - k + 1], ps)
        /\ MatchNode(segs, e.m) = c[n]
    BY <1>1, Zenon DEF MatchRuns
  <1>3. /\ key \in Seq(TreeLabels) /\ Len(key) = n
        /\ \A d \in 0..n : OnTheWay(key, segs, d)
    BY OneWay
  <1>4. n \in Nat /\ Len(r) = n  BY <1>3, LabelsType
  <1>5. \A d \in 0..n : BoundTo(r, segs, d) \in B  BY BoundToType
  <1>6. SubSeq(key, 1, n) = key /\ SubSeq(key, 1, 0) = <<>>
    <2> HIDE DEF key, TreeLabels
    <2>1. QED  BY <1>3
  <1>7. TableTypes  BY DEF TableInv
  <1>8. res.ok  OBVIOUS
  <1> DEFINE At(k) == c[k][SubSeq(key, 1, n - k)][BoundTo(r, segs, n - k)]
             S == {k \in 0..n : At(k) = res}
  <1>9. 0 \in S
    <2>1. n \in 0..n /\ n - 0 = n /\ 0 \in 0..n  BY <1>4
    <2>2. key \in Nodes  BY <2>1, <1>3, <1>6 DEF OnTheWay
    <2>3. HandlerFor(leaves, key, e.m) # 0
      <3>1. leaves \subseteq Handlers(Seq(TreeLabels))  BY DEF TableInv, TableTypes
      <3> HIDE DEF TreeLabels, key
      <3>2. Handled(leaves, key, e.m, HandlerFor(leaves, key, e.m))  BY <3>1, <1>7, HandlerOf
      <3>3. Same(e, key, e.m)  BY DEF Same, key
      <3>4. QED  BY <3>2, <3>3 DEF Handled
    <2>4. At(0) = Found(e.m, key, BoundTo(r, segs, n))
      <3> HIDE DEF key, n, B
      <3>1. QED  BY <2>1, <2>2, <1>2, <1>5, <1>6
    <2>5. At(0) = res
      <3> HIDE DEF At
      <3>1. QED  BY <2>3, <2>4 DEF Found
    <2> HIDE DEF At, res
    <2>6. QED  BY <2>1, <2>5
  <1>10. ASSUME NEW k \in 1..n, k - 1 \in S PROVE k \in S
    <2> DEFINE d == n - k
               node == SubSeq(key, 1, d)
               child == SubSeq(key, 1, d + 1)
               ps == BoundTo(r, segs, d)
               below == c[k - 1]
               seg == segs[d + 1]
               N == 2 * Len(nodes)
    <2>1. /\ d \in 0..n /\ d + 1 \in 0..n /\ d < n /\ d \in Nat /\ k \in 0..n /\ k - 1 \in 0..n
          /\ n - k + 1 = d + 1 /\ n - (k - 1) = d + 1 /\ d + 1 \in DOMAIN segs
      BY <1>4
    <2>2. below[child][BoundTo(r, segs, d + 1)] = res
      <3>1. At(k - 1) = res  BY <1>10
      <3>2. QED  BY <3>1, <2>1, Zenon
    <2>3. /\ node \in Nodes /\ \E i \in Turns : Visits(node, seg, i)
          /\ \A i \in Turns : Visits(node, seg, i) => Child(i) = child
      BY <2>1, <1>3 DEF OnTheWay
    <2>4. seg \in Range(segs) /\ below \in Searches(segs) /\ ps \in B
      <3>1. seg \in Range(segs)  BY <2>1, Zenon DEF Range
      <3>2. QED  BY <3>1, <2>1, <1>2, <1>5
    <2>5. At(k) = Loop(below, node, seg, ps)
      <3> HIDE DEF n, key, B
      <3>1. c[k][node][ps] = Loop(c[k - 1], node, segs[n - k + 1], ps)  BY <2>3, <2>4, <1>2
      <3>2. QED  BY <3>1, <2>1, Zenon
    <2>6. Tried(below, child, seg, ps) = res
      <3> HIDE DEF res, below
      <3>1. Len(r) = Len(segs) /\ d < Len(segs)  BY <2>1, <1>4
      <3>2. QED  BY <3>1, <2>1, <2>2, <1>7, <1>8, TriedStraight, SMTT(60)
    <2> HIDE DEF At, n, B, key, node, child, ps, below, seg, res, d
    <2>7. PICK a : LoopRuns(a, segs, below, node, seg, ps)  BY <2>3, <2>4, <1>7, LoopSteps, Zenon DEF B
    <2>8. /\ a[0] = [ok |-> FALSE, params |-> ps]
          /\ \A i \in Turns : a[i] = IF a[i - 1].ok \/ ~Visits(node, seg, i) THEN a[i - 1]
                                     ELSE Tried(below, Child(i), seg, a[i - 1].params)
          /\ Loop(below, node, seg, ps) = a[N]
      BY <2>7, Zenon DEF LoopRuns
    <2>9. N \in Nat /\ Turns = 1..N  BY <1>7, TurnsType DEF Turns
    <2> HIDE DEF N
    <2> DEFINE U == {i \in 0..N : IF \E j \in 1..i : Visits(node, seg, j) THEN a[i] = res
                                  ELSE a[i] = [ok |-> FALSE, params |-> ps]}
    <2>10. 0 \in U
      <3>1. 1..0 = {} /\ 0 \in 0..N  BY <2>9
      <3>2. QED  BY <3>1, <2>8
    <2>11. ASSUME NEW i \in 1..N, i - 1 \in U PROVE i \in U
      <3>1. i \in 0..N /\ i \in Turns /\ i \in 1..i /\ \A j \in 1..i : j = i \/ j \in 1..i - 1  BY <2>9
      <3>2. \A j \in 1..i - 1 : j \in 1..i  BY <2>9
      <3>3. CASE \E j \in 1..i - 1 : Visits(node, seg, j)
        <4>1. a[i - 1] = res  BY <3>3, <2>11
        <4>2. a[i] = res  BY <4>1, <3>1, <2>8, <1>8
        <4>3. QED  BY <4>2, <3>1, <3>2, <3>3
      <3>4. CASE ~ \E j \in 1..i - 1 : Visits(node, seg, j)
        <4>1. a[i - 1] = [ok |-> FALSE, params |-> ps]  BY <3>4, <2>11
        <4>2. ~a[i - 1].ok /\ a[i - 1].params = ps  BY <4>1
        <4>3. CASE Visits(node, seg, i)
          <5>1. a[i] = Tried(below, Child(i), seg, a[i - 1].params)  BY <4>2, <4>3, <3>1, <2>8
          <5>2. Child(i) = child  BY <4>3, <3>1, <2>3
          <5>3. a[i] = res  BY <5>1, <5>2, <4>2, <2>6
          <5>4. QED  BY <5>3, <4>3, <3>1
        <4>4. CASE ~Visits(node, seg, i)
          <5>1. a[i] = a[i - 1]  BY <4>4, <3>1, <2>8
          <5>2. ~ \E j \in 1..i : Visits(node, seg, j)  BY <4>4, <3>1, <3>4
          <5>3. QED  BY <5>1, <5>2, <4>1, <3>1
        <4>5. QED  BY <4>3, <4>4
      <3>5. QED  BY <3>3, <3>4
    <2> HIDE DEF U
    <2>12. N \in U
      <3>1. \A i \in 0..N : i \in U  BY <2>9, <2>10, <2>11, UpTo
      <3>2. QED  BY <3>1, <2>9
    <2>13. a[N] = res  BY <2>3, <2>9, <2>12 DEF U
    <2>14. QED  BY <2>1, <2>5, <2>8, <2>13
  <1> HIDE DEF S
  <1>11. n \in S
    <2>1. \A k \in 0..n : k \in S  BY <1>4, <1>9, <1>10, UpTo
    <2>2. QED  BY <2>1, <1>4
  <1>12. At(n) = res  BY <1>11 DEF S
  <1>13. n - n = 0 /\ BoundTo(r, segs, 0) = {}
    <2>1. 1..0 = {}  OBVIOUS
    <2>2. QED  BY <2>1, <1>4 DEF BoundTo, LastOf
  <1>14. c[n][<<>>][{}] = res
    <2> HIDE DEF n, key, res
    <2>1. QED  BY <1>6, <1>12, <1>13
  <1>15. QED  BY <1>2, <1>14

\* What is found in a table is the last handler of what fits.
LEMMA LatestStatic ==
  ASSUME TableInv, Unambiguous, NEW A, NEW norm \in Seq(A), IsNormal(norm), NEW segs, segs = SplitPath(norm),
         NEW m, NEW a \in DOMAIN routes, Matches(routes[a], segs), routes[a].m = m, ~InTree(routes[a].segs)
  PROVE  LET h == HandlerFor(Statics(norm), norm, m)
         IN /\ h # 0 /\ Statics(norm) # {} /\ h \in DOMAIN routes /\ routes[h].m = m /\ routes[h].segs = segs
            /\ \A i \in DOMAIN routes : Matches(routes[i], segs) /\ routes[i].m = m => i <= h
  <1> DEFINE static == Statics(norm)
             h == HandlerFor(static, norm, m)
  <1>1. segs \in Seq(A)  BY SplitForm
  <1>2. routes[a].segs = segs /\ \E e \in statics : e.key = norm /\ e.m = m  BY StaticMatches
  <1>3. Handled(static, norm, m, h)
    <2>1. static \subseteq Handlers(Seq(Tokens)) /\ TableTypes  BY DEF TableInv, TableTypes, Statics
    <2>2. QED  BY <2>1, HandlerOf
  <1> HIDE DEF h
  <1>4. static # {} /\ h # 0
    <2>1. PICK e \in statics : e.key = norm /\ e.m = m  BY <1>2
    <2>2. e \in static /\ Same(e, norm, m)  BY <2>1 DEF Statics, Same
    <2>3. QED  BY <2>2, <1>3, Zenon DEF Handled
  <1>5. PICK f \in statics : f.key = norm /\ f.m = m /\ f.h = h  BY <1>3, <1>4 DEF Handled, Same, Statics
  <1>6. h \in DOMAIN routes /\ routes[h].m = m /\ routes[h].segs = segs  BY <1>5, Zenon DEF TableInv, StaticsFit
  <1>7. ASSUME NEW i \in DOMAIN routes, Matches(routes[i], segs), routes[i].m = m PROVE i <= h
    <2>1. routes[i].segs = routes[a].segs  BY <1>1, <1>7, FittingSame DEF TableInv
    <2>2. ~InTree(routes[i].segs)  BY <2>1
    <2>3. PICK e \in statics : e.key = norm /\ e.m = m /\ e.h >= i  BY <1>7, <2>2, StaticMatches
    <2>4. e = f  BY <2>3, <1>5, Zenon DEF TableInv, OneEach
    <2>5. QED  BY <2>3, <2>4, <1>5
  <1>8. QED  BY <1>4, <1>6, <1>7 DEF h

LEMMA LatestLeaf ==
  ASSUME TableInv, Unambiguous, NEW A, NEW segs \in Seq(A),
         NEW m, NEW a \in DOMAIN routes, Matches(routes[a], segs), routes[a].m = m, InTree(routes[a].segs)
  PROVE  LET h == HandlerFor(leaves, Walk(segs).node, m)
         IN /\ h # 0 /\ h \in DOMAIN routes /\ routes[h].m = m /\ routes[h].segs = routes[a].segs
            /\ \A i \in DOMAIN routes : Matches(routes[i], segs) /\ routes[i].m = m => i <= h
            /\ MatchNode(segs, m)[<<>>][{}] = [ok |-> TRUE, params |-> BoundTo(routes[a].segs, segs, Len(segs))]
  <1> DEFINE r == routes[a].segs
             key == Labels(r)
             h == HandlerFor(leaves, Walk(segs).node, m)
  <1>1. PICK e \in leaves : e.key = key /\ e.m = m /\ FitsBelow(e.key, <<>>, segs)  BY TreeMatches
  <1>2. Walk(segs).node = key  BY <1>1, WalkStraight
  <1>3. r \in Seq(Tokens)  BY RouteOf DEF TableInv
  <1>4. MatchNode(segs, m)[<<>>][{}] = [ok |-> TRUE, params |-> BoundTo(r, segs, Len(segs))]
    BY <1>1, <1>3, MatchStraight
  <1>5. Handled(leaves, key, m, h)
    <2>1. leaves \subseteq Handlers(Seq(TreeLabels)) /\ TableTypes  BY DEF TableInv, TableTypes
    <2> HIDE DEF TreeLabels, key
    <2>2. QED  BY <2>1, <1>2, HandlerOf
  <1> HIDE DEF h, key, r
  <1>6. h # 0
    <2>1. Same(e, key, m)  BY <1>1 DEF Same
    <2>2. QED  BY <2>1, <1>5, Zenon DEF Handled
  <1>7. PICK f \in leaves : f.key = key /\ f.m = m /\ f.h = h  BY <1>5, <1>6 DEF Handled, Same
  <1>8. h \in DOMAIN routes /\ routes[h].m = m /\ routes[h].segs = r
    <2>1. h \in DOMAIN routes /\ routes[h].m = m  BY <1>7, Zenon DEF TableInv, LeavesFit
    <2>2. f.key = e.key /\ f.h = h  BY <1>1, <1>7
    <2>3. Matches(routes[f.h], segs)
      <3>1. FitsBelow(f.key, <<>>, segs)  BY <1>1, <2>2
      <3>2. QED  BY <3>1, LeafMatches
    <2>4. routes[h].segs = r
      <3>1. Matches(routes[h], segs)  BY <2>2, <2>3
      <3>2. QED  BY <2>1, <3>1, FittingSame DEF TableInv, r
    <2>5. QED  BY <2>1, <2>4
  <1>9. ASSUME NEW i \in DOMAIN routes, Matches(routes[i], segs), routes[i].m = m PROVE i <= h
    <2>1. routes[i].segs = r  BY <1>9, FittingSame DEF TableInv, r
    <2>2. InTree(routes[i].segs)  BY <2>1 DEF r
    <2>3. PICK g \in leaves : g.key = Labels(routes[i].segs) /\ g.m = routes[i].m /\ g.h >= i
      BY <1>9, <2>2, TreeMatches
    <2>4. g.key = f.key /\ g.m = f.m  BY <2>1, <2>3, <1>7, <1>9 DEF key
    <2>5. g = f  BY <2>4, Zenon DEF TableInv, OneEach
    <2>6. QED  BY <2>3, <2>5, <1>7
  <1>10. QED  BY <1>4, <1>6, <1>8, <1>9 DEF h, r

\* The bindings of a whole path.
LEMMA AllBound ==
  ASSUME NEW T, NEW r \in Seq(T), NEW segs, NEW n, n = Len(r)
  PROVE  BoundTo(r, segs, n) = {<<r[i], segs[i]>> : i \in {i \in DOMAIN r : r[i] \in Params /\ \A j \in DOMAIN r : r[j] = r[i] => j <= i}}
  <1>1. DOMAIN r = 1..n  OBVIOUS
  <1>2. QED  BY <1>1, Zenon DEF BoundTo, LastOf

\* The answer to a request that a route fits.
LEMMA RightAnswer ==
  ASSUME TableInv, Unambiguous, NEW m \in Methods, NEW p \in RequestPaths, NEW segs, segs = SplitPath(NormalizePath(p)),
         NEW a \in DOMAIN routes, Matches(routes[a], segs), routes[a].m = m
  PROVE  LET answer == OnRequest(m, p)
         IN /\ answer.kind = "call" /\ answer.h \in DOMAIN routes
            /\ Matches(routes[answer.h], segs) /\ routes[answer.h].m = m
            /\ \A i \in DOMAIN routes : Matches(routes[i], segs) /\ routes[i].m = m => i <= answer.h
            /\ answer.params = BoundTo(routes[answer.h].segs, segs, Len(segs))
  <1> DEFINE norm == NormalizePath(p)
             A == Range(p)
             static == Statics(norm)
             match == MatchNode(segs, m)[<<>>][{}]
             walk == Walk(segs)
             hs == HandlerFor(static, norm, m)
             hl == HandlerFor(leaves, walk.node, m)
             answer == OnRequest(m, p)
             call(h, params) == [kind |-> "call", h |-> h, params |-> params]
  <1>1. norm \in Seq(A) /\ IsNormal(norm) /\ segs \in Seq(A) /\ segs = SplitPath(norm)  BY RequestSegs
  <1>2. /\ static # {} /\ hs # 0 => answer = call(hs, {})
        /\ static = {} /\ match.ok /\ hl # 0 => answer = call(hl, match.params)
    <2> HIDE DEF norm, static, match, walk, hs, hl
    <2>1. Decided(OnRequest(m, p), static, match, walk, hs, hl)
      BY <1>1, OnRequestCases, Zenon DEF norm, static, match, walk, hs, hl
    <2>2. QED  BY <2>1 DEF Decided
  <1> HIDE DEF answer, norm, A
  <1>3. CASE ~InTree(routes[a].segs)
    <2>1. /\ hs # 0 /\ static # {} /\ hs \in DOMAIN routes /\ routes[hs].m = m /\ routes[hs].segs = segs
          /\ \A i \in DOMAIN routes : Matches(routes[i], segs) /\ routes[i].m = m => i <= hs
      BY <1>1, <1>3, LatestStatic
    <2>2. routes[a].segs = segs  BY <1>1, <1>3, StaticMatches
    <2> HIDE DEF hs, static
    <2>3. answer = call(hs, {})  BY <2>1, <1>2
    <2>4. answer.kind = "call" /\ answer.h = hs /\ answer.params = {}  BY <2>3
    <2>5. Matches(routes[hs], segs)  BY <2>1 DEF Matches
    <2>6. BoundTo(segs, segs, Len(segs)) = {}
      <3>1. \A i \in 1..Len(segs) : segs[i] \notin Params  BY <1>1, <1>3, <2>2 DEF InTree, HasParam
      <3>2. QED  BY <3>1 DEF BoundTo, LastOf
    <2>7. QED  BY <2>1, <2>4, <2>5, <2>6 DEF answer
  <1>4. CASE InTree(routes[a].segs)
    <2>1. /\ hl # 0 /\ hl \in DOMAIN routes /\ routes[hl].m = m /\ routes[hl].segs = routes[a].segs
          /\ \A i \in DOMAIN routes : Matches(routes[i], segs) /\ routes[i].m = m => i <= hl
          /\ match = [ok |-> TRUE, params |-> BoundTo(routes[a].segs, segs, Len(segs))]
      BY <1>1, <1>4, LatestLeaf
    <2>2. static = {}
      <3>1. SUFFICES ASSUME NEW e \in statics, e.key = norm PROVE FALSE  BY DEF Statics
      <3>2. e.h \in DOMAIN routes /\ routes[e.h].segs = segs /\ ~InTree(segs)
        BY <3>1, <1>1, Zenon DEF TableInv, StaticsFit
      <3>3. Matches(routes[e.h], segs)  BY <3>2 DEF Matches
      <3>4. routes[a].segs = routes[e.h].segs  BY <1>1, <3>2, <3>3, FittingSame DEF TableInv
      <3>5. QED  BY <3>2, <3>4, <1>4
    <2> HIDE DEF hl, static, match
    <2>3. answer = call(hl, match.params) /\ match.params = BoundTo(routes[a].segs, segs, Len(segs))
      BY <2>1, <2>2, <1>2
    <2>4. answer.kind = "call" /\ answer.h = hl /\ answer.params = BoundTo(routes[hl].segs, segs, Len(segs))
      BY <2>1, <2>3
    <2>5. Matches(routes[hl], segs)  BY <2>1 DEF Matches
    <2>6. QED  BY <2>1, <2>4, <2>5 DEF answer
  <1>5. QED  BY <1>3, <1>4

\* A handler is called only for a route of the method that fits.
LEMMA CallsFit ==
  ASSUME TableInv, NEW m \in Methods, NEW p \in RequestPaths, OnRequest(m, p).kind = "call"
  PROVE  \E i \in Fitting(p) : routes[i].m = m
  <1> DEFINE norm == NormalizePath(p)
             segs == SplitPath(norm)
             A == Range(p)
             static == Statics(norm)
             match == MatchNode(segs, m)[<<>>][{}]
             walk == Walk(segs)
             hs == HandlerFor(static, norm, m)
             hl == HandlerFor(leaves, walk.node, m)
  <1>1. norm \in Seq(A) /\ IsNormal(norm) /\ segs \in Seq(A)  BY RequestSegs
  <1>2. (static # {} /\ hs # 0) \/ (static = {} /\ match.ok)
    <2> HIDE DEF norm, segs, static, match, walk, hs, hl
    <2>1. Decided(OnRequest(m, p), static, match, walk, hs, hl)
      BY OnRequestCases, Zenon DEF norm, segs, static, match, walk, hs, hl
    <2>2. QED  BY <2>1 DEF Decided
  <1>3. \A i : i \in Fitting(p) <=> i \in DOMAIN routes /\ Matches(routes[i], segs)  BY Zenon DEF Fitting
  <1> HIDE DEF norm, segs, A, match
  <1>4. CASE static # {} /\ hs # 0
    <2>1. Handled(static, norm, m, hs)
      <3>1. static \subseteq Handlers(Seq(Tokens)) /\ TableTypes  BY DEF TableInv, TableTypes, Statics
      <3>2. QED  BY <3>1, HandlerOf
    <2>2. PICK e \in statics : e.key = norm /\ e.m = m
      <3> HIDE DEF hs
      <3>1. QED  BY <1>4, <2>1 DEF Handled, Same, Statics
    <2>3. e.h \in DOMAIN routes /\ routes[e.h].m = m /\ routes[e.h].segs = segs
      BY <2>2, Zenon DEF TableInv, StaticsFit, segs
    <2>4. Matches(routes[e.h], segs)  BY <2>3 DEF Matches
    <2>5. QED  BY <2>3, <2>4, <1>3
  <1>5. CASE static = {} /\ match.ok
    <2>1. LeafBelow(<<>>, segs, m)  BY <1>1, <1>5, MatchFinds DEF match
    <2>2. PICK e \in leaves : e.m = m /\ FitsBelow(e.key, <<>>, segs)  BY <2>1 DEF LeafBelow
    <2>3. Matches(routes[e.h], segs)  BY <2>2, <1>1, LeafMatches
    <2>4. e.h \in DOMAIN routes /\ routes[e.h].m = m  BY <2>2, Zenon DEF TableInv, LeavesFit
    <2>5. QED  BY <2>3, <2>4, <1>3
  <1>6. QED  BY <1>2, <1>4, <1>5

\* In a table in which no parameter competes for its place, the handler that
\* is called is the last one added for the route and the method that fit,
\* with each parameter bound to its segment, and there is a call exactly if
\* such a route is there: for any such table and any request.
THEOREM RightHandlerCalled == HttpSpec => []RightHandler
  <1>1. ASSUME TableInv, Unambiguous, NEW m \in Methods, NEW p \in RequestPaths
        PROVE  LET answer == OnRequest(m, p)
                   fit == {i \in Fitting(p) : routes[i].m = m}
                   segs == SplitPath(NormalizePath(p))
                   r == routes[answer.h].segs
               IN /\ fit # {} <=> answer.kind = "call"
                  /\ fit # {} => /\ answer.h = Max(fit)
                                 /\ answer.params = {<<r[i], segs[i]>> : i \in {i \in DOMAIN r :
                                      r[i] \in Params /\ \A j \in DOMAIN r : r[j] = r[i] => j <= i}}
    <2> DEFINE answer == OnRequest(m, p)
               fit == {i \in Fitting(p) : routes[i].m = m}
               segs == SplitPath(NormalizePath(p))
               r == routes[answer.h].segs
    <2>1. fit \in SUBSET Nat /\ \A i : i \in fit <=> i \in DOMAIN routes /\ Matches(routes[i], segs) /\ routes[i].m = m
      <3>1. \A i : i \in fit <=> i \in DOMAIN routes /\ Matches(routes[i], segs) /\ routes[i].m = m
        BY Zenon DEF Fitting
      <3>2. DOMAIN routes \subseteq Nat  BY <1>1 DEF TableInv, TableTypes
      <3>3. QED  BY <3>1, <3>2
    <2> HIDE DEF fit, answer
    <2>2. answer.kind = "call" => fit # {}
      <3>1. answer.kind = "call" => \E i \in Fitting(p) : routes[i].m = m  BY <1>1, CallsFit DEF answer
      <3>2. QED  BY <3>1 DEF fit
    <2>3. ASSUME fit # {}
          PROVE  /\ answer.kind = "call" /\ answer.h = Max(fit)
                 /\ answer.params = {<<r[i], segs[i]>> : i \in {i \in DOMAIN r :
                                      r[i] \in Params /\ \A j \in DOMAIN r : r[j] = r[i] => j <= i}}
      <3>1. PICK a \in DOMAIN routes : Matches(routes[a], segs) /\ routes[a].m = m  BY <2>1, <2>3
      <3> HIDE DEF segs
      <3>2. /\ answer.kind = "call" /\ answer.h \in DOMAIN routes
            /\ Matches(routes[answer.h], segs) /\ routes[answer.h].m = m
            /\ \A i \in DOMAIN routes : Matches(routes[i], segs) /\ routes[i].m = m => i <= answer.h
            /\ answer.params = BoundTo(routes[answer.h].segs, segs, Len(segs))
        BY <1>1, <3>1, RightAnswer DEF answer, segs
      <3>3. answer.h = Max(fit)
        <4>1. answer.h \in fit /\ \A i \in fit : i <= answer.h  BY <2>1, <3>2
        <4>2. QED  BY <4>1, <2>1, MaxOf
      <3>4. r \in Seq(Tokens) /\ Len(segs) = Len(r)  BY <1>1, <3>2, RouteOf DEF TableInv, Matches
      <3> HIDE DEF r
      <3>5. BoundTo(r, segs, Len(segs)) = {<<r[i], segs[i]>> : i \in {i \in DOMAIN r :
                                            r[i] \in Params /\ \A j \in DOMAIN r : r[j] = r[i] => j <= i}}
        BY <3>4, AllBound
      <3>6. QED  BY <3>2, <3>3, <3>5, Zenon DEF r
    <2>4. QED  BY <2>2, <2>3, Zenon DEF answer, fit
  <1>2. TableInv => RightHandler  BY <1>1, Zenon DEF RightHandler
  <1>3. QED  BY <1>2, TableInvariant, PTL
=====================================

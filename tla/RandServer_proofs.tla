-------------------------- MODULE RandServer_proofs --------------------------
(***************************************************************************)
(* Proofs about RandServer: its types, that accept never blocks, and that  *)
(* answers are fresh, for any number of clients, threads, descriptors and  *)
(* requests.                                                               *)
(***************************************************************************)
EXTENDS RandServer, FiniteSetTheorems, SequenceTheorems, TLAPS

\* mtx belongs to the thread in epoll_ctl and spin_mtx to the one in the
\* generator, so an event carries the descriptor it is about.
LockInv ==
  /\ \A t \in Threads : thread[t].pc = "put" <=> spin_mtx = t
  /\ \A t \in Threads : thread[t].pc = "add_ctl" <=> mtx = t
  /\ \A t \in Threads : thread[t].pc = "add_ctl" => ev = thread[t].fd
  /\ \A f \in registered : tag[f] = f
  /\ ready \subseteq registered \cup {Listener}

Accepting == {t \in Threads : thread[t].pc = "accept"}

Bit(b) == IF b THEN 1 ELSE 0

\* Every connection in the backlog has its event or its thread, but for those
\* counted as stranded.
AcceptInv ==
  /\ started => Len(backlog) = Cardinality(Accepting) + Bit(Listener \in evs) + Bit(Listener \in ready) + stranded
  /\ ~started => Listener \notin ready /\ Listener \notin evs /\ Accepting = {} /\ stranded = 0

\* A block is in one place: a thread that has left the generator, or a client.
BlockInv ==
  /\ \A t \in Threads : IF thread[t].pc = "put" THEN thread[t].buf = V + 1 ELSE thread[t].buf <= V
  /\ \A t, u \in Threads :
       t # u /\ thread[t].pc # "put" /\ thread[u].pc # "put" /\ thread[t].buf = thread[u].buf => thread[t].buf = 0
  /\ \A c \in Clients : \A b \in Blocks(c) : b <= V
  /\ \A t \in Threads, c \in Clients :
       thread[t].pc # "put" /\ thread[t].buf \in Blocks(c) => thread[t].buf = 0
  /\ \A c, d \in Clients : c # d => Blocks(c) \cap Blocks(d) \subseteq {0}

Waits(c) == \E i \in DOMAIN backlog : backlog[i] = c

\* A connection is in one place.
PlaceInv ==
  /\ \A f, g \in Fds : fdtable[f] = fdtable[g] /\ fdtable[f] # None => f = g
  /\ \A i, j \in DOMAIN backlog : backlog[i] = backlog[j] => i = j
  /\ \A f \in Fds, c \in Clients : fdtable[f] = c => ~Waits(c)
  /\ \A c \in Clients : cpc[c] = "new" => ~Waits(c) /\ \A f \in Fds : fdtable[f] # c

\* As long as no descriptor was closed under a thread: a number that is free,
\* or not yet in the epoll instance, is carried by nobody else.
CarryInv ==
  /\ \A f \in Fds : fdtable[f] = None =>
       f \notin evs /\ f \notin registered /\ \A t \in Threads : thread[t].fd # f
  /\ \A t \in Threads : thread[t].pc \in {"add", "add_ctl"} =>
       /\ thread[t].fd \notin registered /\ thread[t].fd \notin evs
       /\ \A u \in Threads \ {t} : thread[u].fd # thread[t].fd

\* A connection whose client is there has one thread or one event at most,
\* and that one has something to read or a block to send.
StepAt(f, c) ==
  /\ \A t, u \in Threads : thread[t].fd = f /\ thread[u].fd = f => t = u
  /\ f \in evs => units[c] > 0 /\ \A t \in Threads : thread[t].fd # f
  /\ f \in ready /\ units[c] > 0 => f \notin evs /\ \A t \in Threads : thread[t].fd # f
  /\ \A t \in Threads : thread[t].fd = f =>
       /\ thread[t].pc \notin {"del", "close"}
       /\ thread[t].pc = "recv" /\ thread[t].buf = 0 => units[c] > 0
       /\ thread[t].pc = "send" => thread[t].buf # 0 /\ units[c] = 0
       /\ thread[t].pc \in {"recv", "gen", "put", "send"} => cpc[c] = "wait" /\ answers[c] = <<>>

HasClient(f) == fdtable[f] # None /\ peer[fdtable[f]] = "open"

StepInv == \A f \in Fds : HasClient(f) => StepAt(f, fdtable[f])

\* What a client may find, and the end of its connection.
ClientInv ==
  \A c \in Clients :
    /\ 0 \notin Blocks(c)
    /\ peer[c] = "open" <=> cpc[c] # "closed"
    /\ answers[c] # <<>> => Len(answers[c]) = 1 /\ cpc[c] = "wait" /\ units[c] = 0
    /\ cpc[c] \in {"new", "idle"} => units[c] = 0
    /\ c \in cut => cpc[c] = "closed"

Lockstep == ~strayed => CarryInv /\ StepInv /\ ClientInv

-----------------------------------------------------------------------------
USE DEF Listener

\* The steps, one by one: for every lemma about a step.
Step ==
  \/ \E c \in Clients : Connect(c) \/ ClientRecv(c) \/ ClientClose(c) \/ ClientCut(c)
  \/ \E c \in Clients, n \in Lengths : ClientSend(c, n)
  \/ Start \/ EpollWait
  \/ \E fd \in evs : CreateFails(fd)
  \/ \E fd \in evs, t \in Threads : Create(t, fd)
  \/ \E t \in Threads :
       \/ Accept(t) \/ AddLock(t) \/ AddCtl(t)
       \/ Recv(t) \/ Generate(t) \/ Generated(t) \/ GenerateFails(t)
       \/ Send(t) \/ Del(t) \/ Close(t)

\* Next takes one of the steps.
LEMMA NextIsStep == Next => Step
  BY DEF Next, Step, Main, Client, Thread

ThreadType == [pc : Pcs, fd : Fds \cup {0}, buf : Nat]
Sound(r) == r.fd = 0 <=> r.pc \in {"idle", "accept"}

\* One thread changes.
LEMMA OneThread ==
  ASSUME TypeOK, NEW t \in Threads, NEW r \in ThreadType, Sound(r), thread' = [thread EXCEPT ![t] = r]
  PROVE  thread' \in [Threads -> ThreadType] /\ \A u \in Threads : Sound(thread'[u])
  BY DEF TypeOK, ThreadType, Sound

\* A thread that goes on, within a function, keeps its descriptor.
LEMMA GoesType ==
  ASSUME TypeOK, NEW t \in Threads, NEW p \in Pcs \ {"idle", "accept"}, thread[t].pc \notin {"idle", "accept"}, Goes(t, p)
  PROVE  thread' \in [Threads -> ThreadType] /\ \A u \in Threads : Sound(thread'[u])
<1> DEFINE r == [pc |-> p, fd |-> thread[t].fd, buf |-> thread[t].buf]
<1>1. thread \in [Threads -> ThreadType] /\ thread[t] \in ThreadType
  BY DEF TypeOK, ThreadType
<1>2. [thread[t] EXCEPT !.pc = p] = r /\ r \in ThreadType
  BY <1>1 DEF ThreadType
<1>3. thread' = [thread EXCEPT ![t] = r]
  BY <1>2 DEF Goes
<1>4. Sound(r)
  BY DEF TypeOK, Sound, Pcs
<1> HIDE DEF r
<1> QED
  BY <1>2, <1>3, <1>4, OneThread

\* A thread that ends.
LEMMA EndsType ==
  ASSUME TypeOK, NEW t \in Threads, Ends(t)
  PROVE  thread' \in [Threads -> ThreadType] /\ \A u \in Threads : Sound(thread'[u])
<1>1. NoThread \in ThreadType /\ Sound(NoThread)
  BY DEF NoThread, ThreadType, Sound, Pcs
<1> QED
  BY <1>1, OneThread DEF Ends

\* Types are kept.
LEMMA TypeStep == TypeOK /\ Step => TypeOK'
<1> SUFFICES ASSUME TypeOK, Step PROVE TypeOK'
  OBVIOUS
<1> USE RandAssumption
<1>0. /\ NoThread \in [pc : Pcs, fd : Fds \cup {0}, buf : Nat]
      /\ NoThread.fd = 0 /\ NoThread.pc = "idle"
  BY DEF NoThread, Pcs
<1>1. ASSUME NEW c \in Clients, Connect(c) PROVE TypeOK'
  BY <1>1 DEF Connect, TypeOK, net, main, locks
<1>2. ASSUME NEW c \in Clients, ClientRecv(c) PROVE TypeOK'
  BY <1>2 DEF ClientRecv, TypeOK, epoll, main, locks, history
<1>3. ASSUME NEW c \in Clients, ClientClose(c) PROVE TypeOK'
  BY <1>3 DEF ClientClose, TypeOK, main, locks, history, Edge
<1>4. ASSUME NEW c \in Clients, ClientCut(c) PROVE TypeOK'
  BY <1>4 DEF ClientCut, TypeOK, net, epoll, main, locks, history
<1>5. ASSUME NEW c \in Clients, NEW n \in Lengths, ClientSend(c, n) PROVE TypeOK'
  BY <1>5 DEF ClientSend, TypeOK, main, locks, history, Edge
<1>6. CASE Start
  BY <1>6 DEF Start, TypeOK, clients, net, locks
<1>7. CASE EpollWait
  <2>1. evs' \subseteq Fds \cup {Listener}
    BY <1>7 DEF EpollWait, TypeOK
  <2>2. ready' = {} /\ UNCHANGED <<clients, net, backlog, fdtable, registered, tag, started, thread, locks, alive, history, faults>>
    BY <1>7 DEF EpollWait
  <2> QED
    BY <2>1, <2>2 DEF TypeOK, clients, net, locks, history
<1>8. ASSUME NEW fd \in evs, CreateFails(fd) PROVE TypeOK'
  <2>1. fd # Listener => fdtable[fd] \in Clients \cup {None}
    BY DEF TypeOK
  <2> QED
    BY <1>8, <2>1 DEF CreateFails, Fault, TypeOK, clients, net, epoll, locks
<1>9. ASSUME NEW fd \in evs, NEW t \in Threads, Create(t, fd) PROVE TypeOK'
  BY <1>9 DEF Create, TypeOK, Pcs, clients, net, epoll, locks, history
<1>10. ASSUME NEW t \in Threads, Accept(t) PROVE TypeOK'
  <2>1. CASE \E f \in FreeFds :
               /\ fdtable' = [fdtable EXCEPT ![f] = Head(backlog)]
               /\ thread' = [thread EXCEPT ![t] = [pc |-> "add", fd |-> f, buf |-> 0]]
               /\ backlog' = Tail(backlog)
               /\ UNCHANGED <<stranded, faults>>
    <3> PICK f \in FreeFds :
               /\ fdtable' = [fdtable EXCEPT ![f] = Head(backlog)]
               /\ thread' = [thread EXCEPT ![t] = [pc |-> "add", fd |-> f, buf |-> 0]]
               /\ backlog' = Tail(backlog)
               /\ UNCHANGED <<stranded, faults>>
      BY <2>1
    <3>1. f \in Fds /\ f # 0
      BY DEF FreeFds, Fds
    <3>2. [pc |-> "add", fd |-> f, buf |-> 0] \in ThreadType /\ Sound([pc |-> "add", fd |-> f, buf |-> 0])
      BY <3>1 DEF ThreadType, Sound, Pcs
    <3>3. thread' \in [Threads -> ThreadType] /\ \A u \in Threads : Sound(thread'[u])
      BY <3>2, OneThread
    <3>4. Head(backlog) \in Clients /\ Tail(backlog) \in Seq(Clients)
      BY <1>10 DEF Accept, TypeOK
    <3> QED
      BY <1>10, <3>1, <3>3, <3>4 DEF Accept, TypeOK, ThreadType, Sound, clients, net, main, locks
  <2>2. CASE Ends(t) /\ (UNCHANGED faults \/ Fault) /\ stranded' = stranded + 1 /\ UNCHANGED <<fdtable, backlog>>
    <3>1. thread' \in [Threads -> ThreadType] /\ \A u \in Threads : Sound(thread'[u])
      BY <2>2, EndsType
    <3>2. faults' \in 0 .. MaxFaults /\ stranded' \in Nat
      BY <2>2 DEF Fault, TypeOK
    <3> QED
      BY <1>10, <2>2, <3>1, <3>2 DEF Accept, TypeOK, ThreadType, Sound, clients, net, main, locks
  <2> QED
    BY <1>10, <2>1, <2>2 DEF Accept
<1>11. ASSUME NEW t \in Threads, AddLock(t) PROVE TypeOK'
  <2>1. thread' \in [Threads -> ThreadType] /\ \A u \in Threads : Sound(thread'[u])
    BY <1>11, GoesType DEF AddLock, Pcs
  <2> QED
    BY <1>11, <2>1 DEF AddLock, TypeOK, ThreadType, Sound, clients, net, epoll, main, history
<1>12. ASSUME NEW t \in Threads, AddCtl(t) PROVE TypeOK'
  <2>1. thread' \in [Threads -> ThreadType] /\ \A u \in Threads : Sound(thread'[u])
    BY <1>12, EndsType DEF AddCtl
  <2>2. thread[t].fd \in Fds
    BY <1>12 DEF AddCtl, TypeOK
  <2>3. registered' \subseteq Fds /\ tag' \in [Fds -> Fds \cup {0}] /\ ready' \subseteq Fds \cup {Listener}
    <3>1. CASE fdtable[thread[t].fd] = None \/ thread[t].fd \in registered
      BY <1>12, <3>1 DEF AddCtl, TypeOK
    <3>2. CASE ~(fdtable[thread[t].fd] = None \/ thread[t].fd \in registered)
      <4>1. registered' = registered \cup {thread[t].fd} /\ tag' = [tag EXCEPT ![thread[t].fd] = ev]
        BY <1>12, <3>2 DEF AddCtl
      <4>2. ready' = ready \cup {thread[t].fd} \/ ready' = ready
        BY <1>12, <3>2 DEF AddCtl
      <4> QED
        BY <2>2, <4>1, <4>2 DEF TypeOK
    <3> QED
      BY <3>1, <3>2
  <2> QED
    BY <1>12, <2>1, <2>3 DEF AddCtl, TypeOK, ThreadType, Sound, clients, net, main, history
<1>13. ASSUME NEW t \in Threads, Recv(t) PROVE TypeOK'
  <2>1. thread[t].fd \in Fds /\ fdtable[thread[t].fd] \in Clients \cup {None}
    BY <1>13 DEF Recv, TypeOK
  <2>2. Goes(t, "close") \/ Goes(t, "gen") \/ Goes(t, "send") \/ Goes(t, "del")
    BY <1>13 DEF Recv
  <2>3. thread' \in [Threads -> ThreadType] /\ \A u \in Threads : Sound(thread'[u])
    BY <1>13, <2>2, GoesType DEF Recv, Pcs
  <2>4. units' \in [Clients -> Nat]
    <3>1. CASE UNCHANGED units
      BY <3>1 DEF TypeOK
    <3>2. CASE fdtable[thread[t].fd] # None
               /\ units' = [units EXCEPT ![fdtable[thread[t].fd]] = IF @ > RecvMax THEN @ - RecvMax ELSE 0]
      BY <2>1, <3>2 DEF TypeOK
    <3> QED
      BY <1>13, <3>1, <3>2 DEF Recv
  <2> QED
    BY <1>13, <2>3, <2>4 DEF Recv, TypeOK, ThreadType, Sound, clients, epoll, main, locks, history
<1>14. ASSUME NEW t \in Threads, Generate(t) PROVE TypeOK'
  <2>1. thread' \in [Threads -> ThreadType] /\ \A u \in Threads : Sound(thread'[u])
    <3> DEFINE r == [pc |-> "put", fd |-> thread[t].fd, buf |-> V + 1]
    <3>1. thread[t] \in ThreadType /\ thread[t].pc = "gen" /\ V + 1 \in Nat
      BY <1>14 DEF Generate, TypeOK, ThreadType
    <3>4. thread[t].fd # 0
      BY <1>14, <3>1 DEF TypeOK
    <3>2. r \in ThreadType /\ Sound(r)
      BY <3>1, <3>4 DEF ThreadType, Sound, Pcs
    <3>3. thread' = [thread EXCEPT ![t] = r]
      BY <1>14 DEF Generate
    <3> QED
      BY <3>2, <3>3, OneThread
  <2> QED
    BY <1>14, <2>1 DEF Generate, TypeOK, ThreadType, Sound, clients, net, epoll, main, history
<1>15. ASSUME NEW t \in Threads, Generated(t) PROVE TypeOK'
  <2>1. thread' \in [Threads -> ThreadType] /\ \A u \in Threads : Sound(thread'[u])
    BY <1>15, GoesType DEF Generated, Pcs
  <2> QED
    BY <1>15, <2>1 DEF Generated, TypeOK, ThreadType, Sound, clients, net, epoll, main, history
<1>16. ASSUME NEW t \in Threads, GenerateFails(t) PROVE TypeOK'
  <2>1. thread' \in [Threads -> ThreadType] /\ \A u \in Threads : Sound(thread'[u])
    BY <1>16, EndsType DEF GenerateFails
  <2>2. fdtable[thread[t].fd] \in Clients \cup {None}
    BY <1>16 DEF GenerateFails, TypeOK
  <2> QED
    BY <1>16, <2>1, <2>2 DEF GenerateFails, Fault, TypeOK, ThreadType, Sound, clients, net, epoll, main, locks
<1>17. ASSUME NEW t \in Threads, Send(t) PROVE TypeOK'
  <2>1. thread' \in [Threads -> ThreadType] /\ \A u \in Threads : Sound(thread'[u])
    BY <1>17, EndsType DEF Send
  <2>2. thread[t].fd \in Fds /\ fdtable[thread[t].fd] \in Clients \cup {None} /\ thread[t].buf \in Nat
    BY <1>17 DEF Send, TypeOK
  <2>3. /\ answers' \in [Clients -> Seq(Nat)] /\ peer' \in [Clients -> {"open", "fin", "rst"}]
        /\ ready' \subseteq Fds \cup {Listener} /\ alive' \in BOOLEAN
    <3>1. answers' \in [Clients -> Seq(Nat)]
      <4>1. \/ UNCHANGED answers
            \/ fdtable[thread[t].fd] # None
               /\ answers' = [answers EXCEPT ![fdtable[thread[t].fd]] = Append(@, thread[t].buf)]
        BY <1>17 DEF Send
      <4>2. ASSUME NEW c \in Clients, answers' = [answers EXCEPT ![c] = Append(@, thread[t].buf)]
            PROVE  answers' \in [Clients -> Seq(Nat)]
        <5>1. Append(answers[c], thread[t].buf) \in Seq(Nat)
          BY <2>2 DEF TypeOK
        <5> QED
          BY <4>2, <5>1 DEF TypeOK
      <4> QED
        BY <2>2, <4>1, <4>2 DEF TypeOK
    <3>2. peer' \in [Clients -> {"open", "fin", "rst"}]
      <4>1. UNCHANGED peer \/ peer' = [peer EXCEPT ![fdtable[thread[t].fd]] = "rst"]
        BY <1>17 DEF Send
      <4> QED
        BY <4>1 DEF TypeOK
    <3>3. ready' \subseteq Fds \cup {Listener} /\ alive' \in BOOLEAN
      BY <1>17, <2>2 DEF Send, TypeOK, Edge
    <3> QED
      BY <3>1, <3>2, <3>3
  <2> QED
    BY <1>17, <2>1, <2>3 DEF Send, TypeOK, ThreadType, Sound, clients, main, locks, history
<1>18. ASSUME NEW t \in Threads, Del(t) PROVE TypeOK'
  <2>1. thread' \in [Threads -> ThreadType] /\ \A u \in Threads : Sound(thread'[u])
    BY <1>18, GoesType DEF Del, Pcs
  <2> QED
    BY <1>18, <2>1 DEF Del, TypeOK, ThreadType, Sound, clients, net, main, locks, history
<1>19. ASSUME NEW t \in Threads, Close(t) PROVE TypeOK'
  <2>1. thread' \in [Threads -> ThreadType] /\ \A u \in Threads : Sound(thread'[u])
    BY <1>19, EndsType DEF Close
  <2>2. thread[t].fd \in Fds /\ fdtable[thread[t].fd] \in Clients \cup {None}
    BY <1>19 DEF Close, TypeOK
  <2>3. /\ fdtable' \in [Fds -> Clients \cup {None}] /\ tag' \in [Fds -> Fds \cup {0}]
        /\ units' \in [Clients -> Nat] /\ cut' \subseteq Clients /\ strayed' \in BOOLEAN
        /\ registered' \subseteq Fds /\ ready' \subseteq Fds \cup {Listener}
    BY <1>19, <2>2 DEF Close, TypeOK
  <2> QED
    BY <1>19, <2>1, <2>3 DEF Close, TypeOK, ThreadType, Sound, clients, main, locks
<1> QED
  BY <1>1, <1>2, <1>3, <1>4, <1>5, <1>6, <1>7, <1>8, <1>9, <1>10, <1>11, <1>12, <1>13, <1>14, <1>15, <1>16, <1>17, <1>18, <1>19 DEF Step

\* What a step of one thread does to the threads.
LEMMA AfterEnds ==
  ASSUME TypeOK, NEW t \in Threads, Ends(t)
  PROVE  /\ thread'[t] = NoThread
         /\ \A u \in Threads \ {t} : thread'[u] = thread[u]
  BY DEF TypeOK, Ends

\* A thread that goes on keeps its descriptor and its block.
LEMMA AfterGoes ==
  ASSUME TypeOK, NEW t \in Threads, NEW p, Goes(t, p)
  PROVE  /\ thread'[t].pc = p /\ thread'[t].fd = thread[t].fd /\ thread'[t].buf = thread[t].buf
         /\ \A u \in Threads \ {t} : thread'[u] = thread[u]
  BY DEF TypeOK, Goes

\* Where recv leaves a thread.
LEMMA AfterRecv ==
  ASSUME TypeOK, NEW t \in Threads, Recv(t)
  PROVE  /\ thread'[t].pc \in {"close", "gen", "send", "del"} /\ thread'[t].fd = thread[t].fd
         /\ thread'[t].buf = thread[t].buf
         /\ \A u \in Threads \ {t} : thread'[u] = thread[u]
<1>1. Goes(t, "close") \/ Goes(t, "gen") \/ Goes(t, "send") \/ Goes(t, "del")
  BY DEF Recv
<1> QED
  BY <1>1, AfterGoes

\* A thread in accept has a connection to register, or ends.
LEMMA AfterAccept ==
  ASSUME TypeOK, NEW t \in Threads, Accept(t)
  PROVE  /\ thread'[t].pc \in {"add", "idle"} /\ thread'[t].buf = 0
         /\ \A u \in Threads \ {t} : thread'[u] = thread[u]
<1>1. CASE Ends(t)
  BY <1>1, AfterEnds DEF NoThread
<1>2. CASE \E f \in FreeFds : thread' = [thread EXCEPT ![t] = [pc |-> "add", fd |-> f, buf |-> 0]]
  BY <1>2 DEF TypeOK
<1> QED
  BY <1>1, <1>2 DEF Accept

\* A new thread starts in the function for its event, with an empty sendbuf.
LEMMA AfterCreate ==
  ASSUME TypeOK, NEW t \in Threads, NEW fd \in evs, Create(t, fd)
  PROVE  /\ thread'[t].pc = (IF fd = Listener THEN "accept" ELSE "recv") /\ thread'[t].fd = fd /\ thread'[t].buf = 0
         /\ thread[t].pc = "idle"
         /\ \A u \in Threads \ {t} : thread'[u] = thread[u]
<1>1. fd \in Fds \cup {0} /\ thread[t].pc = "idle"
  BY DEF TypeOK, Create, IsNew
<1> QED
  BY <1>1 DEF TypeOK, Create

\* A thread in the generator holds the block after V.
LEMMA AfterGenerate ==
  ASSUME TypeOK, NEW t \in Threads, Generate(t)
  PROVE  /\ thread'[t].pc = "put" /\ thread'[t].fd = thread[t].fd /\ thread'[t].buf = V + 1
         /\ \A u \in Threads \ {t} : thread'[u] = thread[u]
  BY DEF TypeOK, Generate

\* 0, the free lock, is no thread.
LEMMA ThreadNotZero == \A t \in Threads : t # 0
  BY DEF Threads

\* Locks are kept.
LEMMA LockStep == TypeOK /\ LockInv /\ Step => LockInv'
<1> SUFFICES ASSUME TypeOK, LockInv, Step PROVE LockInv'
  OBVIOUS
<1> USE RandAssumption, ThreadNotZero
<1>1. ASSUME NEW c \in Clients, Connect(c) PROVE LockInv'
  BY <1>1 DEF Connect, LockInv, locks
<1>2. ASSUME NEW c \in Clients, ClientRecv(c) PROVE LockInv'
  BY <1>2 DEF ClientRecv, LockInv, epoll, locks
<1>3. ASSUME NEW c \in Clients, ClientClose(c) PROVE LockInv'
  BY <1>3 DEF ClientClose, LockInv, locks, Edge
<1>4. ASSUME NEW c \in Clients, ClientCut(c) PROVE LockInv'
  BY <1>4 DEF ClientCut, LockInv, epoll, locks
<1>5. ASSUME NEW c \in Clients, NEW n \in Lengths, ClientSend(c, n) PROVE LockInv'
  BY <1>5 DEF ClientSend, LockInv, locks, Edge
<1>6. CASE Start
  BY <1>6 DEF Start, LockInv, locks
<1>7. CASE EpollWait
  BY <1>7 DEF EpollWait, LockInv, locks
<1>8. ASSUME NEW fd \in evs, CreateFails(fd) PROVE LockInv'
  BY <1>8 DEF CreateFails, LockInv, epoll, locks
<1>9. ASSUME NEW fd \in evs, NEW t \in Threads, Create(t, fd) PROVE LockInv'
  <2>1. thread'[t].pc \in {"accept", "recv"} /\ thread[t].pc = "idle" /\ \A u \in Threads \ {t} : thread'[u] = thread[u]
    BY <1>9, AfterCreate
  <2> QED
    BY <1>9, <2>1 DEF Create, LockInv, epoll, locks
<1>10. ASSUME NEW t \in Threads, Accept(t) PROVE LockInv'
  BY <1>10, AfterAccept DEF Accept, LockInv, locks
<1>11. ASSUME NEW t \in Threads, AddLock(t) PROVE LockInv'
  <2>1. thread'[t].pc = "add_ctl" /\ thread'[t].fd = thread[t].fd /\ \A u \in Threads \ {t} : thread'[u] = thread[u]
    BY <1>11, AfterGoes DEF AddLock
  <2> QED
    BY <1>11, <2>1 DEF AddLock, LockInv, epoll
<1>12. ASSUME NEW t \in Threads, AddCtl(t) PROVE LockInv'
  <2>1. thread'[t].pc = "idle" /\ \A u \in Threads \ {t} : thread'[u] = thread[u]
    <3>1. Ends(t)
      BY <1>12 DEF AddCtl
    <3> QED
      BY <3>1, AfterEnds DEF NoThread
  <2>2. thread[t].fd \in Fds /\ ev = thread[t].fd
    BY <1>12 DEF AddCtl, TypeOK, LockInv
  <2>3. (\A f \in registered' : tag'[f] = f) /\ ready' \subseteq registered' \cup {Listener}
    <3>1. CASE fdtable[thread[t].fd] = None \/ thread[t].fd \in registered
      BY <1>12, <3>1 DEF AddCtl, LockInv
    <3>2. CASE ~(fdtable[thread[t].fd] = None \/ thread[t].fd \in registered)
      <4>1. registered' = registered \cup {thread[t].fd} /\ tag' = [tag EXCEPT ![thread[t].fd] = ev]
        BY <1>12, <3>2 DEF AddCtl
      <4>2. ready' = ready \cup {thread[t].fd} \/ ready' = ready
        BY <1>12, <3>2 DEF AddCtl
      <4> QED
        BY <2>2, <4>1, <4>2 DEF LockInv, TypeOK
    <3> QED
      BY <3>1, <3>2
  <2> QED
    BY <1>12, <2>1, <2>3 DEF AddCtl, LockInv
<1>13. ASSUME NEW t \in Threads, Recv(t) PROVE LockInv'
  <2>1. /\ thread[t].pc = "recv" /\ thread'[t].pc \in {"close", "gen", "send", "del"}
        /\ \A u \in Threads \ {t} : thread'[u] = thread[u]
    BY <1>13, AfterRecv DEF Recv
  <2>2. UNCHANGED <<mtx, ev, spin_mtx, registered, tag, ready>>
    BY <1>13 DEF Recv, epoll, locks
  <2> QED
    BY <2>1, <2>2 DEF LockInv
<1>14. ASSUME NEW t \in Threads, Generate(t) PROVE LockInv'
  <2>1. thread'[t].pc = "put" /\ \A u \in Threads \ {t} : thread'[u] = thread[u]
    BY <1>14, AfterGenerate
  <2> QED
    BY <1>14, <2>1 DEF Generate, LockInv, epoll
<1>15. ASSUME NEW t \in Threads, Generated(t) PROVE LockInv'
  <2>1. thread'[t].pc = "recv" /\ thread'[t].fd = thread[t].fd /\ \A u \in Threads \ {t} : thread'[u] = thread[u]
    BY <1>15, AfterGoes DEF Generated
  <2> QED
    BY <1>15, <2>1 DEF Generated, LockInv, epoll
<1>16. ASSUME NEW t \in Threads, GenerateFails(t) PROVE LockInv'
  BY <1>16, AfterEnds DEF GenerateFails, LockInv, epoll, locks, NoThread
<1>17. ASSUME NEW t \in Threads, Send(t) PROVE LockInv'
  <2>1. thread'[t].pc = "idle" /\ \A u \in Threads \ {t} : thread'[u] = thread[u]
    <3>1. Ends(t)
      BY <1>17 DEF Send
    <3> QED
      BY <3>1, AfterEnds DEF NoThread
  <2>2. ready' \subseteq registered \cup {Listener}
    BY <1>17 DEF Send, LockInv, Edge
  <2> QED
    BY <1>17, <2>1, <2>2 DEF Send, LockInv, locks
<1>18. ASSUME NEW t \in Threads, Del(t) PROVE LockInv'
  <2>1. thread'[t].pc = "close" /\ thread'[t].fd = thread[t].fd /\ \A u \in Threads \ {t} : thread'[u] = thread[u]
    BY <1>18, AfterGoes DEF Del
  <2>2. UNCHANGED <<mtx, ev, spin_mtx>> /\ thread[t].pc = "del" /\ thread[t].fd \in Fds
    BY <1>18 DEF Del, locks, TypeOK
  <2>3. (\A f \in registered' : tag'[f] = f) /\ ready' \subseteq registered' \cup {Listener}
    BY <1>18 DEF Del, LockInv, TypeOK
  <2> QED
    BY <2>1, <2>2, <2>3 DEF LockInv
<1>19. ASSUME NEW t \in Threads, Close(t) PROVE LockInv'
  <2>1. thread'[t].pc = "idle" /\ \A u \in Threads \ {t} : thread'[u] = thread[u]
    <3>1. Ends(t)
      BY <1>19 DEF Close
    <3> QED
      BY <3>1, AfterEnds DEF NoThread
  <2>2. (\A f \in registered' : tag'[f] = f) /\ ready' \subseteq registered' \cup {Listener}
    BY <1>19 DEF Close, LockInv, TypeOK
  <2> QED
    BY <1>19, <2>1, <2>2 DEF Close, LockInv, locks
<1> QED
  BY <1>1, <1>2, <1>3, <1>4, <1>5, <1>6, <1>7, <1>8, <1>9, <1>10, <1>11, <1>12, <1>13, <1>14, <1>15, <1>16, <1>17, <1>18, <1>19 DEF Step

\* The threads in accept can be counted.
LEMMA AcceptingFinite == IsFiniteSet(Accepting) /\ Cardinality(Accepting) \in Nat
<1>1. IsFiniteSet(Threads)
  BY RandAssumption, FS_Interval DEF Threads
<1>2. Accepting \subseteq Threads
  BY DEF Accepting
<1>3. IsFiniteSet(Accepting)
  BY <1>1, <1>2, FS_Subset
<1> QED
  BY <1>3, FS_CardinalityType

\* A step that touches neither the listener nor the threads in accept.
LEMMA AcceptSame ==
  ASSUME AcceptInv, Accepting' = Accepting, Listener \in ready' <=> Listener \in ready,
         Listener \in evs' <=> Listener \in evs, UNCHANGED <<started, backlog, stranded>>
  PROVE  AcceptInv'
  BY DEF AcceptInv, Bit

\* Every step keeps the count of connections in the backlog.
LEMMA AcceptStep == TypeOK /\ LockInv /\ AcceptInv /\ Step => AcceptInv'
<1> SUFFICES ASSUME TypeOK, LockInv, AcceptInv, Step PROVE AcceptInv'
  OBVIOUS
<1> USE RandAssumption
<1>a. Listener \notin registered
  BY DEF TypeOK, Fds
<1>b. ASSUME NEW t \in Threads, thread[t].pc # "accept", thread'[t].pc # "accept",
             \A u \in Threads \ {t} : thread'[u] = thread[u]
      PROVE  Accepting' = Accepting
  BY <1>b DEF Accepting
<1>1. ASSUME NEW c \in Clients, Connect(c) PROVE AcceptInv'
  <2>1. Accepting' = Accepting /\ Len(backlog') = Len(backlog) + 1 /\ UNCHANGED <<started, evs>>
    <3>1. Accepting' = Accepting /\ UNCHANGED <<started, evs>> /\ backlog' = Append(backlog, c)
      BY <1>1 DEF Connect, Accepting, main
    <3>2. backlog \in Seq(Clients)
      BY DEF TypeOK
    <3> QED
      BY <3>1, <3>2
  <2>2. Len(backlog) \in Nat /\ stranded \in Nat
    BY DEF TypeOK
  <2>3. CASE ~started
    BY <1>1, <2>1, <2>3 DEF Connect, AcceptInv
  <2>4. CASE started /\ Listener \in ready
    <3>1. stranded' = stranded + 1 /\ Listener \in ready' /\ started'
      BY <1>1, <2>1, <2>4 DEF Connect
    <3> QED
      BY <2>1, <2>2, <2>4, <3>1, AcceptingFinite DEF AcceptInv, Bit
  <2>5. CASE started /\ Listener \notin ready
    <3>1. stranded' = stranded /\ Listener \in ready' /\ started'
      BY <1>1, <2>1, <2>5 DEF Connect
    <3> QED
      BY <2>1, <2>2, <2>5, <3>1, AcceptingFinite DEF AcceptInv, Bit
  <2> QED
    BY <2>3, <2>4, <2>5
<1>2. ASSUME NEW c \in Clients, ClientRecv(c) PROVE AcceptInv'
  BY <1>2, AcceptSame DEF ClientRecv, Accepting, epoll, main, history
<1>3. ASSUME NEW c \in Clients, ClientClose(c) PROVE AcceptInv'
  BY <1>3, <1>a, AcceptSame DEF ClientClose, Accepting, main, history, Edge
<1>4. ASSUME NEW c \in Clients, ClientCut(c) PROVE AcceptInv'
  BY <1>4, AcceptSame DEF ClientCut, Accepting, epoll, main, history
<1>5. ASSUME NEW c \in Clients, NEW n \in Lengths, ClientSend(c, n) PROVE AcceptInv'
  BY <1>5, <1>a, AcceptSame DEF ClientSend, Accepting, main, history, Edge
<1>6. CASE Start
  <2>1. Accepting' = Accepting /\ Accepting = {} /\ Listener \notin evs'
    BY <1>6 DEF Start, AcceptInv, Accepting
  <2>2. Cardinality(Accepting') = 0
    BY <2>1, FS_EmptySet
  <2>3. CASE backlog = <<>>
    BY <1>6, <2>1, <2>2, <2>3 DEF Start, AcceptInv, Bit
  <2>4. CASE backlog # <<>>
    <3>1. Len(backlog) \in Nat \ {0}
      BY <2>4 DEF TypeOK
    <3> QED
      BY <1>6, <2>1, <2>2, <2>4, <3>1 DEF Start, AcceptInv, Bit
  <2> QED
    BY <2>3, <2>4
<1>7. CASE EpollWait
  <2>1. Accepting' = Accepting /\ UNCHANGED <<started, backlog, stranded>>
    BY <1>7 DEF EpollWait, Accepting, history
  <2>2. \A f \in ready \cap registered : tag[f] # Listener
    BY <1>a DEF LockInv
  <2>3. Listener \in evs' <=> Listener \in ready
    BY <1>7, <2>2 DEF EpollWait
  <2>4. started /\ Listener \notin evs /\ Listener \notin ready'
    BY <1>7 DEF EpollWait
  <2>5. Len(backlog) \in Nat /\ stranded \in Nat
    BY DEF TypeOK
  <2> QED
    BY <2>1, <2>3, <2>4, <2>5, AcceptingFinite DEF AcceptInv, Bit
<1>8. ASSUME NEW fd \in evs, CreateFails(fd) PROVE AcceptInv'
  <2>1. Accepting' = Accepting /\ UNCHANGED <<started, backlog, ready>>
    BY <1>8 DEF CreateFails, Accepting, epoll
  <2>2. Len(backlog) \in Nat /\ stranded \in Nat
    BY DEF TypeOK
  <2>3. CASE fd = Listener
    <3>1. started /\ stranded' = stranded + 1 /\ Listener \notin evs' /\ Listener \in evs
      BY <1>8, <2>3 DEF CreateFails, AcceptInv
    <3> QED
      BY <2>1, <2>2, <3>1, AcceptingFinite DEF AcceptInv, Bit
  <2>4. CASE fd # Listener
    BY <1>8, <2>1, <2>4, AcceptSame DEF CreateFails
  <2> QED
    BY <2>3, <2>4
<1>9. ASSUME NEW fd \in evs, NEW t \in Threads, Create(t, fd) PROVE AcceptInv'
  <2>1. UNCHANGED <<started, backlog, ready, stranded>> /\ evs' = evs \ {fd}
    BY <1>9 DEF Create, epoll, history
  <2>2. Len(backlog) \in Nat /\ stranded \in Nat
    BY DEF TypeOK
  <2>3. CASE fd = Listener
    <3>1. Accepting' = Accepting \cup {t} /\ t \notin Accepting
      BY <1>9, <2>3, AfterCreate DEF Accepting
    <3>2. Cardinality(Accepting') = Cardinality(Accepting) + 1
      BY <3>1, AcceptingFinite, FS_AddElement
    <3>3. started
      BY <2>3 DEF AcceptInv
    <3> QED
      BY <2>1, <2>2, <2>3, <3>2, <3>3, AcceptingFinite DEF AcceptInv, Bit
  <2>4. CASE fd # Listener
    <3>1. Accepting' = Accepting
      BY <1>9, <2>4, <1>b, AfterCreate
    <3> QED
      BY <2>1, <2>4, <3>1, AcceptSame
  <2> QED
    BY <2>3, <2>4
<1>10. ASSUME NEW t \in Threads, Accept(t) PROVE AcceptInv'
  <2>1. UNCHANGED <<started, evs, ready>>
    BY <1>10 DEF Accept, main
  <2>2. Len(backlog) \in Nat \ {0} /\ stranded \in Nat
    BY <1>10 DEF Accept, TypeOK
  <2>3. Accepting' = Accepting \ {t} /\ t \in Accepting
    BY <1>10, AfterAccept DEF Accept, Accepting
  <2>4. Cardinality(Accepting') = Cardinality(Accepting) - 1
    BY <2>3, AcceptingFinite, FS_RemoveElement
  <2>5. started
    BY <2>3 DEF AcceptInv
  <2>6. \/ Len(backlog') = Len(backlog) - 1 /\ stranded' = stranded
        \/ backlog' = backlog /\ stranded' = stranded + 1
    <3>1. backlog \in Seq(Clients) /\ backlog # <<>>
      BY <1>10 DEF Accept, TypeOK
    <3>2. Len(Tail(backlog)) = Len(backlog) - 1
      BY <3>1, HeadTailProperties
    <3>3. \/ backlog' = Tail(backlog) /\ stranded' = stranded
          \/ backlog' = backlog /\ stranded' = stranded + 1
      BY <1>10 DEF Accept
    <3> QED
      BY <3>2, <3>3
  <2> DEFINE rest == Bit(Listener \in evs) + Bit(Listener \in ready)
  <2>7. rest' = rest /\ rest \in Nat
    BY <2>1 DEF Bit
  <2>8. Len(backlog) = Cardinality(Accepting) + rest + stranded
    BY <2>2, <2>5, <2>7, AcceptingFinite DEF AcceptInv, Bit
  <2> HIDE DEF rest
  <2>9. Len(backlog') = Cardinality(Accepting') + rest' + stranded'
    BY <2>2, <2>4, <2>6, <2>7, <2>8, AcceptingFinite
  <2>10. started'
    BY <2>1, <2>5
  <2>11. Len(backlog') = Cardinality(Accepting') + Bit(Listener \in evs') + Bit(Listener \in ready') + stranded'
    <3>1. rest' = Bit(Listener \in evs') + Bit(Listener \in ready')
      BY DEF rest
    <3>2. Bit(Listener \in evs') \in Nat /\ Bit(Listener \in ready') \in Nat
      BY DEF Bit
    <3>3. Cardinality(Accepting') \in Nat /\ stranded' \in Nat
      BY <2>2, <2>3, <2>6, AcceptingFinite, FS_CardinalityType, FS_RemoveElement
    <3> QED
      BY <2>9, <3>1, <3>2, <3>3
  <2> QED
    BY <2>10, <2>11 DEF AcceptInv
<1>11. ASSUME NEW t \in Threads, AddLock(t) PROVE AcceptInv'
  <2>1. Accepting' = Accepting
    BY <1>11, <1>b, AfterGoes DEF AddLock
  <2> QED
    BY <1>11, <2>1, AcceptSame DEF AddLock, epoll, main, history
<1>12. ASSUME NEW t \in Threads, AddCtl(t) PROVE AcceptInv'
  <2>1. Accepting' = Accepting
    BY <1>12, <1>b, AfterEnds DEF AddCtl, NoThread
  <2>2. thread[t].fd # Listener
    BY <1>12 DEF AddCtl, TypeOK
  <2>3. ready' \in {ready, ready \cup {thread[t].fd}}
    BY <1>12 DEF AddCtl
  <2> QED
    BY <1>12, <2>1, <2>2, <2>3, AcceptSame DEF AddCtl, main, history
<1>13. ASSUME NEW t \in Threads, Recv(t) PROVE AcceptInv'
  <2>1. Accepting' = Accepting
    BY <1>13, <1>b, AfterRecv DEF Recv
  <2> QED
    BY <1>13, <2>1, AcceptSame DEF Recv, epoll, main, history
<1>14. ASSUME NEW t \in Threads, Generate(t) PROVE AcceptInv'
  <2>1. Accepting' = Accepting
    BY <1>14, <1>b, AfterGenerate DEF Generate
  <2> QED
    BY <1>14, <2>1, AcceptSame DEF Generate, epoll, main, history
<1>15. ASSUME NEW t \in Threads, Generated(t) PROVE AcceptInv'
  <2>1. Accepting' = Accepting
    BY <1>15, <1>b, AfterGoes DEF Generated
  <2> QED
    BY <1>15, <2>1, AcceptSame DEF Generated, epoll, main, history
<1>16. ASSUME NEW t \in Threads, GenerateFails(t) PROVE AcceptInv'
  <2>1. Accepting' = Accepting
    BY <1>16, <1>b, AfterEnds DEF GenerateFails, NoThread
  <2> QED
    BY <1>16, <2>1, AcceptSame DEF GenerateFails, epoll, main
<1>17. ASSUME NEW t \in Threads, Send(t) PROVE AcceptInv'
  <2>1. Accepting' = Accepting
    <3>1. Ends(t) /\ thread[t].pc = "send"
      BY <1>17 DEF Send
    <3> QED
      BY <3>1, <1>b, AfterEnds DEF NoThread
  <2>2. Listener \in ready' <=> Listener \in ready
    BY <1>17, <1>a DEF Send, Edge
  <2> QED
    BY <1>17, <2>1, <2>2, AcceptSame DEF Send, main, history
<1>18. ASSUME NEW t \in Threads, Del(t) PROVE AcceptInv'
  <2>1. Accepting' = Accepting
    BY <1>18, <1>b, AfterGoes DEF Del
  <2>2. thread[t].fd # Listener
    BY <1>18 DEF Del, TypeOK
  <2> QED
    BY <1>18, <2>1, <2>2, AcceptSame DEF Del, main, history
<1>19. ASSUME NEW t \in Threads, Close(t) PROVE AcceptInv'
  <2>1. Accepting' = Accepting
    BY <1>19, <1>b, AfterEnds DEF Close, NoThread
  <2>2. thread[t].fd # Listener
    BY <1>19 DEF Close, TypeOK
  <2> QED
    BY <1>19, <2>1, <2>2, AcceptSame DEF Close, main
<1> QED
  BY <1>1, <1>2, <1>3, <1>4, <1>5, <1>6, <1>7, <1>8, <1>9, <1>10, <1>11, <1>12, <1>13, <1>14, <1>15, <1>16, <1>17, <1>18, <1>19 DEF Step

\* What becomes of the blocks of a client.
LEMMA BlocksUnchanged == UNCHANGED <<got, answers>> => \A c \in Clients : Blocks(c)' = Blocks(c)
  BY DEF Blocks

\* A client that receives a block has it as one of its own already.
LEMMA BlocksRecv ==
  ASSUME TypeOK, NEW c \in Clients, ClientRecv(c)
  PROVE  \A d \in Clients : Blocks(d)' \subseteq Blocks(d)
<1>1. answers[c] \in Seq(Nat) /\ answers[c] # <<>>
  BY DEF TypeOK, ClientRecv
<1>2. got'[c] = got[c] \cup {Head(answers[c])} /\ answers'[c] = Tail(answers[c])
  BY DEF TypeOK, ClientRecv
<1>3. \A d \in Clients \ {c} : got'[d] = got[d] /\ answers'[d] = answers[d]
  BY DEF TypeOK, ClientRecv
<1>4. Head(answers[c]) = answers[c][1] /\ 1 \in DOMAIN answers[c]
  BY <1>1
<1>5. ASSUME NEW i \in DOMAIN Tail(answers[c])
      PROVE  i + 1 \in DOMAIN answers[c] /\ Tail(answers[c])[i] = answers[c][i + 1]
  BY <1>1, <1>5
<1>6. Blocks(c)' \subseteq Blocks(c)
  BY <1>2, <1>4, <1>5 DEF Blocks
<1> QED
  BY <1>3, <1>6 DEF Blocks

\* A client that closes loses the blocks it has not received.
LEMMA BlocksClose ==
  ASSUME TypeOK, NEW c \in Clients, ClientClose(c)
  PROVE  \A d \in Clients : Blocks(d)' \subseteq Blocks(d)
  BY DEF TypeOK, ClientClose, Blocks

\* Send gives the thread's block to the client of its descriptor only.
LEMMA BlocksSend ==
  ASSUME TypeOK, NEW t \in Threads, Send(t)
  PROVE  \A d \in Clients :
           Blocks(d)' \subseteq Blocks(d) \cup (IF fdtable[thread[t].fd] = d THEN {thread[t].buf} ELSE {})
<1>1. UNCHANGED got
  BY DEF Send, clients
<1>2. CASE UNCHANGED answers
  BY <1>1, <1>2 DEF Blocks
<1>3. ASSUME NEW c \in Clients, fdtable[thread[t].fd] = c,
             answers' = [answers EXCEPT ![c] = Append(@, thread[t].buf)]
      PROVE  \A d \in Clients :
               Blocks(d)' \subseteq Blocks(d) \cup (IF fdtable[thread[t].fd] = d THEN {thread[t].buf} ELSE {})
  <2>1. answers[c] \in Seq(Nat) /\ thread[t].buf \in Nat
    BY DEF TypeOK
  <2>2. answers'[c] = Append(answers[c], thread[t].buf) /\ \A d \in Clients \ {c} : answers'[d] = answers[d]
    BY <1>3 DEF TypeOK
  <2>3. \A i \in DOMAIN answers'[c] : answers'[c][i] = thread[t].buf \/ (i \in DOMAIN answers[c] /\ answers'[c][i] = answers[c][i])
    BY <2>1, <2>2
  <2>4. Blocks(c)' \subseteq Blocks(c) \cup {thread[t].buf}
    BY <1>1, <2>3 DEF Blocks
  <2> QED
    BY <1>1, <1>3, <2>2, <2>4 DEF Blocks
<1>4. thread[t].fd \in Fds
  BY DEF Send, TypeOK
<1>5. fdtable[thread[t].fd] \in Clients \cup {None}
  BY <1>4 DEF TypeOK
<1> QED
  BY <1>2, <1>3, <1>5 DEF Send

\* A step that makes no block and sends none.
LEMMA BlockSame ==
  ASSUME TypeOK, BlockInv, V' = V, \A c \in Clients : Blocks(c)' \subseteq Blocks(c),
         \A t \in Threads :
           \/ thread'[t].buf = thread[t].buf /\ (thread'[t].pc = "put" <=> thread[t].pc = "put")
           \/ thread'[t].buf = 0 /\ thread'[t].pc # "put"
  PROVE  BlockInv'
<1>0. V \in Nat
  BY DEF TypeOK
<1>1. \A t \in Threads : IF thread'[t].pc = "put" THEN thread'[t].buf = V' + 1 ELSE thread'[t].buf <= V'
  BY <1>0 DEF BlockInv
<1>2. \A t, u \in Threads :
        t # u /\ thread'[t].pc # "put" /\ thread'[u].pc # "put" /\ thread'[t].buf = thread'[u].buf => thread'[t].buf = 0
  BY DEF BlockInv
<1>3. \A c \in Clients : \A b \in Blocks(c)' : b <= V'
  BY DEF BlockInv
<1>4. \A t \in Threads, c \in Clients : thread'[t].pc # "put" /\ thread'[t].buf \in Blocks(c)' => thread'[t].buf = 0
  BY DEF BlockInv
<1>5. \A c, d \in Clients : c # d => Blocks(c)' \cap Blocks(d)' \subseteq {0}
  BY DEF BlockInv
<1> QED
  BY <1>1, <1>2, <1>3, <1>4, <1>5 DEF BlockInv

\* Every step keeps a block in one place.
LEMMA BlockStep == TypeOK /\ LockInv /\ BlockInv /\ Step => BlockInv'
<1> SUFFICES ASSUME TypeOK, LockInv, BlockInv, Step PROVE BlockInv'
  OBVIOUS
<1> USE RandAssumption
<1>a. ASSUME UNCHANGED <<thread, V, got, answers>> PROVE BlockInv'
  BY <1>a, BlocksUnchanged, BlockSame
<1>b. ASSUME NEW t \in Threads, UNCHANGED <<V, got, answers>>, Ends(t) PROVE BlockInv'
  BY <1>b, BlocksUnchanged, BlockSame, AfterEnds DEF NoThread
<1>1. ASSUME NEW c \in Clients, Connect(c) PROVE BlockInv'
  BY <1>1, <1>a DEF Connect, net, locks
<1>2. ASSUME NEW c \in Clients, ClientRecv(c) PROVE BlockInv'
  BY <1>2, BlocksRecv, BlockSame DEF ClientRecv, locks
<1>3. ASSUME NEW c \in Clients, ClientClose(c) PROVE BlockInv'
  BY <1>3, BlocksClose, BlockSame DEF ClientClose, locks
<1>4. ASSUME NEW c \in Clients, ClientCut(c) PROVE BlockInv'
  BY <1>4, <1>a DEF ClientCut, net, locks
<1>5. ASSUME NEW c \in Clients, NEW n \in Lengths, ClientSend(c, n) PROVE BlockInv'
  BY <1>5, <1>a DEF ClientSend, locks
<1>6. CASE Start
  BY <1>6, <1>a DEF Start, clients, net, locks
<1>7. CASE EpollWait
  BY <1>7, <1>a DEF EpollWait, clients, net, locks
<1>8. ASSUME NEW fd \in evs, CreateFails(fd) PROVE BlockInv'
  BY <1>8, <1>a DEF CreateFails, clients, net, locks
<1>9. ASSUME NEW fd \in evs, NEW t \in Threads, Create(t, fd) PROVE BlockInv'
  <2>1. thread'[t].buf = 0 /\ thread'[t].pc # "put" /\ \A u \in Threads \ {t} : thread'[u] = thread[u]
    BY <1>9, AfterCreate
  <2> QED
    BY <1>9, <2>1, BlocksUnchanged, BlockSame DEF Create, clients, net, locks
<1>10. ASSUME NEW t \in Threads, Accept(t) PROVE BlockInv'
  BY <1>10, AfterAccept, BlocksUnchanged, BlockSame DEF Accept, clients, net, locks
<1>11. ASSUME NEW t \in Threads, AddLock(t) PROVE BlockInv'
  <2>1. thread'[t].pc = "add_ctl" /\ thread'[t].buf = thread[t].buf /\ \A u \in Threads \ {t} : thread'[u] = thread[u]
    BY <1>11, AfterGoes DEF AddLock
  <2> QED
    BY <1>11, <2>1, BlocksUnchanged, BlockSame DEF AddLock, clients, net
<1>12. ASSUME NEW t \in Threads, AddCtl(t) PROVE BlockInv'
  BY <1>12, <1>b DEF AddCtl, clients, net
<1>13. ASSUME NEW t \in Threads, Recv(t) PROVE BlockInv'
  BY <1>13, AfterRecv, BlocksUnchanged, BlockSame DEF Recv, clients, locks
<1>14. ASSUME NEW t \in Threads, Generate(t) PROVE BlockInv'
  <2>1. thread'[t].pc = "put" /\ thread'[t].buf = V + 1 /\ \A u \in Threads \ {t} : thread'[u] = thread[u]
    BY <1>14, AfterGenerate
  <2>2. V' = V /\ \A c \in Clients : Blocks(c)' = Blocks(c)
    BY <1>14, BlocksUnchanged DEF Generate, clients, net
  <2> QED
    BY <2>1, <2>2 DEF BlockInv
<1>15. ASSUME NEW t \in Threads, Generated(t) PROVE BlockInv'
  <2>0. V \in Nat /\ \A u \in Threads : thread[u].buf \in Nat
    BY DEF TypeOK
  <2>1. thread'[t].pc = "recv" /\ thread'[t].buf = thread[t].buf /\ \A u \in Threads \ {t} : thread'[u] = thread[u]
    BY <1>15, AfterGoes DEF Generated
  <2>2. thread[t].buf = V + 1 /\ V' = V + 1
    BY <1>15 DEF Generated, BlockInv
  <2>3. \A u \in Threads \ {t} : thread[u].pc # "put" /\ thread[u].buf <= V
    BY <1>15 DEF Generated, LockInv, BlockInv
  <2>4. \A c \in Clients : Blocks(c)' = Blocks(c)
    BY <1>15, BlocksUnchanged DEF Generated, clients, net
  <2>5. \A c \in Clients : Blocks(c) \subseteq Nat /\ \A b \in Blocks(c) : b <= V
    BY DEF BlockInv, Blocks, TypeOK
  <2>6. \A u \in Threads : IF thread'[u].pc = "put" THEN thread'[u].buf = V' + 1 ELSE thread'[u].buf <= V'
    BY <2>0, <2>1, <2>2, <2>3
  <2>7. \A u, w \in Threads :
          u # w /\ thread'[u].pc # "put" /\ thread'[w].pc # "put" /\ thread'[u].buf = thread'[w].buf => thread'[u].buf = 0
    BY <2>0, <2>1, <2>2, <2>3 DEF BlockInv
  <2>8. \A c \in Clients : \A b \in Blocks(c)' : b <= V'
    BY <2>0, <2>2, <2>4, <2>5
  <2>9. \A u \in Threads, c \in Clients : thread'[u].pc # "put" /\ thread'[u].buf \in Blocks(c)' => thread'[u].buf = 0
    BY <2>0, <2>1, <2>2, <2>3, <2>4, <2>5 DEF BlockInv
  <2>10. \A c, d \in Clients : c # d => Blocks(c)' \cap Blocks(d)' \subseteq {0}
    BY <2>4 DEF BlockInv
  <2> QED
    BY <2>6, <2>7, <2>8, <2>9, <2>10 DEF BlockInv
<1>16. ASSUME NEW t \in Threads, GenerateFails(t) PROVE BlockInv'
  BY <1>16, <1>b DEF GenerateFails, clients, net, locks
<1>17. ASSUME NEW t \in Threads, Send(t) PROVE BlockInv'
  <2> DEFINE b == thread[t].buf
  <2>0. V' = V /\ V \in Nat
    BY <1>17 DEF Send, TypeOK, locks
  <2>1. thread'[t].pc = "idle" /\ thread'[t].buf = 0 /\ \A u \in Threads \ {t} : thread'[u] = thread[u]
    <3>1. Ends(t)
      BY <1>17 DEF Send
    <3> QED
      BY <3>1, AfterEnds DEF NoThread
  <2>2. \A d \in Clients : Blocks(d)' \subseteq Blocks(d) \cup (IF fdtable[thread[t].fd] = d THEN {b} ELSE {})
    BY <1>17, BlocksSend
  <2>3. b <= V /\ \A u \in Threads \ {t} : thread[u].pc # "put" /\ thread[u].buf = b => b = 0
    BY <1>17 DEF Send, BlockInv
  <2>4. \A c \in Clients : b \in Blocks(c) => b = 0
    BY <1>17 DEF Send, BlockInv
  <2> HIDE DEF b
  <2>5. \A u \in Threads : IF thread'[u].pc = "put" THEN thread'[u].buf = V' + 1 ELSE thread'[u].buf <= V'
    BY <2>0, <2>1 DEF BlockInv
  <2>6. \A u, w \in Threads :
          u # w /\ thread'[u].pc # "put" /\ thread'[w].pc # "put" /\ thread'[u].buf = thread'[w].buf => thread'[u].buf = 0
    BY <2>1 DEF BlockInv
  <2>7. \A c \in Clients : \A x \in Blocks(c)' : x <= V'
    BY <2>0, <2>2, <2>3 DEF BlockInv
  <2>8. \A u \in Threads, c \in Clients : thread'[u].pc # "put" /\ thread'[u].buf \in Blocks(c)' => thread'[u].buf = 0
    BY <2>1, <2>2, <2>3 DEF BlockInv
  <2>9. \A c, d \in Clients : c # d => Blocks(c)' \cap Blocks(d)' \subseteq {0}
    BY <2>2, <2>4 DEF BlockInv
  <2> QED
    BY <2>5, <2>6, <2>7, <2>8, <2>9 DEF BlockInv
<1>18. ASSUME NEW t \in Threads, Del(t) PROVE BlockInv'
  <2>1. thread'[t].pc = "close" /\ thread'[t].buf = thread[t].buf /\ \A u \in Threads \ {t} : thread'[u] = thread[u]
    BY <1>18, AfterGoes DEF Del
  <2> QED
    BY <1>18, <2>1, BlocksUnchanged, BlockSame DEF Del, clients, net, locks
<1>19. ASSUME NEW t \in Threads, Close(t) PROVE BlockInv'
  BY <1>19, <1>b DEF Close, clients, locks
<1> QED
  BY <1>1, <1>2, <1>3, <1>4, <1>5, <1>6, <1>7, <1>8, <1>9, <1>10, <1>11, <1>12, <1>13, <1>14, <1>15, <1>16, <1>17, <1>18, <1>19 DEF Step

\* Connections do not move.
LEMMA PlaceSame ==
  ASSUME PlaceInv, UNCHANGED <<fdtable, backlog>>, \A c \in Clients : cpc'[c] = "new" => cpc[c] = "new"
  PROVE  PlaceInv'
  BY DEF PlaceInv, Waits

\* Every step keeps a connection in one place.
LEMMA PlaceStep == TypeOK /\ PlaceInv /\ Step => PlaceInv'
<1> SUFFICES ASSUME TypeOK, PlaceInv, Step PROVE PlaceInv'
  OBVIOUS
<1> USE RandAssumption
<1>1. ASSUME NEW c \in Clients, Connect(c) PROVE PlaceInv'
  <2>0. backlog \in Seq(Clients) /\ backlog' = Append(backlog, c) /\ fdtable' = fdtable
    BY <1>1 DEF Connect, TypeOK
  <2>1. /\ DOMAIN backlog' = 1 .. Len(backlog) + 1 /\ backlog'[Len(backlog) + 1] = c
        /\ \A i \in 1 .. Len(backlog) : backlog'[i] = backlog[i]
        /\ DOMAIN backlog = 1 .. Len(backlog) /\ Len(backlog) \in Nat
    BY <2>0
  <2>2. \A i \in DOMAIN backlog : backlog[i] # c
    BY <1>1 DEF Connect, PlaceInv, Waits
  <2>3. \A f \in Fds : fdtable[f] # c
    BY <1>1 DEF Connect, PlaceInv
  <2>4. \A d : Waits(d)' => Waits(d) \/ d = c
    BY <2>1 DEF Waits
  <2>5. \A i, j \in DOMAIN backlog' : backlog'[i] = backlog'[j] => i = j
    BY <2>1, <2>2 DEF PlaceInv
  <2>6. \A d \in Clients : cpc'[d] = "new" => d # c /\ cpc[d] = "new"
    BY <1>1 DEF Connect, TypeOK
  <2> QED
    BY <2>0, <2>3, <2>4, <2>5, <2>6 DEF PlaceInv
<1>2. ASSUME NEW c \in Clients, ClientRecv(c) PROVE PlaceInv'
  BY <1>2, PlaceSame DEF ClientRecv, epoll, TypeOK
<1>3. ASSUME NEW c \in Clients, ClientClose(c) PROVE PlaceInv'
  BY <1>3, PlaceSame DEF ClientClose, TypeOK
<1>4. ASSUME NEW c \in Clients, ClientCut(c) PROVE PlaceInv'
  BY <1>4, PlaceSame DEF ClientCut, epoll, TypeOK
<1>5. ASSUME NEW c \in Clients, NEW n \in Lengths, ClientSend(c, n) PROVE PlaceInv'
  BY <1>5, PlaceSame DEF ClientSend, TypeOK
<1>6. CASE Start
  BY <1>6, PlaceSame DEF Start, clients
<1>7. CASE EpollWait
  BY <1>7, PlaceSame DEF EpollWait, clients
<1>8. ASSUME NEW fd \in evs, CreateFails(fd) PROVE PlaceInv'
  BY <1>8, PlaceSame DEF CreateFails, clients, epoll
<1>9. ASSUME NEW fd \in evs, NEW t \in Threads, Create(t, fd) PROVE PlaceInv'
  BY <1>9, PlaceSame DEF Create, clients, epoll
<1>10. ASSUME NEW t \in Threads, Accept(t) PROVE PlaceInv'
  <2>0. UNCHANGED cpc
    BY <1>10 DEF Accept, clients
  <2>1. CASE UNCHANGED <<fdtable, backlog>>
    BY <2>0, <2>1, PlaceSame
  <2>2. ASSUME NEW f \in FreeFds, fdtable' = [fdtable EXCEPT ![f] = Head(backlog)], backlog' = Tail(backlog)
        PROVE  PlaceInv'
    <3>1. backlog \in Seq(Clients) /\ backlog # <<>> /\ Len(backlog) \in Nat \ {0} /\ DOMAIN backlog = 1 .. Len(backlog)
      BY <1>10 DEF Accept, TypeOK
    <3> PICK h \in Clients : h = Head(backlog)
      BY <3>1
    <3>2. h = backlog[1] /\ 1 \in DOMAIN backlog
      BY <3>1
    <3>3. \A i \in DOMAIN backlog' : i \in Nat \ {0} /\ i + 1 \in DOMAIN backlog /\ backlog'[i] = backlog[i + 1]
      BY <2>2, <3>1
    <3>4. Waits(h)
      BY <3>2 DEF Waits
    <3>5. ~Waits(h)'
      BY <3>2, <3>3 DEF Waits, PlaceInv
    <3>6. \A d : Waits(d)' => Waits(d)
      BY <3>3 DEF Waits
    <3>7. \A i, j \in DOMAIN backlog' : backlog'[i] = backlog'[j] => i = j
      <4> TAKE i, j \in DOMAIN backlog'
      <4> HAVE backlog'[i] = backlog'[j]
      <4>1. i + 1 = j + 1
        BY <3>3 DEF PlaceInv
      <4> QED
        BY <3>3, <4>1
    <3>8. \A g \in Fds : fdtable[g] # h
      BY <3>1, <3>4 DEF PlaceInv
    <3>9. cpc[h] # "new"
      BY <3>4, <3>8 DEF PlaceInv
    <3>10. f \in Fds /\ fdtable'[f] = h /\ \A g \in Fds \ {f} : fdtable'[g] = fdtable[g]
      BY <2>2 DEF FreeFds, TypeOK
    <3>11. \A g, k \in Fds : fdtable'[g] = fdtable'[k] /\ fdtable'[g] # None => g = k
      BY <3>8, <3>10 DEF PlaceInv
    <3>12. \A g \in Fds, c \in Clients : fdtable'[g] = c => ~Waits(c)'
      BY <3>5, <3>6, <3>10 DEF PlaceInv
    <3>13. \A c \in Clients : cpc'[c] = "new" => ~Waits(c)' /\ \A g \in Fds : fdtable'[g] # c
      BY <2>0, <3>6, <3>9, <3>10 DEF PlaceInv
    <3> QED
      BY <3>7, <3>11, <3>12, <3>13 DEF PlaceInv, Waits
  <2> QED
    BY <1>10, <2>1, <2>2 DEF Accept
<1>11. ASSUME NEW t \in Threads, AddLock(t) PROVE PlaceInv'
  BY <1>11, PlaceSame DEF AddLock, clients, epoll
<1>12. ASSUME NEW t \in Threads, AddCtl(t) PROVE PlaceInv'
  BY <1>12, PlaceSame DEF AddCtl, clients
<1>13. ASSUME NEW t \in Threads, Recv(t) PROVE PlaceInv'
  BY <1>13, PlaceSame DEF Recv, clients, epoll
<1>14. ASSUME NEW t \in Threads, Generate(t) PROVE PlaceInv'
  BY <1>14, PlaceSame DEF Generate, clients, epoll
<1>15. ASSUME NEW t \in Threads, Generated(t) PROVE PlaceInv'
  BY <1>15, PlaceSame DEF Generated, clients, epoll
<1>16. ASSUME NEW t \in Threads, GenerateFails(t) PROVE PlaceInv'
  BY <1>16, PlaceSame DEF GenerateFails, clients, epoll
<1>17. ASSUME NEW t \in Threads, Send(t) PROVE PlaceInv'
  BY <1>17, PlaceSame DEF Send, clients
<1>18. ASSUME NEW t \in Threads, Del(t) PROVE PlaceInv'
  BY <1>18, PlaceSame DEF Del, clients
<1>19. ASSUME NEW t \in Threads, Close(t) PROVE PlaceInv'
  <2>1. UNCHANGED <<backlog, cpc>> /\ fdtable' = [fdtable EXCEPT ![thread[t].fd] = None]
    BY <1>19 DEF Close, clients
  <2>2. \A f \in Fds : fdtable'[f] = fdtable[f] \/ fdtable'[f] = None
    BY <2>1 DEF TypeOK
  <2>3. \A c : Waits(c)' <=> Waits(c)
    BY <2>1 DEF Waits
  <2> QED
    BY <2>1, <2>2, <2>3 DEF PlaceInv
<1> QED
  BY <1>1, <1>2, <1>3, <1>4, <1>5, <1>6, <1>7, <1>8, <1>9, <1>10, <1>11, <1>12, <1>13, <1>14, <1>15, <1>16, <1>17, <1>18, <1>19 DEF Step

\* Numbers are carried on, or given up.
LEMMA CarrySame ==
  ASSUME TypeOK, CarryInv, UNCHANGED fdtable, registered' \subseteq registered, evs' \subseteq evs,
         \A t \in Threads :
           \/ thread'[t].fd = thread[t].fd
              /\ (thread'[t].pc \in {"add", "add_ctl"} => thread[t].pc \in {"add", "add_ctl"})
           \/ thread'[t].fd = 0 /\ thread'[t].pc \notin {"add", "add_ctl"}
  PROVE  CarryInv'
<1>0. \A f \in Fds : f # 0
  BY DEF Fds
<1>1. \A f \in Fds : fdtable'[f] = None => f \notin evs' /\ f \notin registered' /\ \A t \in Threads : thread'[t].fd # f
  BY <1>0 DEF CarryInv
<1>2. ASSUME NEW t \in Threads, thread'[t].pc \in {"add", "add_ctl"}
      PROVE  /\ thread'[t].fd \notin registered' /\ thread'[t].fd \notin evs'
             /\ \A u \in Threads \ {t} : thread'[u].fd # thread'[t].fd
  <2>1. thread'[t].fd = thread[t].fd /\ thread[t].pc \in {"add", "add_ctl"}
    BY <1>2
  <2>2. thread[t].fd # 0
    BY <2>1 DEF TypeOK
  <2> QED
    BY <2>1, <2>2 DEF CarryInv
<1> QED
  BY <1>1, <1>2 DEF CarryInv

\* Every step but a stray close keeps the numbers to those who carry them.
LEMMA CarryStep == TypeOK /\ LockInv /\ CarryInv /\ Step /\ ~strayed' => CarryInv'
<1> SUFFICES ASSUME TypeOK, LockInv, CarryInv, Step, ~strayed' PROVE CarryInv'
  OBVIOUS
<1> USE RandAssumption
<1>0. \A f \in Fds : f # 0
  BY DEF Fds
<1>c. \A t \in Threads : thread[t].pc \in {"add", "add_ctl"} => thread[t].fd # 0
  BY DEF TypeOK
<1>a. ASSUME NEW t \in Threads, Ends(t), UNCHANGED <<fdtable, evs>>, registered' \subseteq registered PROVE CarryInv'
  BY <1>a, CarrySame, AfterEnds DEF NoThread
<1>1. ASSUME NEW c \in Clients, Connect(c) PROVE CarryInv'
  BY <1>1, CarrySame DEF Connect, main
<1>2. ASSUME NEW c \in Clients, ClientRecv(c) PROVE CarryInv'
  BY <1>2, CarrySame DEF ClientRecv, epoll, main
<1>3. ASSUME NEW c \in Clients, ClientClose(c) PROVE CarryInv'
  BY <1>3, CarrySame DEF ClientClose, main
<1>4. ASSUME NEW c \in Clients, ClientCut(c) PROVE CarryInv'
  BY <1>4, CarrySame DEF ClientCut, epoll, main
<1>5. ASSUME NEW c \in Clients, NEW n \in Lengths, ClientSend(c, n) PROVE CarryInv'
  BY <1>5, CarrySame DEF ClientSend, main
<1>6. CASE Start
  BY <1>6, CarrySame DEF Start
<1>7. CASE EpollWait
  <2>1. evs' \subseteq registered \cup {Listener}
    BY <1>7 DEF EpollWait, LockInv
  <2>2. UNCHANGED <<fdtable, registered, thread>>
    BY <1>7 DEF EpollWait
  <2>3. \A t \in Threads : thread[t].pc \in {"add", "add_ctl"} => thread[t].fd # Listener
    BY DEF TypeOK
  <2> QED
    BY <1>0, <2>1, <2>2, <2>3 DEF CarryInv
<1>8. ASSUME NEW fd \in evs, CreateFails(fd) PROVE CarryInv'
  BY <1>8, CarrySame DEF CreateFails, epoll
<1>9. ASSUME NEW fd \in evs, NEW t \in Threads, Create(t, fd) PROVE CarryInv'
  <2>1. thread'[t].fd = fd /\ thread'[t].pc \notin {"add", "add_ctl"} /\ \A u \in Threads \ {t} : thread'[u] = thread[u]
    BY <1>9, AfterCreate
  <2>2. UNCHANGED <<fdtable, registered>> /\ evs' \subseteq evs
    BY <1>9 DEF Create, epoll
  <2> QED
    BY <2>1, <2>2 DEF CarryInv
<1>10. ASSUME NEW t \in Threads, Accept(t) PROVE CarryInv'
  <2>1. UNCHANGED <<registered, evs>>
    BY <1>10 DEF Accept, main
  <2>2. CASE Ends(t) /\ UNCHANGED fdtable
    BY <2>1, <2>2, <1>a
  <2>3. ASSUME NEW f \in FreeFds, fdtable' = [fdtable EXCEPT ![f] = Head(backlog)],
               thread' = [thread EXCEPT ![t] = [pc |-> "add", fd |-> f, buf |-> 0]]
        PROVE  CarryInv'
    <3>1. f \in Fds /\ fdtable[f] = None /\ f \notin registered /\ f \notin evs /\ \A u \in Threads : thread[u].fd # f
      BY DEF FreeFds, CarryInv
    <3>2. Head(backlog) # None
      BY <1>10 DEF Accept, TypeOK
    <3>3. fdtable'[f] # None /\ \A g \in Fds \ {f} : fdtable'[g] = fdtable[g]
      BY <2>3, <3>1, <3>2 DEF TypeOK
    <3>4. thread'[t].fd = f /\ \A u \in Threads \ {t} : thread'[u] = thread[u]
      BY <2>3 DEF TypeOK
    <3> QED
      BY <2>1, <3>1, <3>3, <3>4 DEF CarryInv
  <2> QED
    BY <1>10, <2>2, <2>3 DEF Accept
<1>11. ASSUME NEW t \in Threads, AddLock(t) PROVE CarryInv'
  <2>1. thread'[t].pc = "add_ctl" /\ thread'[t].fd = thread[t].fd /\ \A u \in Threads \ {t} : thread'[u] = thread[u]
    BY <1>11, AfterGoes DEF AddLock
  <2> QED
    BY <1>11, <2>1, CarrySame DEF AddLock, epoll, main
<1>12. ASSUME NEW t \in Threads, AddCtl(t) PROVE CarryInv'
  <2>1. thread'[t].fd = 0 /\ thread'[t].pc = "idle" /\ \A u \in Threads \ {t} : thread'[u] = thread[u]
    <3>1. Ends(t)
      BY <1>12 DEF AddCtl
    <3> QED
      BY <3>1, AfterEnds DEF NoThread
  <2>2. UNCHANGED <<fdtable, evs>>
    BY <1>12 DEF AddCtl, main
  <2>3. \/ registered' = registered
        \/ fdtable[thread[t].fd] # None /\ registered' = registered \cup {thread[t].fd}
    BY <1>12 DEF AddCtl
  <2>4. \A u \in Threads \ {t} : thread[u].fd # thread[t].fd
    BY <1>12 DEF AddCtl, CarryInv
  <2> QED
    BY <1>0, <1>c, <2>1, <2>2, <2>3, <2>4 DEF CarryInv
<1>13. ASSUME NEW t \in Threads, Recv(t) PROVE CarryInv'
  <2>1. /\ thread'[t].pc \notin {"add", "add_ctl"} /\ thread'[t].fd = thread[t].fd
        /\ \A u \in Threads \ {t} : thread'[u] = thread[u]
    BY <1>13, AfterRecv
  <2> QED
    BY <1>13, <2>1, CarrySame DEF Recv, epoll, main
<1>14. ASSUME NEW t \in Threads, Generate(t) PROVE CarryInv'
  <2>1. /\ thread'[t].pc = "put" /\ thread'[t].fd = thread[t].fd
        /\ \A u \in Threads \ {t} : thread'[u] = thread[u]
    BY <1>14, AfterGenerate
  <2> QED
    BY <1>14, <2>1, CarrySame DEF Generate, epoll, main
<1>15. ASSUME NEW t \in Threads, Generated(t) PROVE CarryInv'
  <2>1. thread'[t].pc = "recv" /\ thread'[t].fd = thread[t].fd /\ \A u \in Threads \ {t} : thread'[u] = thread[u]
    BY <1>15, AfterGoes DEF Generated
  <2> QED
    BY <1>15, <2>1, CarrySame DEF Generated, epoll, main
<1>16. ASSUME NEW t \in Threads, GenerateFails(t) PROVE CarryInv'
  BY <1>16, <1>a DEF GenerateFails, epoll, main
<1>17. ASSUME NEW t \in Threads, Send(t) PROVE CarryInv'
  BY <1>17, <1>a DEF Send, main
<1>18. ASSUME NEW t \in Threads, Del(t) PROVE CarryInv'
  <2>1. thread'[t].pc = "close" /\ thread'[t].fd = thread[t].fd /\ \A u \in Threads \ {t} : thread'[u] = thread[u]
    BY <1>18, AfterGoes DEF Del
  <2> QED
    BY <1>18, <2>1, CarrySame DEF Del, main
<1>19. ASSUME NEW t \in Threads, Close(t) PROVE CarryInv'
  <2>1. thread'[t].fd = 0 /\ thread'[t].pc = "idle" /\ \A u \in Threads \ {t} : thread'[u] = thread[u]
    <3>1. Ends(t)
      BY <1>19 DEF Close
    <3> QED
      BY <3>1, AfterEnds DEF NoThread
  <2>2. thread[t].fd \notin evs /\ \A u \in Threads \ {t} : thread[u].fd # thread[t].fd
    BY <1>19 DEF Close
  <2>3. registered' = registered \ {thread[t].fd} /\ evs' = evs /\ \A f \in Fds \ {thread[t].fd} : fdtable'[f] = fdtable[f]
    BY <1>19 DEF Close, main, TypeOK
  <2> QED
    BY <1>0, <1>c, <2>1, <2>2, <2>3 DEF CarryInv
<1> QED
  BY <1>1, <1>2, <1>3, <1>4, <1>5, <1>6, <1>7, <1>8, <1>9, <1>10, <1>11, <1>12, <1>13, <1>14, <1>15, <1>16, <1>17, <1>18, <1>19 DEF Step

\* Nothing about descriptor f and its connection changes, but a thread, an
\* event or a wakeup of it may go.
LEMMA StepSame ==
  ASSUME StepInv, NEW f \in Fds, NEW c \in Clients, HasClient(f), fdtable[f] = c,
         units'[c] = units[c], cpc'[c] = cpc[c], answers'[c] = answers[c],
         f \in evs' => f \in evs, f \in ready' => f \in ready,
         \A t \in Threads : thread'[t].fd = f => thread'[t] = thread[t]
  PROVE  StepAt(f, c)'
<1>1. StepAt(f, c)
  BY DEF StepInv
<1> QED
  BY <1>1 DEF StepAt

\* Every step keeps a connection whose client is there to one event or thread.
LEMMA StepStep ==
  ASSUME TypeOK, LockInv, BlockInv, PlaceInv, CarryInv, StepInv, ClientInv, Step,
         NEW f \in Fds, NEW c \in Clients, fdtable'[f] = c, peer'[c] = "open"
  PROVE  StepAt(f, c)'
<1> USE RandAssumption
<1>0. f # 0 /\ c # None
  BY DEF Fds
<1>a. ASSUME fdtable[f] = c, peer[c] = "open" PROVE StepAt(f, c) /\ HasClient(f)
  BY <1>a, <1>0 DEF StepInv, HasClient
<1>b. ASSUME NEW g \in Fds, g # f, fdtable[f] = c PROVE fdtable[g] # c
  BY <1>b, <1>0 DEF PlaceInv
<1>c. ASSUME NEW t \in Threads, fdtable[f] = c, peer[c] = "open", thread[t].fd = f
      PROVE  thread[t].pc \in {"add", "add_ctl", "recv", "gen", "put", "send"}
  <2>1. StepAt(f, c) /\ thread[t].pc \in Pcs /\ thread[t].pc \notin {"idle", "accept"}
    BY <1>0, <1>a, <1>c DEF TypeOK
  <2> QED
    BY <1>c, <2>1 DEF StepAt, Pcs
<1>1. ASSUME NEW d \in Clients, Connect(d) PROVE StepAt(f, c)'
  <2>1. d # c
    BY <1>1 DEF Connect, PlaceInv
  <2> QED
    BY <1>0, <1>1, <1>a, <2>1, StepSame DEF Connect, net, main, TypeOK
<1>2. ASSUME NEW d \in Clients, ClientRecv(d) PROVE StepAt(f, c)'
  <2>1. StepAt(f, c) /\ HasClient(f) /\ fdtable[f] = c /\ peer[c] = "open"
    BY <1>2, <1>a DEF ClientRecv, epoll
  <2>2. UNCHANGED <<thread, evs, ready, units>>
    BY <1>2 DEF ClientRecv, epoll, main
  <2>3. CASE d # c
    BY <1>2, <2>1, <2>2, <2>3, StepSame DEF ClientRecv, TypeOK
  <2>4. CASE d = c
    <3>1. units[c] = 0 /\ answers[c] # <<>>
      BY <1>2, <2>4 DEF ClientRecv, ClientInv
    <3>2. f \notin evs /\ \A t \in Threads : thread[t].fd = f => thread[t].pc \in {"add", "add_ctl"}
      BY <1>c, <2>1, <3>1 DEF StepAt
    <3> QED
      BY <2>1, <2>2, <3>1, <3>2 DEF StepAt
  <2> QED
    BY <2>3, <2>4
<1>3. ASSUME NEW d \in Clients, ClientClose(d) PROVE StepAt(f, c)'
  <2>1. d # c
    BY <1>3 DEF ClientClose, TypeOK
  <2> QED
    BY <1>3, <1>a, <2>1, StepSame DEF ClientClose, Edge, main, TypeOK
<1>4. ASSUME NEW d \in Clients, ClientCut(d) PROVE StepAt(f, c)'
  BY <1>4 DEF ClientCut, ClientInv
<1>5. ASSUME NEW d \in Clients, NEW n \in Lengths, ClientSend(d, n) PROVE StepAt(f, c)'
  <2>1. StepAt(f, c) /\ HasClient(f) /\ fdtable[f] = c /\ peer[c] = "open"
    BY <1>5, <1>a DEF ClientSend
  <2>2. UNCHANGED <<thread, evs, answers>> /\ ready' = ready \cup Edge(d)
    BY <1>5 DEF ClientSend, main
  <2>3. CASE d # c
    BY <1>5, <2>1, <2>2, <2>3, StepSame DEF ClientSend, Edge, TypeOK
  <2>4. CASE d = c
    <3>1. units[c] = 0 /\ cpc[c] = "idle"
      BY <1>5, <2>4 DEF ClientSend, ClientInv
    <3>2. f \notin evs /\ \A t \in Threads : thread[t].fd = f => thread[t].pc \in {"add", "add_ctl"}
      BY <1>c, <2>1, <3>1 DEF StepAt
    <3>3. f \in ready' => f \in registered
      BY <1>0, <2>2 DEF LockInv, Edge
    <3>4. f \in ready' => \A t \in Threads : thread[t].fd # f
      BY <3>2, <3>3 DEF CarryInv
    <3> QED
      BY <2>1, <2>2, <3>2, <3>4 DEF StepAt
  <2> QED
    BY <2>3, <2>4
<1>6. CASE Start
  BY <1>0, <1>6, <1>a, StepSame DEF Start, clients, net
<1>7. CASE EpollWait
  <2>1. StepAt(f, c) /\ HasClient(f) /\ fdtable[f] = c /\ peer[c] = "open"
    BY <1>7, <1>a DEF EpollWait, net
  <2>2. UNCHANGED <<thread, units, cpc, answers>> /\ f \notin ready'
    BY <1>7 DEF EpollWait, clients, net
  <2>3. f \in evs' => f \in ready /\ Readable(f)
    BY <1>0, <1>7 DEF EpollWait, LockInv
  <2>4. f \in evs' => units[c] > 0 /\ \A t \in Threads : thread[t].fd # f
    BY <2>1, <2>3 DEF StepAt, Readable
  <2> QED
    BY <2>1, <2>2, <2>4 DEF StepAt
<1>8. ASSUME NEW fd \in evs, CreateFails(fd) PROVE StepAt(f, c)'
  BY <1>8, <1>a, StepSame DEF CreateFails, clients, net, epoll
<1>9. ASSUME NEW fd \in evs, NEW t \in Threads, Create(t, fd) PROVE StepAt(f, c)'
  <2>1. StepAt(f, c) /\ HasClient(f) /\ fdtable[f] = c /\ peer[c] = "open"
    BY <1>9, <1>a DEF Create, net, epoll
  <2>2. UNCHANGED <<ready, units, cpc, answers>> /\ evs' = evs \ {fd}
    BY <1>9 DEF Create, clients, net, epoll
  <2>3. /\ thread'[t].pc = (IF fd = Listener THEN "accept" ELSE "recv") /\ thread'[t].fd = fd /\ thread'[t].buf = 0
        /\ \A u \in Threads \ {t} : thread'[u] = thread[u]
    BY <1>9, AfterCreate
  <2>4. CASE fd # f
    BY <2>1, <2>2, <2>3, <2>4, StepSame
  <2>5. CASE fd = f
    <3>1. units[c] > 0 /\ (\A u \in Threads : thread[u].fd # f) /\ f \notin ready
      BY <2>1, <2>5 DEF StepAt
    <3>2. units[c] \in Nat /\ cpc[c] \in {"new", "idle", "wait", "closed"}
      BY DEF TypeOK
    <3>3. cpc[c] = "wait" /\ answers[c] = <<>>
      BY <2>1, <3>1, <3>2 DEF ClientInv
    <3>4. thread'[t].pc = "recv" /\ thread'[t].fd = f /\ thread'[t].buf = 0 /\ \A u \in Threads \ {t} : thread'[u].fd # f
      BY <1>0, <2>3, <2>5, <3>1
    <3> QED
      BY <2>2, <2>5, <3>1, <3>3, <3>4 DEF StepAt
  <2> QED
    BY <2>4, <2>5
<1>10. ASSUME NEW t \in Threads, Accept(t) PROVE StepAt(f, c)'
  <2>1. UNCHANGED <<evs, ready, units, cpc, answers, peer>>
    BY <1>10 DEF Accept, clients, net, main
  <2>2. CASE Ends(t) /\ UNCHANGED fdtable
    <3>1. thread'[t].fd = 0 /\ \A u \in Threads \ {t} : thread'[u] = thread[u]
      BY <2>2, AfterEnds DEF NoThread
    <3> QED
      BY <1>0, <1>a, <2>1, <2>2, <3>1, StepSame
  <2>3. ASSUME NEW g \in FreeFds, fdtable' = [fdtable EXCEPT ![g] = Head(backlog)],
               thread' = [thread EXCEPT ![t] = [pc |-> "add", fd |-> g, buf |-> 0]]
        PROVE  StepAt(f, c)'
    <3>1. thread'[t].fd = g /\ thread'[t].pc = "add" /\ \A u \in Threads \ {t} : thread'[u] = thread[u]
      BY <2>3 DEF TypeOK
    <3>2. CASE f # g
      <4>1. fdtable[f] = c
        BY <2>3, <3>2 DEF TypeOK
      <4> QED
        BY <1>a, <2>1, <3>1, <3>2, <4>1, StepSame
    <3>3. CASE f = g
      <4>1. f \notin registered /\ f \notin evs /\ \A u \in Threads : thread[u].fd # f
        BY <3>3 DEF FreeFds, CarryInv
      <4>2. f \notin ready
        BY <1>0, <4>1 DEF LockInv
      <4> QED
        BY <2>1, <3>1, <3>3, <4>1, <4>2 DEF StepAt
    <3> QED
      BY <3>2, <3>3
  <2> QED
    BY <1>10, <2>2, <2>3 DEF Accept
<1>11. ASSUME NEW t \in Threads, AddLock(t) PROVE StepAt(f, c)'
  <2>1. StepAt(f, c) /\ UNCHANGED <<evs, ready, units, cpc, answers>>
    BY <1>11, <1>a DEF AddLock, clients, net, epoll, main
  <2>2. thread'[t].pc = "add_ctl" /\ thread'[t].fd = thread[t].fd /\ \A u \in Threads \ {t} : thread'[u] = thread[u]
    BY <1>11, AfterGoes DEF AddLock
  <2> QED
    BY <2>1, <2>2 DEF StepAt
<1>12. ASSUME NEW t \in Threads, AddCtl(t) PROVE StepAt(f, c)'
  <2>1. StepAt(f, c) /\ HasClient(f) /\ fdtable[f] = c /\ UNCHANGED <<evs, units, cpc, answers>>
    BY <1>12, <1>a DEF AddCtl, clients, net, main
  <2>2. thread'[t].fd = 0 /\ \A u \in Threads \ {t} : thread'[u] = thread[u]
    <3>1. Ends(t)
      BY <1>12 DEF AddCtl
    <3> QED
      BY <3>1, AfterEnds DEF NoThread
  <2>3. ready' \subseteq ready \cup {thread[t].fd}
    BY <1>12 DEF AddCtl
  <2>4. CASE thread[t].fd # f
    BY <1>0, <2>1, <2>2, <2>3, <2>4, StepSame
  <2>5. CASE thread[t].fd = f
    <3>1. f \notin evs /\ \A u \in Threads \ {t} : thread[u].fd # f
      BY <1>12, <2>5 DEF AddCtl, CarryInv
    <3> QED
      BY <1>0, <2>1, <2>2, <3>1 DEF StepAt
  <2> QED
    BY <2>4, <2>5
<1>13. ASSUME NEW t \in Threads, Recv(t) PROVE StepAt(f, c)'
  <2>1. /\ StepAt(f, c) /\ HasClient(f) /\ fdtable[f] = c /\ peer[c] = "open"
        /\ UNCHANGED <<evs, ready, cpc, answers>>
    BY <1>13, <1>a DEF Recv, clients, epoll, main
  <2>2. /\ thread'[t].fd = thread[t].fd /\ thread'[t].buf = thread[t].buf
        /\ \A u \in Threads \ {t} : thread'[u] = thread[u]
    BY <1>13, AfterRecv
  <2>3. thread[t].pc = "recv" /\ thread[t].fd \in Fds
    BY <1>13 DEF Recv, TypeOK
  <2>4. CASE thread[t].fd # f
    <3>1. fdtable[thread[t].fd] # c
      BY <1>b, <2>1, <2>3, <2>4
    <3>2. units'[c] = units[c]
      BY <1>13, <3>1 DEF Recv, TypeOK
    <3> QED
      BY <2>1, <2>2, <2>4, <3>2, StepSame
  <2>5. CASE thread[t].fd = f
    <3>1. f \notin evs /\ (f \in ready => ~(units[c] > 0)) /\ \A u \in Threads \ {t} : thread[u].fd # f
      BY <2>1, <2>5 DEF StepAt
    <3>2. cpc[c] = "wait" /\ answers[c] = <<>> /\ (thread[t].buf = 0 => units[c] > 0) /\ units[c] \in Nat
      BY <2>1, <2>3, <2>5 DEF StepAt, TypeOK
    <3>3. CASE units[c] > 0 /\ Goes(t, "gen")
      <4>1. thread'[t].pc = "gen"
        BY <3>3, AfterGoes
      <4> QED
        BY <2>1, <2>2, <2>5, <3>1, <3>2, <3>3, <4>1 DEF StepAt
    <3>4. CASE units[c] = 0 /\ Goes(t, "send") /\ UNCHANGED units
      <4>1. thread'[t].pc = "send"
        BY <3>4, AfterGoes
      <4> QED
        BY <2>1, <2>2, <2>5, <3>1, <3>2, <3>4, <4>1 DEF StepAt
    <3> QED
      BY <1>0, <1>13, <2>1, <2>5, <3>3, <3>4 DEF Recv
  <2> QED
    BY <2>4, <2>5
<1>14. ASSUME NEW t \in Threads, Generate(t) PROVE StepAt(f, c)'
  <2>1. StepAt(f, c) /\ UNCHANGED <<evs, ready, units, cpc, answers>> /\ thread[t].pc = "gen"
    BY <1>14, <1>a DEF Generate, clients, net, epoll, main
  <2>2. thread'[t].pc = "put" /\ thread'[t].fd = thread[t].fd /\ \A u \in Threads \ {t} : thread'[u] = thread[u]
    BY <1>14, AfterGenerate
  <2> QED
    BY <2>1, <2>2 DEF StepAt
<1>15. ASSUME NEW t \in Threads, Generated(t) PROVE StepAt(f, c)'
  <2>1. StepAt(f, c) /\ UNCHANGED <<evs, ready, units, cpc, answers>> /\ thread[t].pc = "put"
    BY <1>15, <1>a DEF Generated, clients, net, epoll, main
  <2>2. /\ thread'[t].pc = "recv" /\ thread'[t].fd = thread[t].fd /\ thread'[t].buf = thread[t].buf
        /\ \A u \in Threads \ {t} : thread'[u] = thread[u]
    BY <1>15, AfterGoes DEF Generated
  <2>3. thread[t].buf # 0
    BY <2>1 DEF BlockInv, TypeOK
  <2> QED
    BY <2>1, <2>2, <2>3 DEF StepAt
<1>16. ASSUME NEW t \in Threads, GenerateFails(t) PROVE StepAt(f, c)'
  <2>1. thread'[t].fd = 0 /\ \A u \in Threads \ {t} : thread'[u] = thread[u]
    <3>1. Ends(t)
      BY <1>16 DEF GenerateFails
    <3> QED
      BY <3>1, AfterEnds DEF NoThread
  <2> QED
    BY <1>0, <1>16, <1>a, <2>1, StepSame DEF GenerateFails, clients, net, epoll, main
<1>17. ASSUME NEW t \in Threads, Send(t) PROVE StepAt(f, c)'
  <2>1. thread[t].fd \in Fds /\ fdtable[thread[t].fd] \in Clients \cup {None} /\ fdtable[f] = c
    BY <1>17 DEF Send, TypeOK
  <2>2. peer[c] = "open"
    BY <1>17, <2>1 DEF Send, TypeOK
  <2>3. StepAt(f, c) /\ HasClient(f) /\ UNCHANGED <<evs, units, cpc>>
    BY <1>17, <1>a, <2>1, <2>2 DEF Send, clients, main
  <2>4. thread'[t].fd = 0 /\ \A u \in Threads \ {t} : thread'[u] = thread[u]
    <3>1. Ends(t)
      BY <1>17 DEF Send
    <3> QED
      BY <3>1, AfterEnds DEF NoThread
  <2>5. CASE thread[t].fd # f
    <3>1. fdtable[thread[t].fd] # c
      BY <1>b, <2>1, <2>5
    <3>2. answers'[c] = answers[c]
      BY <1>17, <2>1, <3>1 DEF Send, TypeOK
    <3>3. f \in ready' => f \in ready
      BY <1>17, <2>1, <3>1 DEF Send, Edge
    <3> QED
      BY <1>0, <2>1, <2>3, <2>4, <3>2, <3>3, StepSame
  <2>6. CASE thread[t].fd = f
    <3>1. f \notin evs /\ \A u \in Threads \ {t} : thread[u].fd # f
      BY <2>3, <2>6 DEF StepAt
    <3> QED
      BY <1>0, <2>3, <2>4, <3>1 DEF StepAt
  <2> QED
    BY <2>5, <2>6
<1>18. ASSUME NEW t \in Threads, Del(t) PROVE StepAt(f, c)'
  <2>1. StepAt(f, c) /\ HasClient(f) /\ fdtable[f] = c /\ UNCHANGED <<evs, units, cpc, answers>>
    BY <1>18, <1>a DEF Del, clients, net, main
  <2>2. thread[t].fd # f
    BY <1>18, <2>1 DEF Del, StepAt
  <2>3. thread'[t].fd = thread[t].fd /\ \A u \in Threads \ {t} : thread'[u] = thread[u]
    BY <1>18, AfterGoes DEF Del
  <2>4. f \in ready' => f \in ready
    BY <1>18 DEF Del
  <2> QED
    BY <2>1, <2>2, <2>3, <2>4, StepSame
<1>19. ASSUME NEW t \in Threads, Close(t) PROVE StepAt(f, c)'
  <2>1. thread[t].fd \in Fds
    BY <1>19 DEF Close, TypeOK
  <2>2. thread[t].fd # f /\ fdtable[f] = c
    BY <1>0, <1>19, <2>1 DEF Close, TypeOK
  <2>3. fdtable[thread[t].fd] # c
    BY <1>b, <2>1, <2>2
  <2>4. /\ units'[c] = units[c] /\ UNCHANGED <<evs, cpc, answers, peer>>
        /\ f \in ready' => f \in ready
    BY <1>19, <2>3 DEF Close, clients, main
  <2>5. thread'[t].fd = 0 /\ \A u \in Threads \ {t} : thread'[u] = thread[u]
    <3>1. Ends(t)
      BY <1>19 DEF Close
    <3> QED
      BY <3>1, AfterEnds DEF NoThread
  <2> QED
    BY <1>0, <1>a, <2>2, <2>4, <2>5, StepSame
<1> QED
  BY <1>1, <1>2, <1>3, <1>4, <1>5, <1>6, <1>7, <1>8, <1>9, <1>10, <1>11, <1>12, <1>13, <1>14, <1>15, <1>16, <1>17, <1>18, <1>19 DEF Step

\* A step that touches no client.
LEMMA ClientSame == ClientInv /\ UNCHANGED <<cpc, got, answers, units, peer, cut>> => ClientInv'
  BY DEF ClientInv, Blocks

\* Every step keeps what a client may find.
LEMMA ClientStep == TypeOK /\ PlaceInv /\ StepInv /\ CarryInv /\ ClientInv /\ Step => ClientInv'
<1> SUFFICES ASSUME TypeOK, PlaceInv, StepInv, CarryInv, ClientInv, Step PROVE ClientInv'
  OBVIOUS
<1> USE RandAssumption
<1>1. ASSUME NEW d \in Clients, Connect(d) PROVE ClientInv'
  <2>1. \A c \in Clients : Blocks(c)' = Blocks(c)
    BY <1>1, BlocksUnchanged DEF Connect, net
  <2> QED
    BY <1>1, <2>1 DEF Connect, net, ClientInv, TypeOK
<1>2. ASSUME NEW d \in Clients, ClientRecv(d) PROVE ClientInv'
  <2>1. \A c \in Clients : Blocks(c)' \subseteq Blocks(c)
    BY <1>2, BlocksRecv
  <2>2. UNCHANGED <<units, peer, cut>> /\ cpc[d] = "wait" /\ answers[d] # <<>>
    BY <1>2 DEF ClientRecv
  <2>3. /\ cpc'[d] = "idle" /\ answers'[d] = Tail(answers[d])
        /\ \A c \in Clients \ {d} : cpc'[c] = cpc[c] /\ answers'[c] = answers[c]
    BY <1>2 DEF ClientRecv, TypeOK
  <2>4. answers[d] \in Seq(Nat) /\ Len(answers[d]) = 1 /\ units[d] = 0 /\ peer[d] = "open" /\ d \notin cut
    BY <2>2 DEF ClientInv, TypeOK
  <2>5. Tail(answers[d]) = <<>>
    <3>1. Tail(answers[d]) \in Seq(Nat) /\ Len(Tail(answers[d])) = 0
      BY <2>2, <2>4, HeadTailProperties
    <3> QED
      BY <3>1, EmptySeq
  <2>6. ASSUME NEW c \in Clients
        PROVE  /\ peer'[c] = "open" <=> cpc'[c] # "closed"
               /\ answers'[c] # <<>> => Len(answers'[c]) = 1 /\ cpc'[c] = "wait" /\ units'[c] = 0
               /\ cpc'[c] \in {"new", "idle"} => units'[c] = 0
               /\ c \in cut' => cpc'[c] = "closed"
    <3>1. CASE c = d
      BY <2>2, <2>3, <2>4, <2>5, <3>1
    <3>2. CASE c # d
      BY <2>2, <2>3, <3>2 DEF ClientInv
    <3> QED
      BY <3>1, <3>2
  <2>7. \A c \in Clients : 0 \notin Blocks(c)'
    BY <2>1 DEF ClientInv
  <2> QED
    BY <2>6, <2>7 DEF ClientInv
<1>3. ASSUME NEW d \in Clients, ClientClose(d) PROVE ClientInv'
  <2>1. \A c \in Clients : Blocks(c)' \subseteq Blocks(c)
    BY <1>3, BlocksClose
  <2>2. /\ UNCHANGED <<units, cut>> /\ cpc'[d] = "closed" /\ peer'[d] # "open" /\ answers'[d] = <<>>
        /\ \A c \in Clients \ {d} : cpc'[c] = cpc[c] /\ answers'[c] = answers[c] /\ peer'[c] = peer[c]
    BY <1>3 DEF ClientClose, TypeOK
  <2> QED
    BY <2>1, <2>2 DEF ClientInv
<1>4. ASSUME NEW d \in Clients, ClientCut(d) PROVE ClientInv'
  BY <1>4 DEF ClientCut, ClientInv
<1>5. ASSUME NEW d \in Clients, NEW n \in Lengths, ClientSend(d, n) PROVE ClientInv'
  <2>1. \A c \in Clients : Blocks(c)' = Blocks(c)
    BY <1>5, BlocksUnchanged DEF ClientSend
  <2>2. /\ UNCHANGED <<answers, peer, cut>> /\ cpc[d] = "idle" /\ cpc'[d] = "wait"
        /\ \A c \in Clients \ {d} : cpc'[c] = cpc[c] /\ units'[c] = units[c]
    BY <1>5 DEF ClientSend, TypeOK
  <2> QED
    BY <2>1, <2>2 DEF ClientInv
<1>6. CASE Start
  BY <1>6, ClientSame DEF Start, clients, net
<1>7. CASE EpollWait
  BY <1>7, ClientSame DEF EpollWait, clients, net
<1>8. ASSUME NEW fd \in evs, CreateFails(fd) PROVE ClientInv'
  BY <1>8, ClientSame DEF CreateFails, clients, net
<1>9. ASSUME NEW fd \in evs, NEW t \in Threads, Create(t, fd) PROVE ClientInv'
  BY <1>9, ClientSame DEF Create, clients, net
<1>10. ASSUME NEW t \in Threads, Accept(t) PROVE ClientInv'
  BY <1>10, ClientSame DEF Accept, clients, net
<1>11. ASSUME NEW t \in Threads, AddLock(t) PROVE ClientInv'
  BY <1>11, ClientSame DEF AddLock, clients, net
<1>12. ASSUME NEW t \in Threads, AddCtl(t) PROVE ClientInv'
  BY <1>12, ClientSame DEF AddCtl, clients, net
<1>13. ASSUME NEW t \in Threads, Recv(t) PROVE ClientInv'
  <2>1. \A c \in Clients : Blocks(c)' = Blocks(c)
    BY <1>13, BlocksUnchanged DEF Recv, clients
  <2>2. UNCHANGED <<cpc, answers, peer, cut>>
    BY <1>13 DEF Recv, clients
  <2>3. \A c \in Clients : units[c] = 0 => units'[c] = 0
    BY <1>13 DEF Recv, TypeOK
  <2> QED
    BY <2>1, <2>2, <2>3 DEF ClientInv
<1>14. ASSUME NEW t \in Threads, Generate(t) PROVE ClientInv'
  BY <1>14, ClientSame DEF Generate, clients, net
<1>15. ASSUME NEW t \in Threads, Generated(t) PROVE ClientInv'
  BY <1>15, ClientSame DEF Generated, clients, net
<1>16. ASSUME NEW t \in Threads, GenerateFails(t) PROVE ClientInv'
  BY <1>16, ClientSame DEF GenerateFails, clients, net
<1>17. ASSUME NEW t \in Threads, Send(t) PROVE ClientInv'
  <2>1. thread[t].fd \in Fds /\ fdtable[thread[t].fd] \in Clients \cup {None} /\ thread[t].pc = "send" /\ thread[t].buf \in Nat
    BY <1>17 DEF Send, TypeOK
  <2>2. UNCHANGED <<cpc, got, units, cut>>
    BY <1>17 DEF Send, clients
  <2>3. CASE UNCHANGED answers /\ \A c \in Clients : peer'[c] = "open" <=> peer[c] = "open"
    <3>1. \A c \in Clients : Blocks(c)' = Blocks(c)
      BY <2>2, <2>3, BlocksUnchanged
    <3> QED
      BY <2>2, <2>3, <3>1 DEF ClientInv
  <2>4. ASSUME NEW c \in Clients, c = fdtable[thread[t].fd], peer[c] = "open", UNCHANGED peer,
               answers' = [answers EXCEPT ![c] = Append(@, thread[t].buf)]
        PROVE  ClientInv'
    <3>1. thread[t].buf # 0 /\ units[c] = 0 /\ cpc[c] = "wait" /\ answers[c] = <<>>
      BY <2>1, <2>4 DEF StepInv, StepAt, HasClient
    <3>2. answers'[c] = Append(<<>>, thread[t].buf) /\ \A d \in Clients \ {c} : answers'[d] = answers[d]
      BY <2>4, <3>1 DEF TypeOK
    <3>3. Len(answers'[c]) = 1
      BY <2>1, <3>2
    <3>4. \A d \in Clients : Blocks(d)' \subseteq Blocks(d) \cup {thread[t].buf}
      BY <1>17, BlocksSend
    <3>5. \A d \in Clients : 0 \notin Blocks(d)'
      BY <3>1, <3>4 DEF ClientInv
    <3> QED
      BY <2>2, <2>4, <3>1, <3>2, <3>3, <3>5 DEF ClientInv
  <2>5. \A c \in Clients : peer'[c] = "open" => peer[c] = "open"
    BY <1>17, <2>1 DEF Send, TypeOK
  <2>6. ASSUME fdtable[thread[t].fd] # None, peer[fdtable[thread[t].fd]] = "fin", UNCHANGED answers,
               peer' = [peer EXCEPT ![fdtable[thread[t].fd]] = "rst"]
        PROVE  ClientInv'
    BY <2>1, <2>3, <2>6 DEF TypeOK
  <2> QED
    BY <1>17, <2>1, <2>3, <2>4, <2>6 DEF Send
<1>18. ASSUME NEW t \in Threads, Del(t) PROVE ClientInv'
  BY <1>18, ClientSame DEF Del, clients, net
<1>19. ASSUME NEW t \in Threads, Close(t) PROVE ClientInv'
  <2>1. thread[t].fd \in Fds /\ fdtable[thread[t].fd] \in Clients \cup {None} /\ thread[t].pc = "close"
    BY <1>19 DEF Close, TypeOK
  <2>2. UNCHANGED <<cpc, got, answers, peer>> /\ cut' = cut \cup ({fdtable[thread[t].fd]} \ {None})
    BY <1>19 DEF Close, clients
  <2>3. fdtable[thread[t].fd] # None => peer[fdtable[thread[t].fd]] # "open"
    BY <2>1 DEF StepInv, StepAt, HasClient
  <2>4. \A c \in Clients : c \in cut' => cpc[c] = "closed"
    BY <2>1, <2>2, <2>3 DEF ClientInv
  <2>5. \A c \in Clients : units[c] = 0 => units'[c] = 0
    BY <1>19 DEF Close
  <2>6. \A c \in Clients : Blocks(c)' = Blocks(c)
    BY <2>2, BlocksUnchanged
  <2> QED
    BY <2>2, <2>4, <2>5, <2>6 DEF ClientInv
<1> QED
  BY <1>1, <1>2, <1>3, <1>4, <1>5, <1>6, <1>7, <1>8, <1>9, <1>10, <1>11, <1>12, <1>13, <1>14, <1>15, <1>16, <1>17, <1>18, <1>19 DEF Step

-----------------------------------------------------------------------------
Inv == TypeOK /\ LockInv /\ AcceptInv /\ BlockInv /\ PlaceInv /\ Lockstep

\* The inductive invariant holds at first.
LEMMA InvInit == Init => Inv
<1> SUFFICES ASSUME Init PROVE Inv
  OBVIOUS
<1> USE RandAssumption
<1>0. \A t \in Threads : thread[t] = NoThread /\ thread[t].pc = "idle" /\ thread[t].fd = 0 /\ thread[t].buf = 0
  BY DEF Init, NoThread
<1>1. TypeOK
  <2>1. NoThread \in ThreadType
    BY DEF NoThread, ThreadType, Pcs
  <2>2. thread \in [Threads -> ThreadType]
    BY <2>1 DEF Init
  <2>3. \A t \in Threads : thread[t].fd = 0 <=> thread[t].pc \in {"idle", "accept"}
    BY <1>0
  <2>4. /\ answers \in [Clients -> Seq(Nat)] /\ backlog \in Seq(Clients)
        /\ fdtable \in [Fds -> Clients \cup {None}] /\ tag \in [Fds -> Fds \cup {0}]
    BY DEF Init
  <2>5. /\ cpc \in [Clients -> {"new", "idle", "wait", "closed"}] /\ got \in [Clients -> SUBSET Nat]
        /\ units \in [Clients -> Nat] /\ peer \in [Clients -> {"open", "fin", "rst"}]
    BY DEF Init
  <2>6. /\ cut \subseteq Clients /\ registered \subseteq Fds /\ ready \subseteq Fds \cup {Listener}
        /\ started \in BOOLEAN /\ evs \subseteq Fds \cup {Listener}
        /\ alive \in BOOLEAN /\ strayed \in BOOLEAN /\ dropped \subseteq Clients
    BY DEF Init
  <2>7. /\ mtx \in Threads \cup {0} /\ ev \in Fds \cup {0} /\ spin_mtx \in Threads \cup {0} /\ V \in Nat
        /\ stranded \in Nat /\ reqs \in 0 .. MaxReqs /\ faults \in 0 .. MaxFaults
    BY DEF Init, RandAssumption
  <2> QED
    BY <2>2, <2>3, <2>4, <2>5, <2>6, <2>7 DEF TypeOK, ThreadType
<1>2. LockInv
  BY <1>0, ThreadNotZero DEF Init, LockInv
<1>3. AcceptInv
  BY <1>0 DEF Init, AcceptInv, Accepting
<1>4. \A c \in Clients : Blocks(c) = {}
  BY DEF Init, Blocks
<1>5. BlockInv
  BY <1>0, <1>4 DEF Init, BlockInv
<1>6. PlaceInv
  <2>1. (\A f \in Fds : fdtable[f] = None) /\ backlog = <<>>
    BY DEF Init
  <2>2. \A c : ~Waits(c)
    BY <2>1 DEF Waits
  <2> QED
    BY <2>1, <2>2 DEF PlaceInv
<1>7. CarryInv
  <2>1. \A f \in Fds : f # 0
    BY DEF Fds
  <2> QED
    BY <1>0, <2>1 DEF Init, CarryInv
<1>8. StepInv
  BY DEF Init, StepInv, HasClient
<1>9. ClientInv
  BY <1>4 DEF Init, ClientInv
<1> QED
  BY <1>1, <1>2, <1>3, <1>5, <1>6, <1>7, <1>8, <1>9 DEF Inv, Lockstep

\* Every step keeps the inductive invariant.
LEMMA InvStep == Inv /\ [Next]_vars => Inv'
<1> SUFFICES ASSUME Inv, [Next]_vars PROVE Inv'
  OBVIOUS
<1>1. CASE Next
  <2>1. Step
    BY <1>1, NextIsStep
  <2>2. TypeOK' /\ LockInv' /\ AcceptInv' /\ BlockInv' /\ PlaceInv'
    BY <2>1, TypeStep, LockStep, AcceptStep, BlockStep, PlaceStep DEF Inv
  <2>3. strayed => strayed'
    BY <2>1 DEF Inv, TypeOK, Step, Connect, ClientRecv, ClientClose, ClientCut, ClientSend, Start, EpollWait, CreateFails, Create,
         Accept, AddLock, AddCtl, Recv, Generate, Generated, GenerateFails, Send, Del, Close, history
  <2>4. ASSUME ~strayed' PROVE CarryInv' /\ StepInv' /\ ClientInv'
    <3>1. CarryInv /\ StepInv /\ ClientInv
      BY <2>3, <2>4 DEF Inv, Lockstep
    <3>2. CarryInv'
      BY <2>1, <2>4, <3>1, CarryStep DEF Inv
    <3>3. ClientInv'
      BY <2>1, <3>1, ClientStep DEF Inv
    <3>4. ASSUME NEW f \in Fds, fdtable'[f] # None, peer'[fdtable'[f]] = "open" PROVE StepAt(f, fdtable[f])'
      <4>1. PICK c \in Clients : fdtable'[f] = c
        BY <2>2, <3>4 DEF TypeOK
      <4>2. StepAt(f, c)'
        BY <2>1, <3>1, <3>4, <4>1, StepStep DEF Inv
      <4> QED
        BY <4>1, <4>2 DEF StepAt
    <3> QED
      BY <3>2, <3>3, <3>4 DEF StepInv, HasClient
  <2> QED
    BY <2>2, <2>4 DEF Inv, Lockstep
<1>2. CASE UNCHANGED vars
  BY <1>2 DEF vars, clients, net, epoll, main, locks, history, Inv, TypeOK, LockInv, AcceptInv, Accepting, BlockInv, Blocks,
       PlaceInv, Waits, Lockstep, CarryInv, StepInv, StepAt, HasClient, ClientInv
<1> QED
  BY <1>1, <1>2

\* The inductive invariant holds in every behaviour.
LEMMA InvAlways == Spec => []Inv
  BY InvInit, InvStep, PTL DEF Spec

\* Types are right, whatever clients and threads do.
THEOREM RandTypes == Spec => []TypeOK
<1>1. Inv => TypeOK
  BY DEF Inv
<1> QED
  BY <1>1, InvAlways, PTL

\* The blocking accept of Create_connect always finds a connection.
THEOREM AcceptNeverBlocksAlways == Spec => []AcceptNeverBlocks
<1>1. Inv => AcceptNeverBlocks
  <2> SUFFICES ASSUME Inv PROVE AcceptNeverBlocks
    OBVIOUS
  <2>1. Len(backlog) \in Nat /\ stranded \in Nat
    BY DEF Inv, TypeOK
  <2>2. CASE started
    BY <2>1, <2>2, AcceptingFinite DEF Inv, AcceptInv, AcceptNeverBlocks, Accepting, Bit
  <2>3. CASE ~started
    <3>1. Cardinality(Accepting) = 0
      BY <2>3, FS_EmptySet DEF Inv, AcceptInv
    <3> QED
      BY <2>1, <3>1 DEF AcceptNeverBlocks, Accepting
  <2> QED
    BY <2>2, <2>3 DEF Inv, TypeOK
<1> QED
  BY <1>1, InvAlways, PTL

\* Conmmunication_mask sends one fresh block for a request as long as no
\* descriptor is closed under a thread, and never a block twice.
THEOREM AnswersFreshAlways == Spec => []AnswersFresh
<1>1. Inv => AnswersFresh
  <2> SUFFICES ASSUME Inv PROVE AnswersFresh
    OBVIOUS
  <2>1. \A c, d \in Clients : c # d => Blocks(c) \cap Blocks(d) \subseteq {0}
    BY DEF Inv, BlockInv
  <2>2. ASSUME ~strayed, NEW c \in Clients
        PROVE  Len(answers[c]) <= (IF cpc[c] = "wait" THEN 1 ELSE 0) /\ 0 \notin Blocks(c)
    <3>1. ClientInv
      BY <2>2 DEF Inv, Lockstep
    <3>2. CASE answers[c] = <<>>
      <4>1. Len(answers[c]) = 0
        BY <3>2
      <4>2. 0 \notin Blocks(c)
        BY <3>1 DEF ClientInv
      <4> QED
        BY <4>1, <4>2
    <3>3. CASE answers[c] # <<>>
      <4>1. Len(answers[c]) = 1 /\ cpc[c] = "wait" /\ 0 \notin Blocks(c)
        BY <3>1, <3>3 DEF ClientInv
      <4> QED
        BY <4>1
    <3> QED
      BY <3>2, <3>3
  <2> QED
    BY <2>1, <2>2 DEF AnswersFresh
<1> QED
  BY <1>1, InvAlways, PTL

=============================================================================

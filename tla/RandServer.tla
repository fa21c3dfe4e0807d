----------------------------- MODULE RandServer -----------------------------
(***************************************************************************)
(* The random number service of Demo/SocketRandom: demo/server.c with its  *)
(* main thread in epoll_wait and a detached thread for every event, the    *)
(* clients of demo/client.c, and the generator of src/sm3_srand.c.         *)
(*                                                                         *)
(* Every descriptor is edge triggered: an event says that something has    *)
(* arrived since the last one, and carries a descriptor number, not a      *)
(* connection.  The kernel gives the lowest free number to accept.         *)
(***************************************************************************)
EXTENDS Naturals, Sequences, FiniteSets

CONSTANTS
  Clients,     \* processes of client.c, one connection each
  None,        \* no connection
  MaxFds,      \* bound: descriptors the process may open for connections
  MaxThreads,  \* bound: threads at a time
  MaxReqs,     \* bound: requests of all clients
  MaxFaults,   \* bound: failures of pthread_create, accept and malloc
  Lengths,     \* bound: lengths of a request, in units
  RecvMax      \* RECV_MESSAGE_LENGTH - 1, in units

ASSUME RandAssumption ==
  /\ None \notin Clients
  /\ MaxFds \in Nat /\ MaxThreads \in Nat /\ MaxReqs \in Nat /\ MaxFaults \in Nat
  /\ Lengths \subseteq Nat \ {0}
  /\ RecvMax \in Nat \ {0}

Listener == 0   \* tcp_socketid
Fds      == 1 .. MaxFds
Threads  == 1 .. MaxThreads

VARIABLES
  cpc,         \* where a client is
  got,         \* history: the blocks a client has received
  answers,     \* blocks sent to a client that it has not received
  units,       \* units of requests the server has not received
  peer,        \* the client's end: "open", "fin" once it has closed it, "rst"
  cut,         \* connections the server has closed
  backlog,     \* connections waiting for accept
  fdtable,     \* the connection of a descriptor
  registered,  \* descriptors in the epoll instance
  tag,         \* what their event carries
  ready,       \* descriptors with something new since their last event
  started,     \* the listener is in the epoll instance
  evs,         \* events that the main thread has still to handle
  thread,      \* the threads: where they are, their descriptor, sendbuf
  mtx, ev,     \* the mutex around epoll_ctl, and the structure it protects
  spin_mtx, V, \* the lock around the generator, and its state
  alive,       \* the process has not been ended by SIGPIPE
  stranded,    \* history: connections left in the backlog without an event
  strayed,     \* history: a descriptor was closed while another thread or an event carried it
  dropped,     \* history: clients whose event or answer was given up
  reqs, faults

clients == <<cpc, got, reqs>>
net     == <<answers, units, peer, cut>>
epoll   == <<fdtable, registered, tag, ready>>
main    == <<started, evs>>
locks   == <<mtx, ev, spin_mtx, V>>
history == <<stranded, strayed, dropped>>
vars    == <<clients, net, backlog, epoll, main, thread, locks, alive, history, faults>>

Fault == faults < MaxFaults /\ faults' = faults + 1

NoThread == [pc |-> "idle", fd |-> 0, buf |-> 0]
Goes(t, pc) == thread' = [thread EXCEPT ![t].pc = pc]
Ends(t)     == thread' = [thread EXCEPT ![t] = NoThread]

Init ==
  /\ cpc = [c \in Clients |-> "new"] /\ got = [c \in Clients |-> {}] /\ reqs = 0
  /\ answers = [c \in Clients |-> <<>>] /\ units = [c \in Clients |-> 0]
  /\ peer = [c \in Clients |-> "open"] /\ cut = {}
  /\ backlog = <<>>
  /\ fdtable = [f \in Fds |-> None] /\ registered = {} /\ tag = [f \in Fds |-> 0] /\ ready = {}
  /\ started = FALSE /\ evs = {}
  /\ thread = [t \in Threads |-> NoThread]
  /\ mtx = 0 /\ ev = 0 /\ spin_mtx = 0 /\ V = 0
  /\ alive = TRUE /\ stranded = 0 /\ strayed = FALSE /\ dropped = {} /\ faults = 0

-----------------------------------------------------------------------------
(* The kernel's part. *)

\* The descriptors in the epoll instance on which something of c arrives.
Edge(c) == {f \in registered : fdtable[f] = c}

Readable(f) == fdtable[f] # None /\ (units[fdtable[f]] > 0 \/ peer[fdtable[f]] # "open")

\* A new connection is an event, unless the last one was not yet collected.
Connect(c) ==
  /\ cpc[c] = "new"
  /\ cpc' = [cpc EXCEPT ![c] = "idle"]
  /\ backlog' = Append(backlog, c)
  /\ ready' = IF started THEN ready \cup {Listener} ELSE ready
  /\ stranded' = IF Listener \in ready THEN stranded + 1 ELSE stranded
  /\ UNCHANGED <<got, reqs, net, fdtable, registered, tag, main, thread, locks, alive, strayed, dropped, faults>>

-----------------------------------------------------------------------------
(* A client: it sends a length, waits for 32 bytes, and so on. *)

ClientSend(c, n) ==
  /\ cpc[c] = "idle" /\ c \notin cut /\ reqs < MaxReqs
  /\ cpc' = [cpc EXCEPT ![c] = "wait"] /\ reqs' = reqs + 1
  /\ units' = [units EXCEPT ![c] = @ + n]
  /\ ready' = ready \cup Edge(c)
  /\ UNCHANGED <<got, answers, peer, cut, backlog, fdtable, registered, tag, main, thread, locks, alive, history, faults>>

ClientRecv(c) ==
  /\ cpc[c] = "wait" /\ answers[c] # <<>>
  /\ got' = [got EXCEPT ![c] = @ \cup {Head(answers[c])}]
  /\ answers' = [answers EXCEPT ![c] = Tail(@)]
  /\ cpc' = [cpc EXCEPT ![c] = "idle"]
  /\ UNCHANGED <<reqs, units, peer, cut, backlog, epoll, main, thread, locks, alive, history, faults>>

\* "quit", or SIGINT whatever the client is doing.
ClientClose(c) ==
  /\ cpc[c] \in {"idle", "wait"}
  /\ cpc' = [cpc EXCEPT ![c] = "closed"]
  /\ peer' = [peer EXCEPT ![c] = IF answers[c] = <<>> THEN "fin" ELSE "rst"]
  /\ answers' = [answers EXCEPT ![c] = <<>>]
  /\ ready' = ready \cup Edge(c)
  /\ UNCHANGED <<got, reqs, units, cut, backlog, fdtable, registered, tag, main, thread, locks, alive, history, faults>>

\* The server has closed the connection: what the client sends after that is
\* answered by a reset, and the next message ends it.
ClientCut(c) ==
  /\ c \in cut /\ answers[c] = <<>> /\ cpc[c] \in {"idle", "wait"}
  /\ cpc' = [cpc EXCEPT ![c] = "closed"]
  /\ UNCHANGED <<got, reqs, net, backlog, epoll, main, thread, locks, alive, history, faults>>

-----------------------------------------------------------------------------
(* The main thread. *)

\* Connections that came between listen and Epoll_Ctl_ADD are one event.
Start ==
  /\ ~started
  /\ started' = TRUE
  /\ ready' = IF backlog = <<>> THEN {} ELSE {Listener}
  /\ stranded' = IF backlog = <<>> THEN 0 ELSE Len(backlog) - 1
  /\ UNCHANGED <<clients, net, backlog, fdtable, registered, tag, evs, thread, locks, alive, strayed, dropped, faults>>

EpollWait_Level ==
  /\ started /\ evs = {} /\ ready # {}
  /\ evs' = {tag[f] : f \in {g \in ready \cap registered : Readable(g)}} \cup (ready \cap {Listener})
  /\ UNCHANGED <<clients, net, backlog, epoll, started, thread, locks, alive, history, faults>>

\* A descriptor that another thread has read to its end meanwhile is left out.
EpollWait ==
  /\ started /\ evs = {} /\ ready # {}
  /\ evs' = {tag[f] : f \in {g \in ready \cap registered : Readable(g)}} \cup (ready \cap {Listener})
  /\ ready' = {}
  /\ UNCHANGED <<clients, net, backlog, fdtable, registered, tag, started, thread, locks, alive, history, faults>>

\* Threads are alike: the lowest free slot stands for a new one.
IsNew(t) == thread[t].pc = "idle" /\ \A u \in Threads : u < t => thread[u].pc # "idle"

Create_AnyFd(t, fd) ==
  /\ fd \in evs /\ IsNew(t)
  /\ thread' = [thread EXCEPT ![t] = [pc |-> "recv", fd |-> fd, buf |-> 0]]
  /\ evs' = evs \ {fd}
  /\ UNCHANGED <<clients, net, backlog, epoll, started, locks, alive, history, faults>>

Create(t, fd) ==
  /\ fd \in evs /\ IsNew(t)
  /\ thread' = [thread EXCEPT ![t] = [pc |-> IF fd = Listener THEN "accept" ELSE "recv", fd |-> fd, buf |-> 0]]
  /\ evs' = evs \ {fd}
  /\ UNCHANGED <<clients, net, backlog, epoll, started, locks, alive, history, faults>>

\* The result of pthread_create is not looked at: the event is lost.
CreateFails(fd) ==
  /\ fd \in evs /\ Fault
  /\ evs' = evs \ {fd}
  /\ IF fd = Listener THEN stranded' = stranded + 1 /\ UNCHANGED dropped
                      ELSE dropped' = dropped \cup ({fdtable[fd]} \ {None}) /\ UNCHANGED stranded
  /\ UNCHANGED <<clients, net, backlog, epoll, started, thread, locks, alive, strayed>>

-----------------------------------------------------------------------------
(* Create_connect. *)

FreeFds == {f \in Fds : fdtable[f] = None}

\* Without a free descriptor, or memory, the connection stays in the backlog.
Accept(t) ==
  /\ thread[t].pc = "accept" /\ backlog # <<>>
  /\ \/ \E f \in FreeFds :
          /\ \A g \in FreeFds : f <= g
          /\ fdtable' = [fdtable EXCEPT ![f] = Head(backlog)]
          /\ thread' = [thread EXCEPT ![t] = [pc |-> "add", fd |-> f, buf |-> 0]]
          /\ backlog' = Tail(backlog)
          /\ UNCHANGED <<stranded, faults>>
     \/ /\ IF FreeFds = {} THEN UNCHANGED faults ELSE Fault
        /\ Ends(t)
        /\ stranded' = stranded + 1
        /\ UNCHANGED <<fdtable, backlog>>
  /\ UNCHANGED <<clients, net, registered, tag, ready, main, locks, alive, strayed, dropped>>

AddLock(t) ==
  /\ thread[t].pc = "add" /\ mtx = 0
  /\ mtx' = t /\ ev' = thread[t].fd
  /\ Goes(t, "add_ctl")
  /\ UNCHANGED <<clients, net, backlog, epoll, main, spin_mtx, V, alive, history, faults>>

\* epoll_ctl fails for a descriptor that is closed or already there; what
\* has arrived before is an event.
AddCtl(t) ==
  LET fd == thread[t].fd IN
  /\ thread[t].pc = "add_ctl"
  /\ IF fdtable[fd] = None \/ fd \in registered THEN UNCHANGED <<registered, tag, ready>>
     ELSE /\ registered' = registered \cup {fd}
          /\ tag' = [tag EXCEPT ![fd] = ev]
          /\ ready' = IF Readable(fd) THEN ready \cup {fd} ELSE ready
  /\ mtx' = 0
  /\ Ends(t)
  /\ UNCHANGED <<clients, net, backlog, fdtable, main, ev, spin_mtx, V, alive, history, faults>>

-----------------------------------------------------------------------------
(* Conmmunication_mask. *)

\* errno is EAGAIN when nothing is left and the client is still there.
Recv(t) ==
  LET c == fdtable[thread[t].fd] IN
  /\ thread[t].pc = "recv"
  /\ \/ c = None /\ Goes(t, "close") /\ UNCHANGED units
     \/ /\ c # None /\ units[c] > 0
        /\ units' = [units EXCEPT ![c] = IF @ > RecvMax THEN @ - RecvMax ELSE 0]
        /\ Goes(t, "gen")
     \/ /\ c # None /\ units[c] = 0
        /\ \/ peer[c] = "open" /\ Goes(t, "send")
           \/ peer[c] \in {"fin", "rst"} /\ Goes(t, "del")
           \/ peer[c] = "rst" /\ Goes(t, "close")
        /\ UNCHANGED units
  /\ UNCHANGED <<clients, answers, peer, cut, backlog, epoll, main, locks, alive, history, faults>>

Generate_NoLock(t) ==
  /\ thread[t].pc = "gen"
  /\ spin_mtx' = t
  /\ thread' = [thread EXCEPT ![t] = [pc |-> "put", fd |-> @.fd, buf |-> V + 1]]
  /\ UNCHANGED <<clients, net, backlog, epoll, main, mtx, ev, V, alive, history, faults>>

\* srand_sm3_generate: srand_sm3_init is never called, so outMaxTimes and
\* outMaxInterval are 0 and V is made anew from the stirred pool every time;
\* V + 1 stands for the hash of what it is then.
Generate(t) ==
  /\ thread[t].pc = "gen" /\ spin_mtx = 0
  /\ spin_mtx' = t
  /\ thread' = [thread EXCEPT ![t] = [pc |-> "put", fd |-> @.fd, buf |-> V + 1]]
  /\ UNCHANGED <<clients, net, backlog, epoll, main, mtx, ev, V, alive, history, faults>>

Generated(t) ==
  /\ thread[t].pc = "put"
  /\ V' = thread[t].buf
  /\ spin_mtx' = 0
  /\ Goes(t, "recv")
  /\ UNCHANGED <<clients, net, backlog, epoll, main, mtx, ev, alive, history, faults>>

GenerateFails_KeepLock(t) ==
  /\ thread[t].pc = "gen" /\ spin_mtx = 0
  /\ Fault
  /\ spin_mtx' = t
  /\ dropped' = dropped \cup ({fdtable[thread[t].fd]} \ {None})
  /\ Ends(t)
  /\ UNCHANGED <<clients, net, backlog, epoll, main, mtx, ev, V, alive, stranded, strayed>>

\* Without memory the thread ends, and leaves the connection as it is.
GenerateFails(t) ==
  /\ thread[t].pc = "gen" /\ spin_mtx = 0
  /\ Fault
  /\ dropped' = dropped \cup ({fdtable[thread[t].fd]} \ {None})
  /\ Ends(t)
  /\ UNCHANGED <<clients, net, backlog, epoll, main, locks, alive, stranded, strayed>>

\* The first block sent to a client that is gone is answered by a reset; after
\* it the next one may end the process.
Send(t) ==
  LET fd == thread[t].fd
      c  == fdtable[fd]
  IN
  /\ thread[t].pc = "send"
  /\ \/ c = None /\ UNCHANGED <<answers, peer, ready, alive>>
     \/ /\ c # None /\ peer[c] = "open"
        /\ answers' = [answers EXCEPT ![c] = Append(@, thread[t].buf)]
        /\ UNCHANGED <<peer, ready, alive>>
     \/ /\ c # None /\ peer[c] = "fin"
        /\ peer' = [peer EXCEPT ![c] = "rst"]
        /\ ready' = ready \cup Edge(c)
        /\ UNCHANGED <<answers, alive>>
     \/ /\ c # None /\ peer[c] = "rst"
        /\ alive' \in BOOLEAN
        /\ UNCHANGED <<answers, peer, ready>>
  /\ Ends(t)
  /\ UNCHANGED <<clients, units, cut, backlog, fdtable, registered, tag, main, locks, history, faults>>

Del(t) ==
  /\ thread[t].pc = "del" /\ mtx = 0
  /\ registered' = registered \ {thread[t].fd}
  /\ ready' = ready \ {thread[t].fd}
  /\ tag' = [tag EXCEPT ![thread[t].fd] = 0]
  /\ Goes(t, "close")
  /\ UNCHANGED <<clients, net, backlog, fdtable, main, locks, alive, history, faults>>

\* Whatever connection has the number now is closed.
Close(t) ==
  LET fd == thread[t].fd IN
  /\ thread[t].pc = "close"
  /\ fdtable' = [fdtable EXCEPT ![fd] = None]
  /\ registered' = registered \ {fd}
  /\ ready' = ready \ {fd}
  /\ tag' = [tag EXCEPT ![fd] = 0]
  /\ units' = [c \in Clients |-> IF c = fdtable[fd] THEN 0 ELSE units[c]]
  /\ cut' = cut \cup ({fdtable[fd]} \ {None})
  /\ strayed' = (strayed \/ fd \in evs \/ \E u \in Threads \ {t} : thread[u].fd = fd)
  /\ Ends(t)
  /\ UNCHANGED <<clients, answers, peer, backlog, main, locks, alive, stranded, dropped, faults>>

-----------------------------------------------------------------------------
Client(c) == Connect(c) \/ (\E n \in Lengths : ClientSend(c, n)) \/ ClientRecv(c) \/ ClientClose(c) \/ ClientCut(c)

Main == Start \/ EpollWait \/ (\E fd \in evs : CreateFails(fd) \/ \E t \in Threads : Create(t, fd))

Thread(t) ==
  \/ Accept(t) \/ AddLock(t) \/ AddCtl(t)
  \/ Recv(t) \/ Generate(t) \/ Generated(t) \/ GenerateFails(t)
  \/ Send(t) \/ Del(t) \/ Close(t)

Next == alive /\ (Main \/ (\E c \in Clients : Client(c)) \/ \E t \in Threads : Thread(t))

Spec == Init /\ [][Next]_vars

\* Every thread runs, and a client takes what has arrived.
FairSpec ==
  /\ Spec
  /\ WF_vars(alive /\ Main)
  /\ \A t \in Threads : WF_vars(alive /\ Thread(t))
  /\ \A c \in Clients : WF_vars(alive /\ (ClientRecv(c) \/ ClientCut(c)))

-----------------------------------------------------------------------------
(* Properties. *)

Pcs == {"idle", "accept", "add", "add_ctl", "recv", "gen", "put", "send", "del", "close"}

\* Types; a thread that works on a connection has a descriptor's number.
TypeOK ==
  /\ cpc \in [Clients -> {"new", "idle", "wait", "closed"}]
  /\ got \in [Clients -> SUBSET Nat] /\ answers \in [Clients -> Seq(Nat)]
  /\ units \in [Clients -> Nat] /\ peer \in [Clients -> {"open", "fin", "rst"}] /\ cut \subseteq Clients
  /\ backlog \in Seq(Clients)
  /\ fdtable \in [Fds -> Clients \cup {None}] /\ registered \subseteq Fds
  /\ tag \in [Fds -> Fds \cup {0}] /\ ready \subseteq Fds \cup {Listener}
  /\ started \in BOOLEAN /\ evs \subseteq Fds \cup {Listener}
  /\ thread \in [Threads -> [pc : Pcs, fd : Fds \cup {0}, buf : Nat]]
  /\ \A t \in Threads : thread[t].fd = 0 <=> thread[t].pc \in {"idle", "accept"}
  /\ mtx \in Threads \cup {0} /\ ev \in Fds \cup {0} /\ spin_mtx \in Threads \cup {0} /\ V \in Nat
  /\ alive \in BOOLEAN /\ stranded \in Nat /\ strayed \in BOOLEAN /\ dropped \subseteq Clients
  /\ reqs \in 0 .. MaxReqs /\ faults \in 0 .. MaxFaults

\* The listener is a blocking socket, and accept is called once for an event:
\* it never has to wait, as there are never more threads in accept than
\* connections.
AcceptNeverBlocks == Cardinality({t \in Threads : thread[t].pc = "accept"}) <= Len(backlog)

Blocks(c) == got[c] \cup {answers[c][i] : i \in DOMAIN answers[c]}

\* A client gets one block for a request and none without, and no block is
\* blank, unless a descriptor was closed while another thread carried it; and
\* no two clients ever get the same block.
AnswersFresh ==
  /\ ~strayed => \A c \in Clients :
       /\ Len(answers[c]) <= IF cpc[c] = "wait" THEN 1 ELSE 0
       /\ 0 \notin Blocks(c)
  /\ \A c, d \in Clients : c # d => Blocks(c) \cap Blocks(d) \subseteq {0}

\* A client that waits is answered or cut, unless its connection is behind one
\* that was left in the backlog, its event or its block was given up for lack
\* of memory, or a descriptor was closed while another thread carried it.
Served ==
  \A c \in Clients : cpc[c] = "wait" ~>
    \/ cpc[c] # "wait" \/ c \in dropped \/ strayed \/ ~alive
    \/ stranded > 0 /\ \E i \in DOMAIN backlog : backlog[i] = c
=============================================================================

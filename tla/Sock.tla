---------------------------------- MODULE Sock ----------------------------------
(***************************************************************************)
(* The socket layer of src/common/Sock.c in the Linux build: the Socket    *)
(* structs an application owns, the process's descriptor table behind      *)
(* them, and the remote ends that drive it.                                *)
(*                                                                         *)
(* A Socket struct is three fields here: state, sessionState and           *)
(* _nix_socket (fd).  Every Sock__ function is one action with its early   *)
(* returns and its nested Sock__close.  The application and the kernel are *)
(* not part of the repository: the application calls the functions in the  *)
(* order the table at the top of Sock.c describes, the kernel answers the  *)
(* system calls the functions make.  The callbacks of _G run last in every *)
(* handler, so what an application does inside one is a later action here. *)
(***************************************************************************)
EXTENDS Integers, Sequences

CONSTANTS
  Servers,       (* Socket structs the application listens with           *)
  Clients,       (* Socket structs the application connects with          *)
  Pool,          (* Socket structs handed out by the callback onsockalloc *)
  MaxFd,         (* descriptors are 0 .. MaxFd                            *)
  RcvBuf,        (* bytes a kernel receive buffer holds                   *)
  SndBuf,        (* bytes a kernel send buffer holds                      *)
  MaxLen,        (* longest len passed to Sock__read and Sock__write      *)
  Backlog,       (* connections a listening socket queues (3 in the code) *)
  DEBUG_SLOW,    (* TRUE: the build evaluates ASSERT_CONTEXT's condition  *)
  ZeroedOnReuse  (* TRUE: a struct is zeroed before it is used again      *)

ASSUME SetsAssumption ==
  /\ Servers \cap Clients = {}
  /\ Servers \cap Pool = {}
  /\ Clients \cap Pool = {}
ASSUME BoundsAssumption ==
  /\ MaxFd \in Nat /\ MaxFd > 2
  /\ RcvBuf \in Nat \ {0} /\ SndBuf \in Nat \ {0}
  /\ MaxLen \in Nat \ {0} /\ Backlog \in Nat \ {0}
ASSUME SwitchAssumption == DEBUG_SLOW \in BOOLEAN /\ ZeroedOnReuse \in BOOLEAN

Socks  == Servers \cup Clients \cup Pool
Fds    == 0 .. MaxFd
Stdio  == 0 .. 2
NoFd   == -1               \* what socket() returns when it fails

SocketState  == {"NONE", "CONNECTED", "CLOSED"}
SessionState == {"NONE", "SERVER_HUNGUP"}

(***************************************************************************)
(* The kernel object behind a descriptor.  closewait: the peer's FIN has   *)
(* arrived; reset: an RST arrived while established (ECONNRESET pending);  *)
(* broken: an RST arrived after the FIN (EPIPE pending); refused: the      *)
(* connection attempt failed.  rx and tx count buffered bytes, nb is       *)
(* O_NONBLOCK, q holds the connections waiting on a listening socket.      *)
(***************************************************************************)
ConnState == {"connecting", "established", "closewait", "reset", "broken",
              "refused"}
KState    == {"free", "stdio", "created", "listening"} \cup ConnState
Pending   == {"established", "closewait", "reset"}
KObj      == [st : KState, rx : 0 .. RcvBuf, tx : 0 .. SndBuf, nb : BOOLEAN,
              q : Seq(Pending)]

NewObj(st) == [st |-> st, rx |-> 0, tx |-> 0, nb |-> FALSE, q |-> <<>>]
FreeObj    == NewObj("free")

VARIABLES
  state,    \* Socket.state
  session,  \* Socket.sessionState
  fd,       \* Socket._nix_socket
  phase,    \* what the application knows of the struct (see TypeOK)
  asked,    \* structs the application itself has closed
  kern,     \* the descriptor table
  wrote,    \* the last onsocksend callback: len reported, bytes taken
  proc      \* whether the process runs, hangs in a system call, or is dead

structs == <<state, session, fd>>
app     == <<phase, asked>>
vars    == <<state, session, fd, phase, asked, kern, wrote, proc>>

TypeOK ==
  /\ state \in [Socks -> SocketState]
  /\ session \in [Socks -> SessionState]
  /\ fd \in [Socks -> Fds \cup {NoFd}]
  \* free: not in use; inited: Sock__init returned; active: announced by
  \* Sock__listen, onsockconnect or onsockaccept; half: taken from
  \* onsockalloc by a Sock__accept that never announced it
  /\ phase \in [Socks -> {"free", "inited", "active", "half"}]
  /\ asked \in SUBSET Socks
  /\ kern \in [Fds -> KObj]
  /\ wrote \in [len : 0 .. MaxLen, took : 0 .. MaxLen]
  /\ proc \in {"running", "blocked", "aborted", "sigpipe"}

Init ==
  /\ state = [s \in Socks |-> "NONE"]
  /\ session = [s \in Socks |-> "NONE"]
  /\ fd = [s \in Socks |-> 0]
  /\ phase = [s \in Socks |-> "free"]
  /\ asked = {}
  /\ kern = [f \in Fds |-> IF f \in Stdio THEN NewObj("stdio") ELSE FreeObj]
  /\ wrote = [len |-> 0, took |-> 0]
  /\ proc = "running"

-----------------------------------------------------------------------------
(* The descriptor table *)

\* socket() and accept() hand out the lowest free descriptor
LowestFree(f) ==
  /\ kern[f].st = "free"
  /\ \A g \in Fds : kern[g].st = "free" => f <= g

\* close() of a descriptor that is not open is EBADF and does nothing
KernClose(f) == kern' = IF f \in Fds THEN [kern EXCEPT ![f] = FreeObj] ELSE kern

-----------------------------------------------------------------------------
(* Sock__close and the functions that set a socket up *)

\* Mistake: the two enumerations mixed up.
MarkClosedMixed(s) ==
  /\ state' = [state EXCEPT ![s] = "SERVER_HUNGUP"]
  /\ session' = [session EXCEPT ![s] = "CLOSED"]

MarkClosed(s) ==
  /\ state' = [state EXCEPT ![s] = "CLOSED"]
  /\ session' = [session EXCEPT ![s] = "SERVER_HUNGUP"]

\* Mistakes: the state is not updated, close() is not called, a socket that is
\* closed already is closed again.
CloseKeepsState(s) ==
  IF state[s] = "CLOSED"
  THEN UNCHANGED <<structs, kern>>
  ELSE /\ session' = [session EXCEPT ![s] = "SERVER_HUNGUP"]
       /\ KernClose(fd[s])
       /\ fd' = [fd EXCEPT ![s] = 0]
       /\ UNCHANGED state
CloseKeepsDescriptor(s) ==
  IF state[s] = "CLOSED"
  THEN UNCHANGED <<structs, kern>>
  ELSE /\ MarkClosed(s)
       /\ fd' = [fd EXCEPT ![s] = 0]
       /\ UNCHANGED kern
CloseTwice(s) ==
  /\ MarkClosed(s)
  /\ KernClose(fd[s])
  /\ fd' = [fd EXCEPT ![s] = 0]

Sock__close(s) ==
  IF state[s] = "CLOSED"
  THEN UNCHANGED <<structs, kern>>
  ELSE /\ MarkClosed(s)
       /\ KernClose(fd[s])
       /\ fd' = [fd EXCEPT ![s] = 0]

\* The application closes a socket it was given, or has set up itself.
CallClose(s) ==
  /\ proc = "running"
  /\ phase[s] \in {"inited", "active"}
  /\ Sock__close(s)
  /\ asked' = asked \cup {s}
  /\ UNCHANGED <<phase, wrote, proc>>

\* The application takes a closed struct for another connection.
Reuse(s) ==
  /\ proc = "running"
  /\ s \in Servers \cup Clients
  /\ phase[s] # "free" /\ state[s] = "CLOSED"
  /\ phase' = [phase EXCEPT ![s] = "free"]
  /\ asked' = asked \ {s}
  /\ IF ZeroedOnReuse
     THEN /\ state' = [state EXCEPT ![s] = "NONE"]
          /\ session' = [session EXCEPT ![s] = "NONE"]
          /\ fd' = [fd EXCEPT ![s] = 0]
     ELSE UNCHANGED structs
  /\ UNCHANGED <<kern, wrote, proc>>

\* socket() is written inside ASSERT_CONTEXT, so only the DEBUG_SLOW build calls
\* it.  When it fails, -1 stored in a u64 still compares >= 0; it is the
\* assertion on setsockopt that aborts.  A full table, ENFILE, ENOBUFS: socket()
\* may fail at any time.
InitAborts(s) ==
  /\ fd' = [fd EXCEPT ![s] = NoFd]
  /\ proc' = "aborted"
  /\ UNCHANGED <<state, session, phase, kern>>

\* After an address that is not one, Sock__close gives the descriptor back,
\* unless the struct was CLOSED already: then it returns early.
InitCreates(s, valid, f) ==
  /\ LowestFree(f)
  /\ phase' = [phase EXCEPT ![s] = "inited"]
  /\ IF valid \/ state[s] = "CLOSED"
     THEN /\ fd' = [fd EXCEPT ![s] = f]
          /\ kern' = [kern EXCEPT ![f] = [NewObj("created") EXCEPT !.nb = TRUE]]
          /\ UNCHANGED <<state, session>>
     ELSE /\ fd' = [fd EXCEPT ![s] = 0]
          /\ MarkClosed(s)
          /\ UNCHANGED kern
  /\ UNCHANGED proc

\* Without DEBUG_SLOW the fcntl acts on whatever descriptor the struct held.
InitSkipsSocket(s, valid) ==
  /\ phase' = [phase EXCEPT ![s] = "inited"]
  /\ IF valid \/ state[s] = "CLOSED"
     THEN /\ kern' = [kern EXCEPT ![fd[s]].nb = (kern[fd[s]].st # "free")]
          /\ UNCHANGED structs
     ELSE Sock__close(s)
  /\ UNCHANGED proc

\* valid: inet_pton accepts the address
Sock__init(s, valid) ==
  /\ proc = "running"
  /\ s \in Servers \cup Clients /\ phase[s] = "free"
  /\ IF DEBUG_SLOW THEN InitAborts(s) \/ \E f \in Fds : InitCreates(s, valid, f)
                   ELSE InitSkipsSocket(s, valid)
  /\ UNCHANGED <<asked, wrote>>

\* Mistake: a bind() that fails is let pass.
ListenAnyway(s) ==
  /\ proc = "running"
  /\ s \in Servers /\ phase[s] = "inited"
  /\ phase' = [phase EXCEPT ![s] = "active"]
  /\ \/ /\ kern[fd[s]].st = "created"
        /\ kern' = [kern EXCEPT ![fd[s]].st = "listening"]
     \/ UNCHANGED kern
  /\ UNCHANGED <<structs, asked, wrote, proc>>

\* No state is checked: after a failed Sock__init this binds descriptor 0.
Sock__listen(s) ==
  /\ proc = "running"
  /\ s \in Servers /\ phase[s] = "inited"
  /\ phase' = [phase EXCEPT ![s] = "active"]
  /\ \/ /\ kern[fd[s]].st = "created"
        /\ kern' = [kern EXCEPT ![fd[s]].st = "listening"]
        /\ UNCHANGED structs
     \/ Sock__close(s)               \* bind() or listen() failed
  /\ UNCHANGED <<asked, wrote, proc>>

-----------------------------------------------------------------------------
(* Sock__accept: one pending connection becomes one struct of Pool *)

\* An early return on a CLOSED struct changes nothing: the guard leaves it out.
Calls(s) == proc = "running" /\ phase[s] = "active" /\ state[s] # "CLOSED"

\* A call that finds nothing to do: EAGAIN, or a wait if O_NONBLOCK is not set.
WouldBlock(k) == proc' = IF k.nb THEN proc ELSE "blocked"

\* Mistake: a failed accept() is only reported.
AcceptFailsOpen(s) == UNCHANGED <<structs, app, kern, wrote, proc>>

\* accept() may fail at any time (a full table, before the backlog is looked at,
\* ENFILE, ENOBUFS, ECONNABORTED), and every errno but EAGAIN stops the listener.
AcceptFails(s) ==
  /\ Sock__close(s)
  /\ UNCHANGED <<app, wrote, proc>>

AcceptNothing(s) ==
  /\ kern[fd[s]].st = "listening" /\ kern[fd[s]].q = <<>>
  /\ WouldBlock(kern[fd[s]])
  /\ UNCHANGED <<structs, app, kern, wrote>>

\* onsockalloc hands out a zeroed struct no connection is using.
Allocatable(c) == phase[c] = "free" \/ state[c] = "CLOSED"

\* Mistake: the descriptor goes into the listening struct.
AcceptedIntoListener(s, c, f, obj) ==
  /\ kern[fd[s]].st = "listening" /\ kern[fd[s]].q # <<>>
  /\ LowestFree(f) /\ Allocatable(c)
  /\ kern' = [kern EXCEPT ![fd[s]].q = Tail(@), ![f] = obj]
  /\ fd' = [fd EXCEPT ![s] = f]
  /\ session' = [session EXCEPT ![c] = "NONE"]
  /\ asked' = asked \ {c}
  /\ UNCHANGED <<wrote, proc>>

\* accept() makes descriptor f of the first queued connection, and f goes in c.
Accepted(s, c, f, obj) ==
  /\ kern[fd[s]].st = "listening" /\ kern[fd[s]].q # <<>>
  /\ LowestFree(f) /\ Allocatable(c)
  /\ kern' = [kern EXCEPT ![fd[s]].q = Tail(@), ![f] = obj]
  /\ fd' = [fd EXCEPT ![c] = f]
  /\ session' = [session EXCEPT ![c] = "NONE"]
  /\ asked' = asked \ {c}
  /\ UNCHANGED <<wrote, proc>>

\* getpeername() fails when the connection was reset while it was queued; the
\* handler returns with the new descriptor stored in a struct nobody is told of.
AcceptHalf(s, c, f) ==
  /\ Accepted(s, c, f, NewObj("reset"))
  /\ Head(kern[fd[s]].q) = "reset"
  /\ state' = [state EXCEPT ![c] = "NONE"]
  /\ phase' = [phase EXCEPT ![c] = "half"]

\* Mistake: Sock__async is not called on the new descriptor.
AcceptBlocking(s, c, f, n) ==
  /\ Accepted(s, c, f, [NewObj(Head(kern[fd[s]].q)) EXCEPT !.rx = n])
  /\ Head(kern[fd[s]].q) # "reset"
  /\ state' = [state EXCEPT ![c] = "CONNECTED"]
  /\ phase' = [phase EXCEPT ![c] = "active"]

\* n bytes may have come while the connection was queued.
AcceptWhole(s, c, f, n) ==
  /\ Accepted(s, c, f,
              [NewObj(Head(kern[fd[s]].q)) EXCEPT !.nb = TRUE, !.rx = n])
  /\ Head(kern[fd[s]].q) # "reset"
  /\ state' = [state EXCEPT ![c] = "CONNECTED"]
  /\ phase' = [phase EXCEPT ![c] = "active"]

Sock__accept(s) ==
  /\ s \in Servers /\ Calls(s)
  /\ \/ AcceptFails(s)
     \/ AcceptNothing(s)
     \/ \E c \in Pool, f \in Fds :
          AcceptHalf(s, c, f) \/ \E n \in 0 .. RcvBuf : AcceptWhole(s, c, f, n)

-----------------------------------------------------------------------------
(* Sock__connect, Sock__read and Sock__write *)

\* connect() answers at once, is in progress, or fails.  A struct whose
\* Sock__init failed holds 0 and has no socket: there connect() always fails.
Sock__connect(s) ==
  /\ proc = "running"
  /\ s \in Clients /\ phase[s] = "inited"
  /\ \/ \E st \in {"connecting", "established"} :
          /\ kern[fd[s]].st = "created"
          /\ kern' = [kern EXCEPT ![fd[s]].st = st]
          /\ state' = [state EXCEPT ![s] = "CONNECTED"]
          /\ phase' = [phase EXCEPT ![s] = "active"]
          /\ UNCHANGED <<session, fd>>
     \/ /\ Sock__close(s)
        /\ UNCHANGED phase
  /\ UNCHANGED <<asked, wrote, proc>>

\* read() of an empty buffer is EAGAIN while the connection may still bring bytes.
MayBring(k) == k.st \in {"connecting", "established"}

\* Mistakes: EAGAIN is taken for an error, the end of the stream for EAGAIN.
ReadOrClose(s, len) ==
  LET k == kern[fd[s]]
  IN /\ s \in Clients \cup Pool /\ Calls(s)
     /\ \/ /\ k.rx > 0
           /\ kern' = [kern EXCEPT ![fd[s]].rx = IF len < @ THEN @ - len ELSE 0]
           /\ UNCHANGED structs
        \/ k.rx = 0 /\ Sock__close(s)
     /\ UNCHANGED <<app, wrote, proc>>
ReadIgnoresEnd(s, len) ==
  LET k == kern[fd[s]]
  IN /\ s \in Clients \cup Pool /\ Calls(s)
     /\ k.rx > 0 \/ k.st # "closewait"
     /\ IF k.rx > 0
        THEN /\ kern' = [kern EXCEPT ![fd[s]].rx = IF len < @ THEN @ - len ELSE 0]
             /\ UNCHANGED <<structs, proc>>
        ELSE IF MayBring(k) THEN WouldBlock(k) /\ UNCHANGED <<structs, kern>>
        ELSE Sock__close(s) /\ UNCHANGED proc
     /\ UNCHANGED <<app, wrote>>

Sock__read(s, len) ==
  LET k == kern[fd[s]]
  IN /\ s \in Clients \cup Pool /\ Calls(s)
     /\ \/ /\ k.rx > 0
           /\ kern' = [kern EXCEPT ![fd[s]].rx = IF len < @ THEN @ - len ELSE 0]
           /\ UNCHANGED <<structs, proc>>
        \/ /\ k.rx = 0 /\ ~MayBring(k)     \* end of stream, or an error
           /\ Sock__close(s)
           /\ UNCHANGED proc
        \/ /\ k.rx = 0 /\ MayBring(k)
           /\ WouldBlock(k)
           /\ UNCHANGED <<structs, kern>>
     /\ UNCHANGED <<app, wrote>>

\* send() takes what fits; onsocksend is told len all the same.  A full buffer
\* or an unfinished connect is EAGAIN.  A connection reset after the peer's FIN
\* is EPIPE, and the SIGPIPE that comes with it has its default action.
Sock__write(s, len) ==
  LET k    == kern[fd[s]]
      room == SndBuf - k.tx
      n    == IF len < room THEN len ELSE room
      open == k.st \in {"established", "closewait"}
      wait == k.st = "connecting" \/ (open /\ room = 0)
  IN /\ s \in Clients \cup Pool /\ Calls(s)
     /\ \/ /\ open /\ room > 0
           /\ kern' = [kern EXCEPT ![fd[s]].tx = @ + n]
           /\ wrote' = [len |-> len, took |-> n]
           /\ UNCHANGED <<structs, proc>>
        \/ /\ wait
           /\ WouldBlock(k)
           /\ UNCHANGED <<structs, kern, wrote>>
        \/ /\ k.st = "broken"
           /\ proc' = "sigpipe"
           /\ UNCHANGED <<structs, kern, wrote>>
        \/ /\ ~open /\ ~wait /\ k.st # "broken"
           /\ Sock__close(s)
           /\ UNCHANGED <<wrote, proc>>
     /\ UNCHANGED app

-----------------------------------------------------------------------------
(* The remote ends, as the kernel reports them *)

Remote(f, obj) ==
  /\ proc = "running"
  /\ kern' = [kern EXCEPT ![f] = obj]
  /\ UNCHANGED <<structs, app, wrote, proc>>

\* A peer connects to a listening socket.
Dial(f) ==
  /\ kern[f].st = "listening" /\ Len(kern[f].q) < Backlog
  /\ Remote(f, [kern[f] EXCEPT !.q = Append(@, "established")])

\* A peer that is still queued closes or resets its connection.
PendingEnds(f, i) ==
  /\ i \in 1 .. Len(kern[f].q)
  /\ \/ /\ kern[f].q[i] = "established"
        /\ Remote(f, [kern[f] EXCEPT !.q[i] = "closewait"])
     \/ /\ kern[f].q[i] # "reset"
        /\ Remote(f, [kern[f] EXCEPT !.q[i] = "reset"])

ConnectEnds(f) ==
  /\ kern[f].st = "connecting"
  /\ \E st \in {"established", "refused"} : Remote(f, [kern[f] EXCEPT !.st = st])

PeerSends(f) ==
  /\ kern[f].st = "established" /\ kern[f].rx < RcvBuf
  /\ Remote(f, [kern[f] EXCEPT !.rx = @ + 1])

PeerAcks(f) ==
  /\ kern[f].st \in {"established", "closewait"} /\ kern[f].tx > 0
  /\ Remote(f, [kern[f] EXCEPT !.tx = @ - 1])

PeerFin(f) ==
  /\ kern[f].st = "established"
  /\ Remote(f, [kern[f] EXCEPT !.st = "closewait"])

\* An RST drops what was not sent yet and leaves what was not read yet.
PeerReset(f) ==
  \/ /\ kern[f].st = "established"
     /\ Remote(f, [kern[f] EXCEPT !.st = "reset", !.tx = 0])
  \/ /\ kern[f].st = "closewait"
     /\ Remote(f, [kern[f] EXCEPT !.st = "broken", !.tx = 0])

-----------------------------------------------------------------------------
AppNext ==
  \E s \in Socks :
    \/ CallClose(s)
    \/ Reuse(s)
    \/ \E valid \in BOOLEAN : Sock__init(s, valid)
    \/ Sock__listen(s)
    \/ Sock__accept(s)
    \/ Sock__connect(s)
    \/ \E len \in 1 .. MaxLen : Sock__read(s, len)
    \/ \E len \in 1 .. MaxLen : Sock__write(s, len)

RemoteNext ==
  \E f \in Fds :
    \/ Dial(f)
    \/ \E i \in 1 .. Backlog : PendingEnds(f, i)
    \/ ConnectEnds(f)
    \/ PeerSends(f)
    \/ PeerAcks(f)
    \/ PeerFin(f)
    \/ PeerReset(f)

Next == AppNext \/ RemoteNext

Spec == Init /\ [][Next]_vars

\* An application that polls every socket it was told of: it calls Sock__read
\* for each connection and Sock__accept for each listener over and over.  None of
\* them needs another thread to move, so weak fairness per call is one loop.
Polling ==
  \A s \in Socks : /\ WF_vars(\E len \in 1 .. MaxLen : Sock__read(s, len))
                   /\ WF_vars(Sock__accept(s))
PollSpec == Spec /\ Polling

-----------------------------------------------------------------------------
(* Properties *)

\* A struct that is in use and not closed: Sock__close would act on its fd.
Refers(s) == phase[s] # "free" /\ state[s] # "CLOSED"
\* ... and that somebody still calls Sock__close with: nobody was told of the
\* struct of a Sock__accept that gave up.
Holds(s)  == Refers(s) /\ phase[s] # "half"
Open(f)   == kern[f].st \notin {"free", "stdio"}

\* Two structs never act on one descriptor, and the descriptor a struct would
\* close or read is open and is not one of stdin, stdout, stderr.  Sock__close
\* leaves 0 in _nix_socket, and descriptor numbers are handed out again at once,
\* so a struct that kept its old number would act on another connection.
OneOwner ==
  \A s \in Socks : Refers(s) =>
    /\ fd[s] \in Fds /\ Open(fd[s])
    /\ \A t \in Socks : Refers(t) /\ fd[t] = fd[s] => t = s

\* The one leak of the code: a connection that was reset while it was queued is
\* accepted into a struct nobody is told of, and stays open (Sock.c:303-306).
GivenUp(f) ==
  kern[f].st = "reset" /\ \E s \in Socks : phase[s] = "half" /\ fd[s] = f

\* There is no other one: whatever order the calls, the failures and the remote
\* events come in, every other open descriptor is in a struct whose owner knows of
\* it, so that Sock__close can still be called with it.
OnlyAcceptLeaks ==
  \A f \in Fds : Open(f) =>
    GivenUp(f) \/ \E s \in Socks : Holds(s) /\ fd[s] = f

\* Sock__close of a struct whose descriptor is 0 would close stdin.
StdioUntouched == \A f \in Stdio : kern[f] = NewObj("stdio")

\* A socket an application was told of by onsockaccept or onsockconnect, and that
\* is not closed, has a connection behind it; so has a listener its queue.
AnnouncedIsBacked ==
  \A s \in Socks : phase[s] = "active" /\ state[s] # "CLOSED" =>
    IF s \in Servers THEN kern[fd[s]].st = "listening"
                     ELSE /\ kern[fd[s]].st \in ConnState
                          /\ state[s] = "CONNECTED"

\* No call waits in the kernel: every listener and every connection, those that
\* accept() creates without O_NONBLOCK included, is non-blocking when it is used.
NeverBlocks == proc # "blocked"

\* Only the application or the connection's end closes a connection: never an
\* empty or a full buffer, a connect in progress, or unread bytes before the FIN.
ClosedForCause ==
  [][\A s \in Clients \cup Pool :
       phase[s] = "active" /\ state[s] = "CONNECTED" /\ state'[s] = "CLOSED" =>
         \/ s \in asked'
         \/ kern[fd[s]].st \in {"reset", "broken", "refused"}
         \/ kern[fd[s]].st = "closewait" /\ kern[fd[s]].rx = 0]_vars

Held    == [s \in Socks |-> IF Holds(s) THEN fd[s] ELSE NoFd]
OpenFds == {f \in Fds : Open(f)}
Table == INSTANCE DescriptorTable WITH
  Users <- Socks, Numbers <- Fds, None <- NoFd, held <- Held, open <- OpenFds

\* The step that is none of a descriptor table's: Sock__accept takes a connection
\* that was reset in the backlog, and opens a descriptor for nobody.
AcceptGivesUp ==
  /\ \E s \in Servers : /\ Calls(s) /\ kern[fd[s]].q # <<>>
                         /\ Head(kern[fd[s]].q) = "reset"
  /\ \E f \in Fds \ OpenFds : OpenFds' = OpenFds \cup {f} /\ GivenUp(f)'
  /\ UNCHANGED Held

\* Apart from that step the structs and the kernel together behave as a table of
\* descriptors with one user each: every step of every Sock__ function opens one
\* descriptor for a struct that held none, releases the one its struct holds, or
\* does neither.
DescriptorsAreOwned ==
  Table!Init /\ [][Table!Next \/ AcceptGivesUp]_(Table!table)

\* The build without DEBUG_SLOW is deaf and mute: whatever is called, no listener
\* and no connection is ever announced and left open over a descriptor of stdio.
ReleaseIsSilent ==
  ~DEBUG_SLOW => \A s \in Socks : phase[s] = "active" => state[s] = "CLOSED"

\* A connection that ended while it was announced and open is noticed by a
\* polling application: Sock__read drains what came before the end, then closes.
EndIsNoticed ==
  \A s \in Clients \cup Pool :
    /\ phase[s] = "active" /\ state[s] = "CONNECTED"
    /\ kern[fd[s]].st \in {"closewait", "reset", "broken", "refused"}
    ~> state[s] = "CLOSED" \/ proc # "running"

\* A full backlog does not stay full while the application polls: Sock__accept
\* takes a connection out of it, or stops listening.
BacklogDrains ==
  \A s \in Servers :
    phase[s] = "active" /\ state[s] # "CLOSED" /\ Len(kern[fd[s]].q) = Backlog
    ~> \/ proc # "running"
       \/ state[s] = "CLOSED" \/ Len(kern[fd[s]].q) < Backlog

-----------------------------------------------------------------------------
(* What the comments of Sock.c and its use promise, and the code does not do *)

\* Sock.c:17, "Write len bytes from buf to the socket": what onsocksend is told
\* was written is what the kernel took.
WroteWhatItReported == wrote.len = wrote.took

\* Sock.c:537-539 answers a failed send by closing the socket and returning -1:
\* a peer that is gone does not end the process.
PeerCannotKill == proc # "sigpipe"

\* Sock.c:280, "accept one new connection Socket": a struct asked of onsockalloc
\* is announced by onsockaccept or its descriptor is closed.
AcceptIsWhole == \A c \in Pool : phase[c] # "half"

\* Sock.c:185, "Create socket": a struct Sock__init did not give up on has one.
InitMakesSocket ==
  \A s \in Socks : phase[s] = "inited" /\ state[s] # "CLOSED" => Open(fd[s])

\* Sock.c:10, "Close a socket and update its state": after the application has
\* closed a socket it set up, its descriptor is closed too.
CloseCloses == \A s \in asked : phase[s] # "free" => ~Open(fd[s])
=============================================================================

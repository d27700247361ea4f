------------------------------- MODULE SockProofs -------------------------------
(***************************************************************************)
(* Proofs about Sock, for every number of structs and descriptors and      *)
(* every size of the buffers and of the backlog.                           *)
(***************************************************************************)
EXTENDS Sock, TLAPS

-----------------------------------------------------------------------------
(* Types *)

\* While the process runs, every struct's _nix_socket is a descriptor number:
\* the -1 of a failed socket() is only seen by the assertion that aborts.
FdIsNumber == proc = "running" => \A s \in Socks : fd[s] \in Fds

TypeInv == TypeOK /\ FdIsNumber

\* Records of the descriptor table, opened up once.
LEMMA KObjType ==
  ASSUME NEW k \in KObj
  PROVE  /\ k.st \in KState /\ k.rx \in 0 .. RcvBuf /\ k.tx \in 0 .. SndBuf
         /\ k.nb \in BOOLEAN /\ k.q \in Seq(Pending)
         /\ k = [st |-> k.st, rx |-> k.rx, tx |-> k.tx, nb |-> k.nb, q |-> k.q]
BY DEF KObj

LEMMA KObjUpdate ==
  ASSUME NEW k \in KObj
  PROVE  /\ \A v \in KState : [k EXCEPT !.st = v] \in KObj
         /\ \A v \in 0 .. RcvBuf : [k EXCEPT !.rx = v] \in KObj
         /\ \A v \in 0 .. SndBuf : [k EXCEPT !.tx = v] \in KObj
         /\ \A v \in BOOLEAN : [k EXCEPT !.nb = v] \in KObj
         /\ \A v \in Seq(Pending) : [k EXCEPT !.q = v] \in KObj
         /\ \A v \in KState, w \in 0 .. SndBuf : [k EXCEPT !.st = v, !.tx = w] \in KObj
         /\ \A v \in BOOLEAN, w \in 0 .. RcvBuf : [k EXCEPT !.nb = v, !.rx = w] \in KObj
BY DEF KObj

LEMMA NewObjType == ASSUME NEW st \in KState PROVE NewObj(st) \in KObj
BY BoundsAssumption DEF NewObj, KObj

LEMMA FreeObjType == FreeObj \in KObj
BY NewObjType DEF FreeObj, KState

\* What a read takes out of the receive buffer, and a send puts in the send buffer.
LEMMA ReadType ==
  ASSUME NEW k \in KObj, NEW len \in 1 .. MaxLen
  PROVE  LET new == [k EXCEPT !.rx = IF len < @ THEN @ - len ELSE 0]
         IN  new \in KObj /\ new.st = k.st /\ new.nb = k.nb
<1>1. (IF len < k.rx THEN k.rx - len ELSE 0) \in 0 .. RcvBuf
  BY KObjType, BoundsAssumption
<1> QED
  BY <1>1 DEF KObj

LEMMA WriteType ==
  ASSUME NEW k \in KObj, NEW len \in 1 .. MaxLen, SndBuf - k.tx > 0
  PROVE  LET n   == IF len < SndBuf - k.tx THEN len ELSE SndBuf - k.tx
             new == [k EXCEPT !.tx = @ + n]
         IN  n \in 0 .. MaxLen /\ new \in KObj /\ new.st = k.st /\ new.nb = k.nb
<1> DEFINE n == IF len < SndBuf - k.tx THEN len ELSE SndBuf - k.tx
<1>1. n \in 0 .. MaxLen /\ k.tx + n \in 0 .. SndBuf
  BY KObjType, BoundsAssumption
<1> QED
  BY <1>1 DEF KObj

LEMMA HeadType ==
  ASSUME NEW k \in KObj, k.q # <<>>
  PROVE  Head(k.q) \in Pending /\ Tail(k.q) \in Seq(Pending)
<1>1. k.q \in Seq(Pending)
  BY KObjType
<1> QED
  BY <1>1

LEMMA QueueUpdate ==
  ASSUME NEW q \in Seq(Pending), NEW i \in 1 .. Len(q), NEW e \in Pending
  PROVE  [q EXCEPT ![i] = e] \in Seq(Pending)
<1> DEFINE r == [q EXCEPT ![i] = e]
<1>1. Len(q) \in Nat /\ r \in [1 .. Len(q) -> Pending]
  OBVIOUS
<1> HIDE DEF r
<1>2. r \in Seq(Pending)
  BY <1>1
<1> QED
  BY <1>2 DEF r

LEMMA CloseType ==
  ASSUME TypeInv, NEW s \in Socks, Sock__close(s)
  PROVE  /\ state' \in [Socks -> SocketState]
         /\ session' \in [Socks -> SessionState]
         /\ fd' \in [Socks -> Fds \cup {NoFd}]
         /\ kern' \in [Fds -> KObj]
         /\ \A t \in Socks : fd[t] \in Fds => fd'[t] \in Fds
<1>1. 0 \in Fds
  BY BoundsAssumption DEF Fds
<1> QED
  BY <1>1, FreeObjType
     DEF TypeInv, TypeOK, Sock__close, MarkClosed, KernClose, structs, SocketState,
         SessionState

\* What the kernel and the remote ends do to one descriptor: never more than
\* moving it between the states of a connection.
SameKind(old, new) ==
  /\ old.st \in {"listening"} \cup ConnState \/ old.q # <<>>
  /\ new.nb = old.nb
  /\ new.st = old.st \/ (old.st \in ConnState /\ new.st \in ConnState)
  /\ old.st = "reset" => new.st = "reset"

LEMMA RemoteType ==
  ASSUME TypeInv, RemoteNext
  PROVE  \E f \in Fds, obj \in KObj : Remote(f, obj) /\ SameKind(kern[f], obj)
<1> USE BoundsAssumption DEF SameKind, ConnState
<1>0. PICK f \in Fds :
        \/ Dial(f)
        \/ \E i \in 1 .. Backlog : PendingEnds(f, i)
        \/ ConnectEnds(f) \/ PeerSends(f) \/ PeerAcks(f) \/ PeerFin(f) \/ PeerReset(f)
  BY DEF RemoteNext
<1> DEFINE k == kern[f]
<1>k. k \in KObj
  BY DEF TypeInv, TypeOK
<1>1. CASE Dial(f)
  <2>1. [k EXCEPT !.q = Append(@, "established")] \in KObj
    <3>1. Append(k.q, "established") \in Seq(Pending)
      BY <1>k, KObjType DEF Pending
    <3> QED
      BY <1>k, <3>1, KObjUpdate
  <2> QED
    BY <1>1, <1>k, <2>1 DEF Dial, KObj
<1>2. ASSUME NEW i \in 1 .. Backlog, PendingEnds(f, i)
      PROVE  \E g \in Fds, obj \in KObj : Remote(g, obj) /\ SameKind(kern[g], obj)
  <2>1. ASSUME NEW e \in Pending
        PROVE  [k EXCEPT !.q[i] = e] \in KObj
    <3>1. k.q \in Seq(Pending)
      BY <1>k, KObjType
    <3>2. [k.q EXCEPT ![i] = e] \in Seq(Pending)
      BY <3>1, <1>2, QueueUpdate DEF PendingEnds
    <3>3. [k EXCEPT !.q = [k.q EXCEPT ![i] = e]] \in KObj
      BY <1>k, <3>2, KObjUpdate
    <3>4. [k EXCEPT !.q[i] = e] = [k EXCEPT !.q = [k.q EXCEPT ![i] = e]]
      OBVIOUS
    <3> QED
      BY <3>3, <3>4
  <2>2. PICK e \in Pending : Remote(f, [k EXCEPT !.q[i] = e])
    BY <1>2 DEF PendingEnds, Pending
  <2>3. k.q # <<>>
    BY <1>2, <1>k, KObjType DEF PendingEnds
  <2> QED
    BY <1>k, <2>1, <2>2, <2>3 DEF KObj
<1>3. CASE ConnectEnds(f)
  <2>1. PICK st \in {"established", "refused"} : Remote(f, [k EXCEPT !.st = st])
    BY <1>3 DEF ConnectEnds
  <2>2. [k EXCEPT !.st = st] \in KObj
    BY <1>k DEF KObj, KState
  <2> QED
    BY <1>3, <1>k, <2>1, <2>2 DEF ConnectEnds, KObj
<1>4. CASE PeerSends(f)
  <2>1. [k EXCEPT !.rx = @ + 1] \in KObj
    BY <1>4, <1>k DEF PeerSends, KObj
  <2> QED
    BY <1>4, <1>k, <2>1 DEF PeerSends, KObj
<1>5. CASE PeerAcks(f)
  <2>1. [k EXCEPT !.tx = @ - 1] \in KObj
    BY <1>5, <1>k DEF PeerAcks, KObj
  <2> QED
    BY <1>5, <1>k, <2>1 DEF PeerAcks, KObj
<1>6. CASE PeerFin(f)
  <2>1. [k EXCEPT !.st = "closewait"] \in KObj
    BY <1>k DEF KObj, KState
  <2> QED
    BY <1>6, <1>k, <2>1 DEF PeerFin, KObj
<1>7. CASE PeerReset(f)
  <2>1. PICK st \in {"reset", "broken"} : /\ Remote(f, [k EXCEPT !.st = st, !.tx = 0])
                                         /\ k.st \in {"established", "closewait"}
    BY <1>7 DEF PeerReset
  <2>2. [k EXCEPT !.st = st, !.tx = 0] \in KObj
    <3>1. st \in KState /\ 0 \in 0 .. SndBuf
      BY DEF KState
    <3> QED
      BY <1>k, <3>1, KObjUpdate
  <2> QED
    BY <1>k, <2>1, <2>2 DEF KObj
<1> QED
  BY <1>0, <1>1, <1>2, <1>3, <1>4, <1>5, <1>6, <1>7

LEMMA TypeInit == Init => TypeInv
<1> SUFFICES ASSUME Init PROVE TypeInv
  OBVIOUS
<1>1. 0 \in Fds /\ 0 \in 0 .. MaxLen
  BY BoundsAssumption DEF Fds
<1>2. kern \in [Fds -> KObj]
  BY FreeObjType, NewObjType DEF Init, KState
<1> QED
  BY <1>1, <1>2 DEF Init, TypeInv, TypeOK, FdIsNumber, SocketState, SessionState

LEMMA TypeStep == TypeInv /\ [Next]_vars => TypeInv'
<1> SUFFICES ASSUME TypeInv, [Next]_vars PROVE TypeInv'
  OBVIOUS
<1> USE DEF TypeInv, TypeOK, FdIsNumber
<1>0. 0 \in Fds /\ MaxLen \in Nat /\ SndBuf \in Nat /\ RcvBuf \in Nat
  BY BoundsAssumption DEF Fds
<1>1. ASSUME NEW s \in Socks, CallClose(s) PROVE TypeInv'
  BY <1>1, CloseType DEF CallClose
<1>2. ASSUME NEW s \in Socks, Reuse(s) PROVE TypeInv'
  BY <1>0, <1>2 DEF Reuse, structs, SocketState, SessionState
<1>3. ASSUME NEW s \in Socks, NEW valid \in BOOLEAN, Sock__init(s, valid)
      PROVE  TypeInv'
  <2>0. CASE InitAborts(s)
    BY <1>3, <2>0 DEF Sock__init, InitAborts
  <2>1. ASSUME NEW f \in Fds, InitCreates(s, valid, f) PROVE TypeInv'
    <3>1. [NewObj("created") EXCEPT !.nb = TRUE] \in KObj
      BY NewObjType, KObjUpdate DEF KState
    <3>2. kern' \in [Fds -> KObj] /\ fd' \in [Socks -> Fds \cup {NoFd}]
      BY <1>0, <2>1, <3>1 DEF InitCreates
    <3>3. state' \in [Socks -> SocketState] /\ session' \in [Socks -> SessionState]
      BY <2>1 DEF InitCreates, MarkClosed, SocketState, SessionState
    <3>4. proc = "running" /\ \A t \in Socks : fd'[t] \in Fds
      BY <1>0, <1>3, <2>1 DEF InitCreates, Sock__init
    <3> QED
      BY <1>3, <2>1, <3>2, <3>3, <3>4 DEF Sock__init, InitCreates
  <2>2. ASSUME InitSkipsSocket(s, valid) PROVE TypeInv'
    <3>1. CASE valid \/ state[s] = "CLOSED"
      <4>1. [kern EXCEPT ![fd[s]].nb = (kern[fd[s]].st # "free")] \in [Fds -> KObj]
        <5>1. [kern[fd[s]] EXCEPT !.nb = (kern[fd[s]].st # "free")] \in KObj
          BY <1>3, KObjUpdate DEF Sock__init
        <5> QED
          BY <5>1
      <4> QED
        BY <1>3, <2>2, <3>1, <4>1 DEF InitSkipsSocket, Sock__init, structs
    <3>2. CASE ~(valid \/ state[s] = "CLOSED")
      BY <1>3, <2>2, <3>2, CloseType DEF InitSkipsSocket, Sock__init
    <3> QED
      BY <3>1, <3>2
  <2> QED
    BY <1>3, <2>0, <2>1, <2>2 DEF Sock__init
<1>4. ASSUME NEW s \in Socks, Sock__listen(s) PROVE TypeInv'
  <2>1. CASE kern' = [kern EXCEPT ![fd[s]].st = "listening"] /\ UNCHANGED structs
    <3>1. [kern EXCEPT ![fd[s]].st = "listening"] \in [Fds -> KObj]
      <4>1. "listening" \in KState /\ fd[s] \in Fds
        BY <1>4 DEF Sock__listen, KState
      <4>2. [kern[fd[s]] EXCEPT !.st = "listening"] \in KObj
        BY <4>1, KObjUpdate
      <4> QED
        BY <4>2
    <3> QED
      BY <1>4, <2>1, <3>1 DEF Sock__listen, structs
  <2>2. CASE Sock__close(s)
    BY <1>4, <2>2, CloseType DEF Sock__listen
  <2> QED
    BY <1>4, <2>1, <2>2 DEF Sock__listen
<1>5. ASSUME NEW s \in Socks, Sock__accept(s) PROVE TypeInv'
  <2>1. CASE AcceptFails(s)
    BY <1>5, <2>1, CloseType DEF AcceptFails, app
  <2>2. CASE AcceptNothing(s)
    BY <2>2 DEF AcceptNothing, WouldBlock, structs, app
  <2>3. ASSUME NEW c \in Pool, NEW f \in Fds, NEW obj \in KObj, Accepted(s, c, f, obj)
        PROVE  /\ kern' \in [Fds -> KObj] /\ proc' = proc /\ wrote' = wrote
               /\ fd' \in [Socks -> Fds] /\ session' \in [Socks -> SessionState]
               /\ asked' \in SUBSET Socks
    <3>1. fd \in [Socks -> Fds]
      BY <1>5 DEF Sock__accept, Calls
    <3>2. Tail(kern[fd[s]].q) \in Seq(Pending)
      BY <2>3, <3>1, HeadType DEF Accepted
    <3>3. [kern[fd[s]] EXCEPT !.q = Tail(@)] \in KObj
      BY <3>1, <3>2, KObjUpdate
    <3>4. kern' \in [Fds -> KObj]
      BY <2>3, <3>3 DEF Accepted
    <3> QED
      BY <2>3, <3>1, <3>4 DEF Accepted, SessionState
  <2>4. ASSUME NEW c \in Pool, NEW f \in Fds, AcceptHalf(s, c, f) PROVE TypeInv'
    <3>1. NewObj("reset") \in KObj /\ c \in Socks
      BY NewObjType DEF KState, ConnState, Socks
    <3> QED
      BY <2>3, <2>4, <3>1 DEF AcceptHalf, SocketState
  <2>5. ASSUME NEW c \in Pool, NEW f \in Fds, NEW n \in 0 .. RcvBuf,
               AcceptWhole(s, c, f, n)
        PROVE  TypeInv'
    <3> DEFINE head == Head(kern[fd[s]].q)
    <3>1. head \in Pending
      BY <1>5, <2>5, HeadType DEF AcceptWhole, Accepted, Sock__accept, Calls
    <3>2. NewObj(head) \in KObj
      BY <3>1, NewObjType DEF KState, ConnState, Pending
    <3>3. [NewObj(head) EXCEPT !.nb = TRUE, !.rx = n] \in KObj /\ c \in Socks
      BY <3>2, KObjUpdate DEF Socks
    <3> QED
      BY <2>3, <2>5, <3>3 DEF AcceptWhole, SocketState
  <2> QED
    BY <1>5, <2>1, <2>2, <2>4, <2>5 DEF Sock__accept
<1>6. ASSUME NEW s \in Socks, Sock__connect(s) PROVE TypeInv'
  <2>1. ASSUME NEW st \in {"connecting", "established"},
               kern' = [kern EXCEPT ![fd[s]].st = st],
               state' = [state EXCEPT ![s] = "CONNECTED"],
               phase' = [phase EXCEPT ![s] = "active"],
               UNCHANGED <<session, fd>>
        PROVE  TypeInv'
    <3>1. [kern EXCEPT ![fd[s]].st = st] \in [Fds -> KObj]
      <4>1. st \in KState /\ fd[s] \in Fds
        BY <1>6 DEF Sock__connect, KState, ConnState
      <4>2. [kern[fd[s]] EXCEPT !.st = st] \in KObj
        BY <4>1, KObjUpdate
      <4> QED
        BY <4>2
    <3> QED
      BY <1>6, <2>1, <3>1 DEF Sock__connect, SocketState
  <2>2. CASE Sock__close(s) /\ UNCHANGED phase
    BY <1>6, <2>2, CloseType DEF Sock__connect
  <2> QED
    BY <1>6, <2>1, <2>2 DEF Sock__connect
<1>7. ASSUME NEW s \in Socks, NEW len \in 1 .. MaxLen, Sock__read(s, len)
      PROVE  TypeInv'
  <2>1. fd[s] \in Fds
    BY <1>7 DEF Sock__read, Calls
  <2>2. CASE UNCHANGED <<structs, proc>>
             /\ kern' = [kern EXCEPT ![fd[s]].rx = IF len < @ THEN @ - len ELSE 0]
    <3>1. [kern[fd[s]] EXCEPT !.rx = IF len < @ THEN @ - len ELSE 0] \in KObj
      BY <2>1, ReadType
    <3>2. kern' \in [Fds -> KObj]
      BY <2>2, <3>1
    <3> QED
      BY <1>7, <2>2, <3>2 DEF Sock__read, structs, app
  <2>3. CASE Sock__close(s) /\ UNCHANGED proc
    BY <1>7, <2>3, CloseType DEF Sock__read, app
  <2>4. CASE WouldBlock(kern[fd[s]]) /\ UNCHANGED <<structs, kern>>
    BY <1>7, <2>4 DEF Sock__read, WouldBlock, structs, app
  <2> QED
    BY <1>7, <2>2, <2>3, <2>4 DEF Sock__read
<1>8. ASSUME NEW s \in Socks, NEW len \in 1 .. MaxLen, Sock__write(s, len)
      PROVE  TypeInv'
  <2> DEFINE k    == kern[fd[s]]
             room == SndBuf - k.tx
             n    == IF len < room THEN len ELSE room
  <2>1. fd[s] \in Fds
    BY <1>8 DEF Sock__write, Calls
  <2>2. CASE /\ room > 0
             /\ kern' = [kern EXCEPT ![fd[s]].tx = @ + n]
             /\ wrote' = [len |-> len, took |-> n]
             /\ UNCHANGED <<structs, proc>>
    <3>1. n \in 0 .. MaxLen /\ [k EXCEPT !.tx = @ + n] \in KObj
      BY <2>1, <2>2, WriteType
    <3>2. len \in 0 .. MaxLen
      BY <1>0
    <3>3. kern' \in [Fds -> KObj]
      BY <2>2, <3>1
    <3> QED
      BY <1>8, <2>2, <3>1, <3>2, <3>3 DEF Sock__write, structs, app
  <2>3. CASE WouldBlock(k) /\ UNCHANGED <<structs, kern, wrote>>
    BY <1>8, <2>3 DEF Sock__write, WouldBlock, structs, app
  <2>4. CASE proc' = "sigpipe" /\ UNCHANGED <<structs, kern, wrote>>
    BY <1>8, <2>4 DEF Sock__write, structs, app
  <2>5. CASE Sock__close(s) /\ UNCHANGED <<wrote, proc>>
    BY <1>8, <2>5, CloseType DEF Sock__write, app
  <2> QED
    BY <1>8, <2>2, <2>3, <2>4, <2>5 DEF Sock__write
<1>9. ASSUME NEW f \in Fds, NEW obj \in KObj, Remote(f, obj) PROVE TypeInv'
  BY <1>9 DEF Remote, structs, app
<1>10. ASSUME RemoteNext PROVE TypeInv'
  <2>1. PICK f \in Fds, obj \in KObj : Remote(f, obj)
    BY <1>10, RemoteType
  <2> QED
    BY <1>9, <2>1
<1>11. ASSUME UNCHANGED vars PROVE TypeInv'
  BY <1>11 DEF vars
<1> QED
  BY <1>1, <1>2, <1>3, <1>4, <1>5, <1>6, <1>7, <1>8, <1>10, <1>11 DEF Next, AppNext

THEOREM TypeSafety == Spec => []TypeOK
<1>1. TypeInv => TypeOK
  BY DEF TypeInv
<1> QED
  BY <1>1, TypeInit, TypeStep, PTL DEF Spec

-----------------------------------------------------------------------------
(* The build without DEBUG_SLOW *)

NoSocket == \A f \in Fds : kern[f].st \in {"free", "stdio"}

\* The inductive invariant: a build that never calls socket() never has one.
SilentInv ==
  /\ TypeInv /\ NoSocket
  /\ \A s \in Socks : phase[s] = "active" => state[s] = "CLOSED"

LEMMA CloseIsSilent ==
  ASSUME TypeInv, NoSocket, NEW s \in Socks, Sock__close(s)
  PROVE  /\ NoSocket' /\ state'[s] = "CLOSED"
         /\ \A t \in Socks : state[t] = "CLOSED" => state'[t] = "CLOSED"
<1>1. CASE state[s] = "CLOSED"
  BY <1>1 DEF Sock__close, structs, NoSocket
<1>2. CASE state[s] # "CLOSED"
  <2>1. state' = [state EXCEPT ![s] = "CLOSED"] /\ KernClose(fd[s])
    BY <1>2 DEF Sock__close, MarkClosed
  <2>2. FreeObj.st = "free"
    BY DEF FreeObj, NewObj
  <2> QED
    BY <2>1, <2>2 DEF TypeInv, TypeOK, KernClose, NoSocket
<1> QED
  BY <1>1, <1>2

LEMMA SilentStep ==
  ASSUME ~DEBUG_SLOW, SilentInv, [Next]_vars
  PROVE  SilentInv'
<1> USE DEF SilentInv
<1>t. TypeOK /\ FdIsNumber /\ TypeInv'
  BY TypeStep DEF TypeInv
<1>1. ASSUME NEW s \in Socks, CallClose(s) PROVE SilentInv'
  BY <1>1, <1>t, CloseIsSilent DEF CallClose
<1>2. ASSUME NEW s \in Socks, Reuse(s) PROVE SilentInv'
  BY <1>2, <1>t DEF Reuse, TypeOK, NoSocket, structs
<1>3. ASSUME NEW s \in Socks, NEW valid \in BOOLEAN, Sock__init(s, valid)
      PROVE  SilentInv'
  <2>0. /\ InitSkipsSocket(s, valid) /\ fd[s] \in Fds
        /\ phase' = [phase EXCEPT ![s] = "inited"]
    BY <1>3, <1>t DEF Sock__init, InitSkipsSocket, FdIsNumber
  <2>1. CASE valid \/ state[s] = "CLOSED"
    <3>1. /\ kern' = [kern EXCEPT ![fd[s]].nb = (kern[fd[s]].st # "free")]
          /\ state' = state
      BY <2>0, <2>1 DEF InitSkipsSocket, structs
    <3>2. \A f \in Fds : kern'[f].st = kern[f].st
      BY <2>0, <3>1, <1>t DEF TypeOK, KObj
    <3> QED
      BY <2>0, <3>1, <3>2, <1>t DEF TypeOK, NoSocket
  <2>2. CASE ~(valid \/ state[s] = "CLOSED")
    BY <2>0, <2>2, <1>t, CloseIsSilent DEF InitSkipsSocket, TypeOK
  <2> QED
    BY <2>1, <2>2
<1>4. ASSUME NEW s \in Socks, Sock__listen(s) PROVE SilentInv'
  <2>1. fd[s] \in Fds /\ kern[fd[s]].st # "created"
    BY <1>4, <1>t DEF Sock__listen, FdIsNumber, NoSocket
  <2>2. Sock__close(s) /\ phase' = [phase EXCEPT ![s] = "active"]
    BY <1>4, <2>1 DEF Sock__listen
  <2> QED
    BY <2>2, <1>t, CloseIsSilent DEF TypeOK
<1>5. ASSUME NEW s \in Socks, Sock__connect(s) PROVE SilentInv'
  <2>1. fd[s] \in Fds /\ kern[fd[s]].st # "created"
    BY <1>5, <1>t DEF Sock__connect, FdIsNumber, NoSocket
  <2>2. Sock__close(s) /\ phase' = phase
    BY <1>5, <2>1 DEF Sock__connect
  <2> QED
    BY <2>2, <1>t, CloseIsSilent
<1>6. ASSUME NEW s \in Socks, Calls(s) PROVE FALSE
  BY <1>6 DEF Calls
<1>7. ASSUME RemoteNext PROVE SilentInv'
  <2>1. PICK f \in Fds, obj \in KObj : Remote(f, obj) /\ SameKind(kern[f], obj)
    BY <1>7, RemoteType
  <2>2. obj.st = kern[f].st
    BY <2>1 DEF SameKind, NoSocket, ConnState
  <2> QED
    BY <2>1, <2>2, <1>t DEF Remote, structs, app, TypeOK, NoSocket
<1>8. ASSUME UNCHANGED vars PROVE SilentInv'
  BY <1>8, <1>t DEF vars, NoSocket
<1>9. CASE AppNext
  <2>1. PICK s \in Socks :
          \/ CallClose(s) \/ Reuse(s) \/ \E valid \in BOOLEAN : Sock__init(s, valid)
          \/ Sock__listen(s) \/ Sock__connect(s) \/ Calls(s)
    BY <1>9 DEF AppNext, Sock__accept, Sock__read, Sock__write
  <2> QED
    BY <2>1, <1>1, <1>2, <1>3, <1>4, <1>5, <1>6
<1> QED
  BY <1>7, <1>8, <1>9 DEF Next

\* In the build without DEBUG_SLOW nothing is ever announced and left open, whatever is
\* called: the socket() that stands inside ASSERT_CONTEXT is not called, so every
\* Sock__listen and every Sock__connect fails and closes its struct.
THEOREM ReleaseBuild == Spec => []ReleaseIsSilent
<1>1. CASE DEBUG_SLOW
  <2>1. ReleaseIsSilent
    BY <1>1 DEF ReleaseIsSilent
  <2> QED
    BY <2>1, PTL
<1>2. CASE ~DEBUG_SLOW
  <2>1. Init => SilentInv
    <3>1. \A f \in Fds : Init => kern[f].st \in {"free", "stdio"}
      BY DEF Init, FreeObj, NewObj
    <3> QED
      BY <3>1, TypeInit DEF Init, SilentInv, NoSocket
  <2>2. SilentInv /\ [Next]_vars => SilentInv'
    BY <1>2, SilentStep
  <2>3. SilentInv => ReleaseIsSilent
    BY DEF SilentInv, ReleaseIsSilent
  <2> QED
    BY <2>1, <2>2, <2>3, PTL DEF Spec
<1> QED
  BY <1>1, <1>2, SwitchAssumption

-----------------------------------------------------------------------------
(***************************************************************************)
(* Who owns which descriptor, proved for the build and the callers the     *)
(* ownership holds for: the DEBUG_SLOW build, which creates its sockets,   *)
(* and an application that zeroes a struct before it uses it again.        *)
(*                                                                         *)
(* Every step of Sock is of one of three kinds (StepKinds): it opens a     *)
(* descriptor for a struct that refers to none, releases the one its       *)
(* struct refers to, or changes neither.  Ownership and the refinement of  *)
(* DescriptorTable are proved per kind; a struct whose Sock__accept gave   *)
(* up refers to a descriptor that was reset, and keeps it for ever.        *)
(***************************************************************************)

Checked == DEBUG_SLOW = TRUE /\ ZeroedOnReuse = TRUE

\* Every open descriptor is in a struct, whoever was told of it, ...
NoneForgotten == \A f \in Fds : Open(f) => \E s \in Socks : Refers(s) /\ fd[s] = f

\* ... and if nobody was, its connection was reset before it was accepted.
HalfIsReset ==
  \A s \in Socks : Refers(s) /\ phase[s] = "half" => kern[fd[s]].st = "reset"

Owned == OneOwner /\ NoneForgotten /\ HalfIsReset /\ StdioUntouched

FreeIsZeroed == \A s \in Socks : phase[s] = "free" => state[s] = "NONE"

\* Why Sock__listen and Sock__connect of a closed struct touch nothing: they act
\* on descriptor 0, which is no socket.
ClosedIsZero == \A s \in Socks : state[s] = "CLOSED" => fd[s] = 0

\* The inductive invariant.
OwnInv == TypeInv /\ Owned /\ FreeIsZeroed /\ ClosedIsZero

-----------------------------------------------------------------------------
(* The kinds of steps *)

SameHolder(s) ==
  /\ Refers(s)' = Refers(s)
  /\ Refers(s) => fd'[s] = fd[s] /\ (phase'[s] = "half" <=> phase[s] = "half")
SameUse(f) ==
  /\ Open(f)' = Open(f)
  /\ f \in Stdio => kern'[f] = kern[f]
  /\ kern[f].st = "reset" => kern'[f].st = "reset"

Keeps == (\A s \in Socks : SameHolder(s)) /\ (\A f \in Fds : SameUse(f))

ResetIsQueued ==
  \E s \in Servers : /\ Calls(s) /\ kern[fd[s]].q # <<>>
                     /\ Head(kern[fd[s]].q) = "reset"

Grabs(s, f) ==
  /\ kern[f].st = "free" /\ Open(f)'
  /\ ~Refers(s) /\ Refers(s)' /\ fd'[s] = f
  /\ phase'[s] = "half" => kern'[f].st = "reset" /\ ResetIsQueued
  /\ \A t \in Socks \ {s} : SameHolder(t)
  /\ \A g \in Fds \ {f} : SameUse(g)

Drops(s) ==
  /\ Refers(s) /\ ~Refers(s)' /\ phase[s] # "half" /\ kern'[fd[s]].st = "free"
  /\ \A t \in Socks \ {s} : SameHolder(t)
  /\ \A g \in Fds \ {fd[s]} : SameUse(g)

StepKind ==
  \/ Keeps
  \/ \E s \in Socks, f \in Fds : Grabs(s, f)
  \/ \E s \in Socks : Drops(s)

LEMMA CloseKind ==
  ASSUME OwnInv, NEW s \in Socks, Sock__close(s),
         phase[s] \notin {"free", "half"},
         \A t \in Socks : /\ phase'[t] = "free" <=> phase[t] = "free"
                          /\ phase'[t] = "half" <=> phase[t] = "half"
  PROVE  Keeps \/ Drops(s)
<1> USE DEF OwnInv, TypeInv, TypeOK, Refers, SameHolder, SameUse, Open
<1>1. CASE state[s] = "CLOSED"
  BY <1>1 DEF Sock__close, structs, Keeps
<1>2. CASE state[s] # "CLOSED"
  <2>1. fd[s] \in Fds /\ Open(fd[s])
    BY <1>2 DEF Owned, OneOwner
  <2>2. kern' = [kern EXCEPT ![fd[s]] = FreeObj]
    BY <1>2, <2>1 DEF Sock__close, KernClose
  <2>3. state' = [state EXCEPT ![s] = "CLOSED"] /\ fd' = [fd EXCEPT ![s] = 0]
    BY <1>2 DEF Sock__close, MarkClosed
  <2>4. kern'[fd[s]].st = "free"
    BY <2>1, <2>2 DEF FreeObj, NewObj
  <2>5. Refers(s) /\ ~Refers(s)'
    BY <1>2, <2>3
  <2>6. \A t \in Socks \ {s} : SameHolder(t)
    BY <2>3
  <2>7. \A g \in Fds \ {fd[s]} : SameUse(g)
    BY <2>1, <2>2
  <2> QED
    BY <2>4, <2>5, <2>6, <2>7 DEF Drops
<1> QED
  BY <1>1, <1>2

\* A step that leaves the structs alone and only rewrites an open descriptor.
LEMMA RewriteKind ==
  ASSUME OwnInv, NEW f \in Fds, NEW obj \in KObj, Open(f), obj.st \notin {"free", "stdio"},
         kern' = [kern EXCEPT ![f] = obj], kern[f].st = "reset" => obj.st = "reset",
         \A t \in Socks : SameHolder(t)
  PROVE  Keeps
BY DEF OwnInv, Owned, StdioUntouched, TypeInv, TypeOK, SameUse, Open, Keeps, NewObj

LEMMA StepKinds == ASSUME Checked, OwnInv, [Next]_vars PROVE StepKind
<1> USE DEF StepKind
<1>t. TypeInv /\ TypeOK /\ FdIsNumber
  BY DEF OwnInv, TypeInv
<1>1. ASSUME NEW s \in Socks, CallClose(s) PROVE StepKind
  BY <1>1, CloseKind DEF CallClose
<1>2. ASSUME NEW s \in Socks, Reuse(s) PROVE StepKind
  BY <1>2, <1>t DEF Reuse, Keeps, SameHolder, SameUse, Refers, Open, TypeOK, Checked
<1>3. ASSUME NEW s \in Socks, NEW valid \in BOOLEAN, Sock__init(s, valid) PROVE StepKind
  <2>1. phase[s] = "free" /\ state[s] = "NONE" /\ ~Refers(s)
    BY <1>3 DEF Sock__init, OwnInv, FreeIsZeroed, Refers
  <2>2. CASE InitAborts(s)
    BY <2>1, <2>2, <1>t DEF InitAborts, Keeps, SameHolder, SameUse, Refers, Open, TypeOK
  <2>3. ASSUME NEW f \in Fds, InitCreates(s, valid, f), valid = TRUE PROVE Grabs(s, f)
    <3>1. kern[f].st = "free"
      BY <2>3 DEF InitCreates, LowestFree
    <3>2. kern'[f].st = "created" /\ \A g \in Fds \ {f} : kern'[g] = kern[g]
      BY <2>3, <1>t DEF InitCreates, TypeOK, NewObj
    <3>3. fd'[s] = f /\ \A t \in Socks \ {s} : fd'[t] = fd[t]
      BY <2>3, <1>t DEF InitCreates, TypeOK
    <3>4. state' = state /\ phase'[s] = "inited"
          /\ \A t \in Socks \ {s} : phase'[t] = phase[t]
      BY <2>3, <1>t DEF InitCreates, TypeOK
    <3> QED
      BY <2>1, <3>1, <3>2, <3>3, <3>4 DEF Grabs, SameHolder, SameUse, Refers, Open
  <2>4. ASSUME NEW f \in Fds, InitCreates(s, valid, f), valid = FALSE PROVE Keeps
    BY <2>1, <2>4, <1>t
       DEF InitCreates, MarkClosed, Keeps, SameHolder, SameUse, Refers, Open, TypeOK
  <2> QED
    BY <1>3, <2>2, <2>3, <2>4 DEF Sock__init, Checked
<1>4. ASSUME NEW s \in Socks, Sock__listen(s) PROVE StepKind
  <2>0. phase[s] = "inited" /\ phase' = [phase EXCEPT ![s] = "active"] /\ fd[s] \in Fds
    BY <1>4, <1>t DEF Sock__listen, FdIsNumber
  <2>1. CASE /\ kern[fd[s]].st = "created"
             /\ kern' = [kern EXCEPT ![fd[s]].st = "listening"] /\ UNCHANGED structs
    <3>1. kern[fd[s]] \in KObj
      BY <2>0, <1>t DEF TypeOK
    <3>2. [kern[fd[s]] EXCEPT !.st = "listening"] \in KObj
      BY <3>1, KObjUpdate DEF KState
    <3>3. [kern[fd[s]] EXCEPT !.st = "listening"].st = "listening"
      BY <3>1 DEF KObj
    <3>4. \A t \in Socks : SameHolder(t)
      BY <2>0, <2>1, <1>t DEF SameHolder, Refers, structs, TypeOK
    <3> QED
      BY <2>0, <2>1, <3>2, <3>3, <3>4, RewriteKind DEF Open, structs
  <2>2. CASE Sock__close(s)
    BY <2>0, <2>2, <1>t, CloseKind DEF TypeOK
  <2> QED
    BY <1>4, <2>1, <2>2 DEF Sock__listen
<1>5. ASSUME NEW s \in Socks, Sock__accept(s) PROVE StepKind
  <2>0. fd[s] \in Fds /\ phase[s] = "active" /\ Refers(s)
    BY <1>5, <1>t DEF Sock__accept, Calls, FdIsNumber, Refers
  <2>1. CASE AcceptFails(s)
    BY <2>0, <2>1, CloseKind DEF AcceptFails, app
  <2>2. CASE AcceptNothing(s)
    BY <2>2 DEF AcceptNothing, structs, app, Keeps, SameHolder, SameUse, Refers, Open
  <2>3. ASSUME NEW c \in Pool, NEW f \in Fds, NEW obj \in KObj, Accepted(s, c, f, obj),
               obj.st \notin {"free", "stdio"}, NEW st \in {"NONE", "CONNECTED"},
               NEW ph \in {"half", "active"}, ph = "half" => obj.st = "reset" /\ ResetIsQueued,
               state' = [state EXCEPT ![c] = st], phase' = [phase EXCEPT ![c] = ph]
        PROVE  Grabs(c, f)
    <3>0. c \in Socks
      BY DEF Socks
    <3>1. kern[f].st = "free" /\ f # fd[s] /\ kern[fd[s]].st = "listening"
      BY <2>3 DEF Accepted, LowestFree
    <3>2. kern[fd[s]] \in KObj
      BY <2>0, <1>t DEF TypeOK
    <3>3. [kern[fd[s]] EXCEPT !.q = Tail(@)].st = "listening"
      BY <3>1, <3>2 DEF KObj
    <3>4. /\ kern'[f] = obj
          /\ kern'[fd[s]] = [kern[fd[s]] EXCEPT !.q = Tail(@)]
          /\ \A g \in Fds \ {f, fd[s]} : kern'[g] = kern[g]
      BY <2>0, <2>3, <3>1, <1>t DEF Accepted, TypeOK
    <3>5. fd[s] \notin Stdio
      BY <2>0, <3>1 DEF OwnInv, Owned, StdioUntouched, NewObj
    <3>6. \A g \in Fds \ {f} : SameUse(g)
      BY <3>1, <3>3, <3>4, <3>5 DEF SameUse, Open
    <3>7. ~Refers(c)
      BY <2>3 DEF Accepted, Allocatable, Refers
    <3>8. Refers(c)' /\ fd'[c] = f /\ phase'[c] = ph
      BY <2>3, <3>0, <1>t DEF Accepted, Refers, TypeOK
    <3>9. \A t \in Socks \ {c} : SameHolder(t)
      BY <2>3, <1>t DEF Accepted, SameHolder, Refers, TypeOK
    <3> QED
      BY <2>3, <3>1, <3>4, <3>6, <3>7, <3>8, <3>9 DEF Grabs, Open
  <2>4. ASSUME NEW c \in Pool, NEW f \in Fds, AcceptHalf(s, c, f) PROVE StepKind
    <3>1. NewObj("reset") \in KObj /\ NewObj("reset").st = "reset" /\ c \in Socks
      BY NewObjType DEF KState, ConnState, NewObj, Socks
    <3>2. ResetIsQueued
      BY <1>5, <2>4 DEF AcceptHalf, Accepted, Sock__accept, ResetIsQueued
    <3>3. Grabs(c, f)
      BY <2>3, <2>4, <3>1, <3>2 DEF AcceptHalf
    <3> QED
      BY <3>1, <3>3
  <2>5. ASSUME NEW c \in Pool, NEW f \in Fds, NEW n \in 0 .. RcvBuf,
               AcceptWhole(s, c, f, n)
        PROVE  StepKind
    <3> DEFINE head == Head(kern[fd[s]].q)
               obj  == [NewObj(head) EXCEPT !.nb = TRUE, !.rx = n]
    <3>1. head \in Pending
      BY <2>0, <2>5, <1>t, HeadType DEF AcceptWhole, Accepted, TypeOK
    <3>2. NewObj(head) \in KObj /\ NewObj(head).st = head
      BY <3>1, NewObjType DEF KState, ConnState, Pending, NewObj
    <3>3. obj \in KObj /\ obj.st = head /\ c \in Socks
      BY <3>2, KObjUpdate DEF Socks, KObj
    <3> QED
      BY <2>3, <2>5, <3>1, <3>3 DEF AcceptWhole, Pending
  <2> QED
    BY <1>5, <2>1, <2>2, <2>4, <2>5 DEF Sock__accept
<1>6. ASSUME NEW s \in Socks, Sock__connect(s) PROVE StepKind
  <2>0. phase[s] = "inited" /\ fd[s] \in Fds
    BY <1>6, <1>t DEF Sock__connect, FdIsNumber
  <2>1. ASSUME NEW st \in {"connecting", "established"},
               kern[fd[s]].st = "created", kern' = [kern EXCEPT ![fd[s]].st = st],
               state' = [state EXCEPT ![s] = "CONNECTED"],
               phase' = [phase EXCEPT ![s] = "active"], UNCHANGED <<session, fd>>
        PROVE  StepKind
    <3>1. kern[fd[s]] \in KObj
      BY <2>0, <1>t DEF TypeOK
    <3>2. [kern[fd[s]] EXCEPT !.st = st] \in KObj
      BY <3>1, KObjUpdate DEF KState, ConnState
    <3>3. [kern[fd[s]] EXCEPT !.st = st].st = st
      BY <3>1 DEF KObj
    <3>4. Refers(s)
      <4>1. fd[s] # 0
        BY <2>1, BoundsAssumption
           DEF OwnInv, Owned, StdioUntouched, Stdio, NewObj
      <4> QED
        BY <2>0, <4>1 DEF OwnInv, ClosedIsZero, Refers
    <3>5. \A t \in Socks : SameHolder(t)
      BY <2>0, <2>1, <3>4, <1>t DEF SameHolder, Refers, TypeOK
    <3> QED
      BY <2>0, <2>1, <3>2, <3>3, <3>5, RewriteKind DEF Open
  <2>2. CASE Sock__close(s) /\ UNCHANGED phase
    BY <2>0, <2>2, CloseKind
  <2> QED
    BY <1>6, <2>1, <2>2 DEF Sock__connect
<1>7. ASSUME NEW s \in Socks, NEW len \in 1 .. MaxLen, Sock__read(s, len) PROVE StepKind
  <2>0. fd[s] \in Fds /\ phase[s] = "active" /\ Refers(s)
    BY <1>7, <1>t DEF Sock__read, Calls, FdIsNumber, Refers
  <2>1. CASE /\ kern' = [kern EXCEPT ![fd[s]].rx = IF len < @ THEN @ - len ELSE 0]
             /\ UNCHANGED <<structs, proc>>
    <3> DEFINE new == [kern[fd[s]] EXCEPT !.rx = IF len < @ THEN @ - len ELSE 0]
    <3>1. kern[fd[s]] \in KObj /\ Open(fd[s])
      BY <2>0, <1>t DEF TypeOK, OwnInv, Owned, OneOwner
    <3>2. new \in KObj /\ new.st = kern[fd[s]].st
      BY <3>1, ReadType
    <3>3. \A t \in Socks : SameHolder(t)
      BY <1>7, <2>1 DEF Sock__read, SameHolder, Refers, structs, app
    <3> QED
      BY <2>0, <2>1, <3>1, <3>2, <3>3, RewriteKind DEF Open, structs
  <2>2. CASE Sock__close(s)
    BY <1>7, <2>0, <2>2, CloseKind DEF Sock__read, app
  <2>3. CASE UNCHANGED <<structs, kern>>
    BY <1>7, <2>3
       DEF Sock__read, structs, app, Keeps, SameHolder, SameUse, Refers, Open
  <2> QED
    BY <1>7, <2>1, <2>2, <2>3 DEF Sock__read
<1>8. ASSUME NEW s \in Socks, NEW len \in 1 .. MaxLen, Sock__write(s, len) PROVE StepKind
  <2> DEFINE k    == kern[fd[s]]
             room == SndBuf - k.tx
             n    == IF len < room THEN len ELSE room
             new  == [k EXCEPT !.tx = @ + n]
  <2>0. fd[s] \in Fds /\ phase[s] = "active" /\ Refers(s)
    BY <1>8, <1>t DEF Sock__write, Calls, FdIsNumber, Refers
  <2>1. CASE room > 0 /\ kern' = [kern EXCEPT ![fd[s]].tx = @ + n] /\ UNCHANGED structs
    <3>1. k \in KObj /\ Open(fd[s])
      BY <2>0, <1>t DEF TypeOK, OwnInv, Owned, OneOwner
    <3>2. new \in KObj /\ new.st = k.st
      BY <2>1, <3>1, WriteType
    <3>3. \A t \in Socks : SameHolder(t)
      BY <1>8, <2>1 DEF Sock__write, SameHolder, Refers, structs, app
    <3> QED
      BY <2>0, <2>1, <3>1, <3>2, <3>3, RewriteKind DEF Open, structs
  <2>2. CASE Sock__close(s)
    BY <1>8, <2>0, <2>2, CloseKind DEF Sock__write, app
  <2>3. CASE UNCHANGED <<structs, kern>>
    BY <1>8, <2>3
       DEF Sock__write, structs, app, Keeps, SameHolder, SameUse, Refers, Open
  <2> QED
    BY <1>8, <2>1, <2>2, <2>3 DEF Sock__write
<1>9. ASSUME RemoteNext PROVE StepKind
  <2>1. PICK f \in Fds, obj \in KObj : Remote(f, obj) /\ SameKind(kern[f], obj)
    BY <1>9, <1>t, RemoteType
  <2>2. f \notin Stdio
    BY <2>1 DEF SameKind, ConnState, OwnInv, Owned, StdioUntouched, NewObj
  <2> QED
    BY <2>1, <2>2, <1>t
       DEF Remote, SameKind, ConnState, structs, app, Keeps, SameHolder, SameUse, Refers,
           Open, TypeOK
<1>10. ASSUME UNCHANGED vars PROVE StepKind
  BY <1>10 DEF vars, Keeps, SameHolder, SameUse, Refers, Open
<1> QED
  BY <1>1, <1>2, <1>3, <1>4, <1>5, <1>6, <1>7, <1>8, <1>9, <1>10 DEF Next, AppNext

-----------------------------------------------------------------------------
(* Ownership is kept by each kind of step *)

LEMMA KindKeepsOwned ==
  ASSUME OwnInv, TypeInv', StepKind
  PROVE  Owned'
<1> USE DEF Owned, OneOwner, NoneForgotten, HalfIsReset, StdioUntouched
<1>t. Stdio \subseteq Fds /\ \A f \in Stdio : ~Open(f)
  BY BoundsAssumption DEF OwnInv, Stdio, Fds, Open, NewObj
<1>1. CASE Keeps
  <2>1. OneOwner'
    BY <1>1 DEF OwnInv, Keeps, SameHolder, SameUse
  <2>2. NoneForgotten'
    BY <1>1 DEF OwnInv, Keeps, SameHolder, SameUse
  <2>3. StdioUntouched'
    BY <1>1, <1>t DEF OwnInv, Keeps, SameUse
  <2>4. HalfIsReset'
    BY <1>1 DEF OwnInv, Keeps, SameHolder, SameUse
  <2> QED
    BY <2>1, <2>2, <2>3, <2>4
<1>2. ASSUME NEW s \in Socks, NEW f \in Fds, Grabs(s, f) PROVE Owned'
  <2>0. ~Open(f) /\ f \notin Stdio
    BY <1>2 DEF Grabs, Open, OwnInv, NewObj
  <2>1. OneOwner'
    BY <1>2, <2>0 DEF OwnInv, Grabs, SameHolder, SameUse
  <2>2. NoneForgotten'
    BY <1>2, <2>0 DEF OwnInv, Grabs, SameHolder, SameUse
  <2>3. StdioUntouched'
    BY <1>2, <2>0, <1>t DEF OwnInv, Grabs, SameUse
  <2>4. HalfIsReset'
    BY <1>2, <2>0 DEF OwnInv, Grabs, SameHolder, SameUse, Open
  <2> QED
    BY <2>1, <2>2, <2>3, <2>4
<1>3. ASSUME NEW s \in Socks, Drops(s) PROVE Owned'
  <2>0. /\ fd[s] \in Fds \ Stdio
        /\ \A t \in Socks \ {s} : Refers(t) => fd[t] # fd[s]
    BY <1>3, <1>t DEF OwnInv, Drops
  <2>1. OneOwner'
    BY <1>3, <2>0 DEF OwnInv, Drops, SameHolder, SameUse
  <2>2. NoneForgotten'
    BY <1>3, <2>0 DEF OwnInv, Drops, SameHolder, SameUse, Open
  <2>3. StdioUntouched'
    BY <1>3, <2>0, <1>t DEF OwnInv, Drops, SameUse
  <2>4. HalfIsReset'
    BY <1>3, <2>0 DEF OwnInv, Drops, SameHolder, SameUse
  <2> QED
    BY <2>1, <2>2, <2>3, <2>4
<1> QED
  BY <1>1, <1>2, <1>3 DEF StepKind

\* The two facts about idle structs, action by action.
LEMMA IdleStep ==
  ASSUME Checked, OwnInv, [Next]_vars
  PROVE  FreeIsZeroed' /\ ClosedIsZero'
<1> USE DEF FreeIsZeroed, ClosedIsZero
<1>t. TypeOK /\ FreeIsZeroed /\ ClosedIsZero
  BY DEF OwnInv, TypeInv
<1>0. ASSUME NEW s \in Socks, Sock__close(s)
      PROVE  /\ \A t \in Socks : state'[t] = "CLOSED" => fd'[t] = 0
             /\ \A t \in Socks : state'[t] = state[t] \/ t = s
  BY <1>0, <1>t DEF Sock__close, MarkClosed, structs, TypeOK
<1>1. ASSUME NEW s \in Socks, CallClose(s) PROVE FreeIsZeroed' /\ ClosedIsZero'
  BY <1>0, <1>1, <1>t DEF CallClose
<1>2. ASSUME NEW s \in Socks, Reuse(s) PROVE FreeIsZeroed' /\ ClosedIsZero'
  BY <1>2, <1>t DEF Reuse, Checked, TypeOK
<1>3. ASSUME NEW s \in Socks, NEW valid \in BOOLEAN, Sock__init(s, valid)
      PROVE  FreeIsZeroed' /\ ClosedIsZero'
  BY <1>3, <1>t
     DEF Sock__init, InitAborts, InitCreates, MarkClosed, Checked, TypeOK
<1>4. ASSUME NEW s \in Socks, Sock__listen(s) PROVE FreeIsZeroed' /\ ClosedIsZero'
  BY <1>0, <1>4, <1>t DEF Sock__listen, structs, TypeOK
<1>5. ASSUME NEW s \in Socks, Sock__accept(s) PROVE FreeIsZeroed' /\ ClosedIsZero'
  <2>1. CASE AcceptFails(s)
    BY <1>0, <1>5, <1>t, <2>1 DEF AcceptFails, app, Sock__accept, Calls
  <2>2. CASE AcceptNothing(s)
    BY <1>t, <2>2 DEF AcceptNothing, structs, app
  <2>3. ASSUME NEW c \in Pool, NEW f \in Fds, AcceptHalf(s, c, f)
        PROVE  FreeIsZeroed' /\ ClosedIsZero'
    BY <1>t, <2>3 DEF AcceptHalf, Accepted, TypeOK
  <2>4. ASSUME NEW c \in Pool, NEW f \in Fds, NEW n \in 0 .. RcvBuf,
               AcceptWhole(s, c, f, n)
        PROVE  FreeIsZeroed' /\ ClosedIsZero'
    BY <1>t, <2>4 DEF AcceptWhole, Accepted, TypeOK
  <2> QED
    BY <1>5, <2>1, <2>2, <2>3, <2>4 DEF Sock__accept
<1>6. ASSUME NEW s \in Socks, Sock__connect(s) PROVE FreeIsZeroed' /\ ClosedIsZero'
  BY <1>0, <1>6, <1>t DEF Sock__connect, TypeOK
<1>7. ASSUME NEW s \in Socks, NEW len \in 1 .. MaxLen, Sock__read(s, len)
      PROVE  FreeIsZeroed' /\ ClosedIsZero'
  BY <1>0, <1>7, <1>t DEF Sock__read, Calls, structs, app
<1>8. ASSUME NEW s \in Socks, NEW len \in 1 .. MaxLen, Sock__write(s, len)
      PROVE  FreeIsZeroed' /\ ClosedIsZero'
  BY <1>0, <1>8, <1>t DEF Sock__write, Calls, structs, app
<1>9. ASSUME RemoteNext PROVE FreeIsZeroed' /\ ClosedIsZero'
  <2>1. PICK f \in Fds, obj \in KObj : Remote(f, obj)
    BY <1>9, RemoteType DEF OwnInv
  <2> QED
    BY <1>t, <2>1 DEF Remote, structs, app
<1>10. ASSUME UNCHANGED vars PROVE FreeIsZeroed' /\ ClosedIsZero'
  BY <1>t, <1>10 DEF vars
<1> QED
  BY <1>1, <1>2, <1>3, <1>4, <1>5, <1>6, <1>7, <1>8, <1>9, <1>10 DEF Next, AppNext

LEMMA OwnInit == Init => OwnInv
<1> SUFFICES ASSUME Init PROVE OwnInv
  OBVIOUS
<1>1. TypeInv
  BY TypeInit
<1>2. Owned
  <2>1. \A s \in Socks : ~Refers(s)
    BY DEF Init, Refers
  <2>2. \A f \in Fds : ~Open(f)
    BY DEF Init, Open, NewObj, FreeObj
  <2>3. Stdio \subseteq Fds
    BY BoundsAssumption DEF Stdio, Fds
  <2> QED
    BY <2>1, <2>2, <2>3
       DEF Init, Owned, OneOwner, NoneForgotten, HalfIsReset, StdioUntouched
<1> QED
  BY <1>1, <1>2 DEF Init, OwnInv, FreeIsZeroed, ClosedIsZero

LEMMA OwnStep == Checked /\ OwnInv /\ [Next]_vars => OwnInv'
<1> SUFFICES ASSUME Checked, OwnInv, [Next]_vars PROVE OwnInv'
  OBVIOUS
<1>1. TypeInv'
  BY TypeStep DEF OwnInv
<1>2. Owned'
  BY <1>1, StepKinds, KindKeepsOwned
<1> QED
  BY <1>1, <1>2, IdleStep DEF OwnInv

\* For every number of sockets and descriptors, no two structs share a
\* descriptor, none refers to a closed one, the only descriptors left open without
\* an owner are those of connections Sock__accept gave up on, and the standard
\* streams stay as they were, in any order of calls, failures and remote events.
THEOREM Ownership ==
  ASSUME Checked
  PROVE  Spec => [](OneOwner /\ OnlyAcceptLeaks /\ StdioUntouched)
<1>1. OwnInv => OneOwner /\ OnlyAcceptLeaks /\ StdioUntouched
  BY DEF OwnInv, Owned, NoneForgotten, HalfIsReset, OnlyAcceptLeaks, GivenUp, Holds
<1>2. OwnInv /\ [Next]_vars => OwnInv'
  BY OwnStep
<1> QED
  BY <1>1, <1>2, OwnInit, PTL DEF Spec

-----------------------------------------------------------------------------
(* The refinement of DescriptorTable *)

LEMMA TableInit == Init => Table!Init
<1> SUFFICES ASSUME Init PROVE Table!Init
  OBVIOUS
<1>1. \A s \in Socks : ~Holds(s)
  BY DEF Init, Refers, Holds
<1>2. \A f \in Fds : ~Open(f)
  BY DEF Init, Open, NewObj, FreeObj
<1> QED
  BY <1>1, <1>2 DEF Table!Init, Held, OpenFds

\* A struct whose owner and number stay as they were holds what it held.
LEMMA SameHeld ==
  ASSUME NEW s \in Socks, SameHolder(s)
  PROVE  Holds(s)' = Holds(s) /\ (Holds(s) => fd'[s] = fd[s])
BY DEF SameHolder, Holds

LEMMA KindIsTableStep ==
  ASSUME OwnInv, OwnInv', StepKind
  PROVE  [Table!Next \/ AcceptGivesUp]_Table!table
<1> USE DEF Held, OpenFds
<1>n. NoFd \notin Fds
  BY DEF Fds, NoFd
<1>1. CASE Keeps
  <2>1. Held' = Held
    BY <1>1, SameHeld DEF Keeps
  <2>2. OpenFds' = OpenFds
    BY <1>1 DEF Keeps, SameUse
  <2> QED
    BY <2>1, <2>2 DEF Table!table
<1>2. ASSUME NEW s \in Socks, NEW f \in Fds, Grabs(s, f)
      PROVE  Table!Next \/ AcceptGivesUp
  <2>1. Held[s] = NoFd /\ f \notin OpenFds /\ ~Holds(s)
    BY <1>2 DEF Grabs, Open, Holds
  <2>2. OpenFds' = OpenFds \cup {f}
    BY <1>2 DEF Grabs, SameUse
  <2>3. \A t \in Socks \ {s} : Held'[t] = Held[t]
    BY <1>2, SameHeld DEF Grabs
  <2>4. CASE phase'[s] = "half"
    <3>1. Held'[s] = NoFd
      BY <2>4 DEF Holds
    <3>2. Held' = Held
      BY <2>1, <2>3, <3>1
    <3>3. GivenUp(f)'
      BY <1>2, <2>4 DEF Grabs, GivenUp
    <3> QED
      BY <1>2, <2>1, <2>2, <2>4, <3>2, <3>3 DEF Grabs, AcceptGivesUp, ResetIsQueued
  <2>5. CASE phase'[s] # "half"
    <3>1. Held'[s] = f
      BY <1>2, <2>5 DEF Grabs, Holds
    <3>2. Held' = [Held EXCEPT ![s] = f]
      BY <2>3, <3>1
    <3>3. Table!Acquire(s, f)
      BY <2>1, <2>2, <3>2 DEF Table!Acquire
    <3> QED
      BY <3>3 DEF Table!Next
  <2> QED
    BY <2>4, <2>5
<1>3. ASSUME NEW s \in Socks, Drops(s) PROVE Table!Next
  <2>0. fd[s] \in Fds
    BY <1>3 DEF Drops, OwnInv, Owned, OneOwner
  <2>1. Held[s] = fd[s] /\ Held[s] # NoFd
    BY <1>3, <2>0, <1>n DEF Drops, Holds
  <2>2. \A t \in Socks \ {s} : Held'[t] = Held[t]
    BY <1>3, SameHeld DEF Drops
  <2>3. Held'[s] = NoFd
    BY <1>3 DEF Drops, Holds
  <2>4. Held' = [Held EXCEPT ![s] = NoFd]
    BY <2>2, <2>3
  <2>5. OpenFds' = OpenFds \ {fd[s]}
    BY <1>3, <2>0 DEF Drops, SameUse, Open
  <2>6. Table!Release(s)
    BY <2>1, <2>4, <2>5 DEF Table!Release
  <2> QED
    BY <2>6 DEF Table!Next
<1> QED
  BY <1>1, <1>2, <1>3 DEF StepKind

\* The socket layer implements the table of owned descriptors, but for the step
\* with which Sock__accept gives up on a connection that was reset.
THEOREM Refinement ==
  ASSUME Checked
  PROVE  Spec => DescriptorsAreOwned
<1>1. OwnInv /\ [Next]_vars => OwnInv'
  BY OwnStep
<1>2. OwnInv /\ [Next]_vars => [Table!Next \/ AcceptGivesUp]_Table!table
  BY StepKinds, KindIsTableStep, OwnStep
<1> QED
  BY <1>1, <1>2, OwnInit, TableInit, PTL DEF Spec, DescriptorsAreOwned
-----------------------------------------------------------------------------
(***************************************************************************)
(* What stands behind an announced socket, proved on top of ownership: a   *)
(* connection for a connection and a queue for a listener, non-blocking in *)
(* both cases, and closed for a reason only.                               *)
(***************************************************************************)

Backed(s) ==
  phase[s] = "active" /\ state[s] # "CLOSED" =>
    IF s \in Servers THEN kern[fd[s]].st = "listening"
                     ELSE kern[fd[s]].st \in ConnState /\ state[s] = "CONNECTED"

\* Both ways a descriptor reaches a caller set O_NONBLOCK on it first; only the
\* half-accepted ones, which nobody calls, lack it.
NonBlocking(s) == Refers(s) /\ phase[s] # "half" => kern[fd[s]].nb = TRUE

Serves(s) == Backed(s) /\ NonBlocking(s)

\* The inductive invariant: ownership, and what each struct serves.
ServeInv == OwnInv /\ (\A s \in Socks : Serves(s)) /\ NeverBlocks

-----------------------------------------------------------------------------
(* A step of one struct leaves what the others serve alone *)

SameSort(old, new) ==
  /\ new.nb = old.nb
  /\ new.st = old.st \/ (old.st \in ConnState /\ new.st \in ConnState)

Undisturbed(t) ==
  /\ state'[t] = state[t] /\ phase'[t] = phase[t] /\ fd'[t] = fd[t]
  /\ Refers(t) => SameSort(kern[fd[t]], kern'[fd[t]])

OthersUndisturbed(s) == \A t \in Socks \ {s} : Undisturbed(t)

LEMMA UndisturbedServes ==
  ASSUME NEW t \in Socks, Serves(t), Undisturbed(t)
  PROVE  Serves(t)'
BY DEF Serves, Undisturbed, Backed, NonBlocking, Refers, SameSort, ConnState

\* A descriptor a struct holds is not that of another holder.
LEMMA Apart ==
  ASSUME OwnInv, NEW s \in Socks, NEW t \in Socks \ {s}, Refers(t), fd[s] \in Fds
  PROVE  fd[t] \in Fds /\ (fd[t] = fd[s] => ~Refers(s))
BY DEF OwnInv, Owned, OneOwner

LEMMA CloseServes ==
  ASSUME ServeInv, NEW s \in Socks, Sock__close(s), phase[s] # "free",
         NEW ph \in {"inited", "active", "half"}, phase' = [phase EXCEPT ![s] = ph]
  PROVE  \A t \in Socks : Serves(t)'
<1>t. TypeInv /\ TypeOK /\ OwnInv
  BY DEF ServeInv, OwnInv, TypeInv
<1>1. CASE state[s] = "CLOSED"
  <2>1. OthersUndisturbed(s)
    BY <1>1, <1>t
       DEF Sock__close, structs, OthersUndisturbed, Undisturbed, SameSort, TypeOK
  <2>2. Serves(s)'
    BY <1>1 DEF Sock__close, structs, Serves, Backed, NonBlocking, Refers
  <2> QED
    BY <2>1, <2>2, UndisturbedServes DEF ServeInv, OthersUndisturbed
<1>2. CASE state[s] # "CLOSED"
  <2>0. Refers(s) /\ fd[s] \in Fds
    BY <1>2, <1>t DEF Refers, OwnInv, Owned, OneOwner
  <2>1. kern' = [kern EXCEPT ![fd[s]] = FreeObj]
    BY <1>2, <2>0 DEF Sock__close, KernClose
  <2>2. state' = [state EXCEPT ![s] = "CLOSED"] /\ fd' = [fd EXCEPT ![s] = 0]
    BY <1>2 DEF Sock__close, MarkClosed
  <2>3. ASSUME NEW t \in Socks \ {s} PROVE Undisturbed(t)
    <3>1. state'[t] = state[t] /\ phase'[t] = phase[t] /\ fd'[t] = fd[t]
      BY <1>t, <2>2 DEF TypeOK
    <3>2. Refers(t) => kern'[fd[t]] = kern[fd[t]]
      BY <1>t, <2>0, <2>1, Apart DEF TypeOK
    <3> QED
      BY <3>1, <3>2 DEF Undisturbed, SameSort
  <2>4. Serves(s)'
    BY <1>t, <2>2 DEF Serves, Backed, NonBlocking, Refers, TypeOK
  <2> QED
    BY <2>3, <2>4, UndisturbedServes DEF ServeInv
<1> QED
  BY <1>1, <1>2

\* A call on s that rewrites its own descriptor.
LEMMA RewriteServes ==
  ASSUME ServeInv, NEW s \in Socks, Refers(s), NEW obj \in KObj,
         kern' = [kern EXCEPT ![fd[s]] = obj], fd' = fd,
         \A t \in Socks \ {s} : state'[t] = state[t] /\ phase'[t] = phase[t],
         Serves(s)'
  PROVE  \A t \in Socks : Serves(t)'
<1>t. TypeOK /\ OwnInv
  BY DEF ServeInv, OwnInv, TypeInv
<1>0. fd[s] \in Fds
  BY <1>t DEF OwnInv, Owned, OneOwner
<1>1. ASSUME NEW t \in Socks \ {s} PROVE Undisturbed(t)
  <2>1. Refers(t) => kern'[fd[t]] = kern[fd[t]]
    BY <1>t, <1>0, Apart DEF TypeOK
  <2> QED
    BY <2>1 DEF Undisturbed, SameSort
<1> QED
  BY <1>1, UndisturbedServes DEF ServeInv

LEMMA ServeStep == Checked /\ ServeInv /\ [Next]_vars => ServeInv'
<1> SUFFICES ASSUME Checked, ServeInv, [Next]_vars
    PROVE  (\A t \in Socks : Serves(t)') /\ NeverBlocks'
  BY OwnStep DEF ServeInv
<1> DEFINE Goal == (\A t \in Socks : Serves(t)') /\ NeverBlocks'
<1>t. TypeInv /\ TypeOK /\ FdIsNumber /\ OwnInv /\ NeverBlocks /\ \A t \in Socks : Serves(t)
  BY DEF ServeInv, OwnInv, TypeInv
<1>0. ASSUME NEW k, k.nb = TRUE, WouldBlock(k) PROVE proc' = proc
  BY <1>0 DEF WouldBlock
<1>p. ASSUME proc' # "blocked", \A t \in Socks : Serves(t)' PROVE Goal
  BY <1>p DEF NeverBlocks
<1>1. ASSUME NEW s \in Socks, CallClose(s) PROVE Goal
  <2>1. phase[s] \in {"inited", "active"} /\ phase' = [phase EXCEPT ![s] = phase[s]]
    BY <1>1, <1>t DEF CallClose, TypeOK
  <2> QED
    BY <1>1, <1>p, <2>1, CloseServes DEF CallClose
<1>2. ASSUME NEW s \in Socks, Reuse(s) PROVE Goal
  <2>1. OthersUndisturbed(s)
    BY <1>2, <1>t DEF Reuse, Checked, OthersUndisturbed, Undisturbed, SameSort, TypeOK
  <2>2. Serves(s)'
    BY <1>2, <1>t DEF Reuse, Serves, Backed, NonBlocking, Refers, TypeOK
  <2> QED
    BY <1>2, <1>t, <1>p, <2>1, <2>2, UndisturbedServes DEF OthersUndisturbed, Reuse
<1>3. ASSUME NEW s \in Socks, NEW valid \in BOOLEAN, Sock__init(s, valid) PROVE Goal
  <2>0. phase[s] = "free" /\ state[s] = "NONE" /\ proc = "running"
    BY <1>3, <1>t DEF Sock__init, OwnInv, FreeIsZeroed
  <2>1. CASE InitAborts(s)
    <3>1. OthersUndisturbed(s)
      BY <1>t, <2>1 DEF InitAborts, OthersUndisturbed, Undisturbed, SameSort, TypeOK
    <3>2. Serves(s)'
      BY <2>0, <2>1 DEF InitAborts, Serves, Backed, NonBlocking, Refers
    <3>3. proc' # "blocked"
      BY <2>1 DEF InitAborts
    <3> QED
      BY <1>t, <1>p, <3>1, <3>2, <3>3, UndisturbedServes DEF OthersUndisturbed
  <2>2. ASSUME NEW f \in Fds, InitCreates(s, valid, f) PROVE Goal
    <3>0. ~Open(f) /\ phase' = [phase EXCEPT ![s] = "inited"] /\ proc' # "blocked"
      BY <2>0, <2>2 DEF InitCreates, LowestFree, Open
    <3>1. ASSUME NEW t \in Socks \ {s} PROVE Undisturbed(t)
      <4>1. state'[t] = state[t] /\ phase'[t] = phase[t] /\ fd'[t] = fd[t]
        BY <1>t, <2>0, <2>2, <3>0 DEF InitCreates, MarkClosed, TypeOK
      <4>2. Refers(t) => kern'[fd[t]] = kern[fd[t]]
        BY <1>t, <2>2, <3>0 DEF InitCreates, OwnInv, Owned, OneOwner, TypeOK
      <4> QED
        BY <4>1, <4>2 DEF Undisturbed, SameSort
    <3>2. Serves(s)'
      <4>1. CASE valid = TRUE
        <5>1. kern'[f].nb = TRUE /\ fd'[s] = f /\ phase'[s] = "inited"
          BY <1>t, <2>2, <4>1 DEF InitCreates, NewObj, TypeOK
        <5> QED
          BY <5>1 DEF Serves, Backed, NonBlocking, Refers
      <4>2. CASE valid = FALSE
        <5>1. state'[s] = "CLOSED"
          BY <1>t, <2>0, <2>2, <4>2 DEF InitCreates, MarkClosed, TypeOK
        <5> QED
          BY <5>1 DEF Serves, Backed, NonBlocking, Refers
      <4> QED
        BY <4>1, <4>2
    <3> QED
      BY <1>t, <1>p, <3>0, <3>1, <3>2, UndisturbedServes
  <2> QED
    BY <1>3, <2>1, <2>2 DEF Sock__init, Checked
<1>4. ASSUME NEW s \in Socks, Sock__listen(s) PROVE Goal
  <2>0. /\ phase[s] = "inited" /\ phase' = [phase EXCEPT ![s] = "active"]
        /\ s \in Servers /\ fd[s] \in Fds /\ proc' # "blocked"
    BY <1>4, <1>t DEF Sock__listen, FdIsNumber
  <2>1. CASE /\ kern[fd[s]].st = "created"
             /\ kern' = [kern EXCEPT ![fd[s]].st = "listening"] /\ UNCHANGED structs
    <3> DEFINE obj == [kern[fd[s]] EXCEPT !.st = "listening"]
    <3>1. kern[fd[s]] \in KObj
      BY <1>t, <2>0 DEF TypeOK
    <3>2. obj \in KObj /\ obj.st = "listening" /\ obj.nb = kern[fd[s]].nb
      BY <3>1, KObjUpdate DEF KState, KObj
    <3>3. Refers(s)
      <4>1. fd[s] # 0
        BY <2>1, <1>t, BoundsAssumption DEF OwnInv, Owned, StdioUntouched, Stdio, NewObj
      <4> QED
        BY <1>t, <2>0, <4>1 DEF OwnInv, ClosedIsZero, Refers
    <3>4. kern'[fd[s]] = obj /\ fd'[s] = fd[s]
      BY <1>t, <2>0, <2>1 DEF TypeOK, structs
    <3>5. Serves(s)'
      BY <1>t, <2>0, <3>2, <3>3, <3>4 DEF Serves, Backed, NonBlocking, Refers
    <3> QED
      BY <1>t, <1>p, <2>0, <2>1, <3>2, <3>3, <3>5, RewriteServes DEF TypeOK, structs
  <2>2. CASE Sock__close(s)
    BY <1>p, <2>0, <2>2, CloseServes
  <2> QED
    BY <1>4, <2>1, <2>2 DEF Sock__listen
<1>5. ASSUME NEW s \in Socks, Sock__accept(s) PROVE Goal
  <2>0. /\ fd[s] \in Fds /\ phase[s] = "active" /\ Refers(s) /\ s \in Servers
        /\ proc = "running" /\ kern[fd[s]].nb = TRUE
    BY <1>5, <1>t DEF Sock__accept, Calls, FdIsNumber, Refers, Serves, NonBlocking
  <2>1. CASE AcceptFails(s)
    <3>1. phase' = [phase EXCEPT ![s] = "active"] /\ proc' = proc
      BY <1>t, <2>0, <2>1 DEF AcceptFails, app, TypeOK
    <3> QED
      BY <1>p, <2>0, <2>1, <3>1, CloseServes DEF AcceptFails
  <2>2. CASE AcceptNothing(s)
    <3>1. proc' # "blocked"
      BY <1>0, <2>0, <2>2 DEF AcceptNothing
    <3>2. \A t \in Socks : Undisturbed(t)
      BY <2>2 DEF AcceptNothing, structs, app, Undisturbed, SameSort
    <3> QED
      BY <1>t, <1>p, <3>1, <3>2, UndisturbedServes
  <2>3. ASSUME NEW c \in Pool, NEW f \in Fds, NEW obj \in KObj, Accepted(s, c, f, obj),
               NEW st, state' = [state EXCEPT ![c] = st],
               NEW ph, phase' = [phase EXCEPT ![c] = ph],
               Serves(c)'
        PROVE  Goal
    <3>0. c \in Socks /\ proc' # "blocked" /\ kern[fd[s]] \in KObj
      BY <1>t, <2>0, <2>3 DEF Socks, Accepted, TypeOK
    <3>1. ~Open(f) /\ f # fd[s]
      BY <2>3 DEF Accepted, LowestFree, Open
    <3>2. /\ kern'[fd[s]] = [kern[fd[s]] EXCEPT !.q = Tail(@)]
          /\ \A g \in Fds \ {f, fd[s]} : kern'[g] = kern[g]
      BY <1>t, <2>0, <2>3, <3>1 DEF Accepted, TypeOK
    <3>3. SameSort(kern[fd[s]], kern'[fd[s]])
      BY <3>0, <3>2 DEF SameSort, KObj
    <3>4. ASSUME NEW t \in Socks \ {c} PROVE Undisturbed(t)
      <4>1. state'[t] = state[t] /\ phase'[t] = phase[t] /\ fd'[t] = fd[t]
        BY <1>t, <2>3 DEF Accepted, TypeOK
      <4>2. Refers(t) => fd[t] \in Fds /\ Open(fd[t])
        BY <1>t DEF OwnInv, Owned, OneOwner
      <4>3. Refers(t) => SameSort(kern[fd[t]], kern'[fd[t]])
        BY <3>1, <3>2, <3>3, <4>2 DEF SameSort
      <4> QED
        BY <4>1, <4>3 DEF Undisturbed
    <3> QED
      BY <1>t, <1>p, <2>3, <3>0, <3>4, UndisturbedServes
  <2>4. ASSUME NEW c \in Pool, NEW f \in Fds, AcceptHalf(s, c, f) PROVE Goal
    <3>1. NewObj("reset") \in KObj /\ c \in Socks
      BY NewObjType DEF KState, ConnState, Socks
    <3>2. Serves(c)'
      BY <1>t, <2>4, <3>1 DEF AcceptHalf, Serves, Backed, NonBlocking, TypeOK
    <3> QED
      BY <2>3, <2>4, <3>1, <3>2 DEF AcceptHalf
  <2>5. ASSUME NEW c \in Pool, NEW f \in Fds, NEW n \in 0 .. RcvBuf,
               AcceptWhole(s, c, f, n)
        PROVE  Goal
    <3> DEFINE head == Head(kern[fd[s]].q)
               obj  == [NewObj(head) EXCEPT !.nb = TRUE, !.rx = n]
    <3>1. head \in Pending
      BY <1>t, <2>0, <2>5, HeadType DEF AcceptWhole, Accepted, TypeOK
    <3>2. NewObj(head) \in KObj /\ NewObj(head).st = head
      BY <3>1, NewObjType DEF KState, ConnState, Pending, NewObj
    <3>3. obj \in KObj /\ obj.st = head /\ obj.nb = TRUE /\ c \in Socks /\ c \notin Servers
      BY <3>2, KObjUpdate, SetsAssumption DEF Socks, KObj
    <3>4. kern'[f] = obj /\ fd'[c] = f /\ state'[c] = "CONNECTED"
      BY <1>t, <2>0, <2>5, <3>3 DEF AcceptWhole, Accepted, TypeOK
    <3>5. Serves(c)'
      BY <3>1, <3>3, <3>4 DEF Serves, Backed, NonBlocking, Pending, ConnState
    <3> QED
      BY <2>3, <2>5, <3>3, <3>5 DEF AcceptWhole
  <2> QED
    BY <1>5, <2>1, <2>2, <2>4, <2>5 DEF Sock__accept
<1>6. ASSUME NEW s \in Socks, Sock__connect(s) PROVE Goal
  <2>0. /\ phase[s] = "inited" /\ fd[s] \in Fds /\ proc' # "blocked"
        /\ s \in Clients /\ s \notin Servers
    BY <1>6, <1>t, SetsAssumption DEF Sock__connect, FdIsNumber
  <2>1. ASSUME NEW st \in {"connecting", "established"},
               kern[fd[s]].st = "created", kern' = [kern EXCEPT ![fd[s]].st = st],
               state' = [state EXCEPT ![s] = "CONNECTED"],
               phase' = [phase EXCEPT ![s] = "active"], UNCHANGED <<session, fd>>
        PROVE  Goal
    <3> DEFINE obj == [kern[fd[s]] EXCEPT !.st = st]
    <3>1. kern[fd[s]] \in KObj
      BY <1>t, <2>0 DEF TypeOK
    <3>2. obj \in KObj /\ obj.st = st /\ obj.nb = kern[fd[s]].nb /\ st \in ConnState
      BY <3>1, KObjUpdate DEF KState, ConnState, KObj
    <3>3. Refers(s)
      <4>1. fd[s] # 0
        BY <2>1, <1>t, BoundsAssumption DEF OwnInv, Owned, StdioUntouched, Stdio, NewObj
      <4> QED
        BY <1>t, <2>0, <4>1 DEF OwnInv, ClosedIsZero, Refers
    <3>4. kern'[fd[s]] = obj /\ fd'[s] = fd[s] /\ state'[s] = "CONNECTED"
      BY <1>t, <2>0, <2>1 DEF TypeOK
    <3>5. Serves(s)'
      BY <1>t, <2>0, <3>2, <3>3, <3>4 DEF Serves, Backed, NonBlocking, Refers
    <3> QED
      BY <1>t, <1>p, <2>0, <2>1, <3>2, <3>3, <3>5, RewriteServes DEF TypeOK
  <2>2. CASE Sock__close(s) /\ UNCHANGED phase
    <3>1. phase' = [phase EXCEPT ![s] = "inited"]
      BY <1>t, <2>0, <2>2 DEF TypeOK
    <3> QED
      BY <1>p, <2>0, <2>2, <3>1, CloseServes
  <2> QED
    BY <1>6, <2>1, <2>2 DEF Sock__connect
<1>7. ASSUME NEW s \in Socks, NEW len \in 1 .. MaxLen, Sock__read(s, len) PROVE Goal
  <2>0. /\ fd[s] \in Fds /\ phase[s] = "active" /\ Refers(s) /\ proc = "running"
        /\ kern[fd[s]].nb = TRUE /\ phase' = phase
    BY <1>7, <1>t
       DEF Sock__read, Calls, FdIsNumber, Refers, Serves, NonBlocking, app
  <2>1. CASE /\ kern' = [kern EXCEPT ![fd[s]].rx = IF len < @ THEN @ - len ELSE 0]
             /\ UNCHANGED <<structs, proc>>
    <3> DEFINE new == [kern[fd[s]] EXCEPT !.rx = IF len < @ THEN @ - len ELSE 0]
    <3>1. kern[fd[s]] \in KObj
      BY <1>t, <2>0 DEF TypeOK
    <3>2. new \in KObj /\ new.st = kern[fd[s]].st /\ new.nb = kern[fd[s]].nb
      BY <3>1, ReadType
    <3>3. kern'[fd[s]] = new
      BY <1>t, <2>0, <2>1 DEF TypeOK
    <3>4. Undisturbed(s)
      BY <2>0, <2>1, <3>2, <3>3 DEF Undisturbed, SameSort, structs
    <3>5. Serves(s)'
      BY <1>t, <3>4, UndisturbedServes
    <3> QED
      BY <1>p, <2>0, <2>1, <3>2, <3>5, RewriteServes DEF structs
  <2>2. CASE Sock__close(s) /\ UNCHANGED proc
    <3>1. phase' = [phase EXCEPT ![s] = "active"]
      BY <1>t, <2>0 DEF TypeOK
    <3> QED
      BY <1>p, <2>0, <2>2, <3>1, CloseServes
  <2>3. CASE WouldBlock(kern[fd[s]]) /\ UNCHANGED <<structs, kern>>
    <3>1. proc' # "blocked"
      BY <1>0, <2>0, <2>3
    <3>2. \A t \in Socks : Undisturbed(t)
      BY <2>0, <2>3 DEF structs, Undisturbed, SameSort
    <3> QED
      BY <1>t, <1>p, <3>1, <3>2, UndisturbedServes
  <2> QED
    BY <1>7, <2>1, <2>2, <2>3 DEF Sock__read
<1>8. ASSUME NEW s \in Socks, NEW len \in 1 .. MaxLen, Sock__write(s, len) PROVE Goal
  <2> DEFINE k    == kern[fd[s]]
             room == SndBuf - k.tx
             n    == IF len < room THEN len ELSE room
             new  == [k EXCEPT !.tx = @ + n]
  <2>0. /\ fd[s] \in Fds /\ phase[s] = "active" /\ Refers(s) /\ proc = "running"
        /\ k.nb = TRUE /\ phase' = phase /\ k \in KObj
    BY <1>8, <1>t
       DEF Sock__write, Calls, FdIsNumber, Refers, Serves, NonBlocking, app, TypeOK
  <2>1. CASE /\ room > 0 /\ kern' = [kern EXCEPT ![fd[s]].tx = @ + n]
             /\ UNCHANGED <<structs, proc>>
    <3>2. new \in KObj /\ new.st = k.st /\ new.nb = k.nb
      BY <2>0, <2>1, WriteType
    <3>3. kern'[fd[s]] = new
      BY <1>t, <2>0, <2>1 DEF TypeOK
    <3>4. Undisturbed(s)
      BY <2>0, <2>1, <3>2, <3>3 DEF Undisturbed, SameSort, structs
    <3>5. Serves(s)'
      BY <1>t, <3>4, UndisturbedServes
    <3> QED
      BY <1>p, <2>0, <2>1, <3>2, <3>5, RewriteServes DEF structs
  <2>2. CASE Sock__close(s) /\ UNCHANGED proc
    <3>1. phase' = [phase EXCEPT ![s] = "active"]
      BY <1>t, <2>0 DEF TypeOK
    <3> QED
      BY <1>p, <2>0, <2>2, <3>1, CloseServes
  <2>3. CASE (WouldBlock(k) \/ proc' = "sigpipe") /\ UNCHANGED <<structs, kern>>
    <3>1. proc' # "blocked"
      BY <1>0, <2>0, <2>3
    <3>2. \A t \in Socks : Undisturbed(t)
      BY <2>0, <2>3 DEF structs, Undisturbed, SameSort
    <3> QED
      BY <1>t, <1>p, <3>1, <3>2, UndisturbedServes
  <2> QED
    BY <1>8, <2>1, <2>2, <2>3 DEF Sock__write
<1>9. ASSUME RemoteNext PROVE Goal
  <2>1. PICK f \in Fds, obj \in KObj : Remote(f, obj) /\ SameKind(kern[f], obj)
    BY <1>9, <1>t, RemoteType
  <2>2. proc' # "blocked"
    BY <2>1 DEF Remote
  <2>3. \A t \in Socks : Undisturbed(t)
    BY <1>t, <2>1 DEF Remote, SameKind, SameSort, Undisturbed, structs, app, TypeOK
  <2> QED
    BY <1>t, <1>p, <2>2, <2>3, UndisturbedServes
<1>10. ASSUME UNCHANGED vars PROVE Goal
  <2>1. \A t \in Socks : Undisturbed(t)
    BY <1>10 DEF vars, Undisturbed, SameSort
  <2> QED
    BY <1>t, <1>10, <2>1, UndisturbedServes DEF vars, NeverBlocks
<1> QED
  BY <1>1, <1>2, <1>3, <1>4, <1>5, <1>6, <1>7, <1>8, <1>9, <1>10 DEF Next, AppNext

LEMMA ServeInit == Init => ServeInv
BY OwnInit DEF Init, ServeInv, Serves, Backed, NonBlocking, Refers, NeverBlocks

\* An announced socket is backed by a connection or a queue of its own, and no
\* call on it waits in the kernel, for any number of sockets.
THEOREM Service ==
  ASSUME Checked
  PROVE  Spec => [](AnnouncedIsBacked /\ NeverBlocks)
<1>1. ServeInv => AnnouncedIsBacked /\ NeverBlocks
  BY DEF ServeInv, Serves, Backed, AnnouncedIsBacked
<1>2. ServeInv /\ [Next]_vars => ServeInv'
  BY ServeStep
<1> QED
  BY <1>1, <1>2, ServeInit, PTL DEF Spec

-----------------------------------------------------------------------------
(* What closes a socket *)

\* Sock__close marks one struct only.
LEMMA CloseMarksOne ==
  ASSUME TypeOK, NEW s \in Socks, Sock__close(s), NEW t \in Socks \ {s}
  PROVE  state'[t] = state[t]
BY DEF Sock__close, MarkClosed, structs, TypeOK

\* The calls that may mark s: its own.
LEMMA ClosedByItsCall ==
  ASSUME Checked, ServeInv, [Next]_vars, NEW s \in Socks,
         phase[s] = "active", state[s] # "CLOSED", state'[s] = "CLOSED"
  PROVE  \/ s \in asked'
         \/ AcceptFails(s) /\ s \in Servers
         \/ /\ s \in Clients \cup Pool
            /\ \E len \in 1 .. MaxLen : Sock__read(s, len) \/ Sock__write(s, len)
<1> DEFINE Goal ==
      \/ s \in asked'
      \/ AcceptFails(s) /\ s \in Servers
      \/ /\ s \in Clients \cup Pool
         /\ \E len \in 1 .. MaxLen : Sock__read(s, len) \/ Sock__write(s, len)
<1>t. TypeOK /\ TypeInv /\ FreeIsZeroed
  BY DEF ServeInv, OwnInv, TypeInv
<1>1. ASSUME NEW r \in Socks, CallClose(r) PROVE Goal
  BY <1>t, <1>1, CloseMarksOne DEF CallClose
<1>2. ASSUME NEW r \in Socks, Reuse(r) PROVE Goal
  BY <1>t, <1>2 DEF Reuse, Checked, TypeOK
<1>3. ASSUME NEW r \in Socks, NEW valid \in BOOLEAN, Sock__init(r, valid) PROVE Goal
  BY <1>t, <1>3 DEF Sock__init, InitAborts, InitCreates, MarkClosed, Checked, TypeOK
<1>4. ASSUME NEW r \in Socks, Sock__listen(r) PROVE Goal
  BY <1>t, <1>4, CloseMarksOne DEF Sock__listen, structs
<1>5. ASSUME NEW r \in Socks, Sock__accept(r) PROVE Goal
  <2>1. CASE AcceptFails(r)
    BY <1>t, <1>5, <2>1, CloseMarksOne DEF AcceptFails, Sock__accept
  <2>2. CASE AcceptNothing(r)
    BY <2>2 DEF AcceptNothing, structs
  <2>3. ASSUME NEW c \in Pool, NEW f \in Fds, AcceptHalf(r, c, f) PROVE Goal
    BY <1>t, <2>3 DEF AcceptHalf, TypeOK
  <2>4. ASSUME NEW c \in Pool, NEW f \in Fds, NEW n \in 0 .. RcvBuf,
               AcceptWhole(r, c, f, n)
        PROVE  Goal
    BY <1>t, <2>4 DEF AcceptWhole, TypeOK
  <2> QED
    BY <1>5, <2>1, <2>2, <2>3, <2>4 DEF Sock__accept
<1>6. ASSUME NEW r \in Socks, Sock__connect(r) PROVE Goal
  BY <1>t, <1>6, CloseMarksOne DEF Sock__connect, TypeOK
<1>7. ASSUME NEW r \in Socks, NEW len \in 1 .. MaxLen, Sock__read(r, len) PROVE Goal
  BY <1>t, <1>7, CloseMarksOne DEF Sock__read, structs
<1>8. ASSUME NEW r \in Socks, NEW len \in 1 .. MaxLen, Sock__write(r, len) PROVE Goal
  BY <1>t, <1>8, CloseMarksOne DEF Sock__write, structs
<1>9. ASSUME RemoteNext PROVE Goal
  BY <1>t, <1>9, RemoteType DEF Remote, structs
<1>10. ASSUME UNCHANGED vars PROVE Goal
  BY <1>10 DEF vars
<1> QED
  BY <1>1, <1>2, <1>3, <1>4, <1>5, <1>6, <1>7, <1>8, <1>9, <1>10 DEF Next, AppNext

\* An announced connection is closed by the application or because it has ended,
\* and in the second case a read has nothing left to deliver after a FIN.
THEOREM Causes == ASSUME Checked PROVE Spec => ClosedForCause
<1>1. ASSUME ServeInv, [Next]_vars, NEW s \in Clients \cup Pool,
             phase[s] = "active", state[s] = "CONNECTED", state'[s] = "CLOSED"
      PROVE  \/ s \in asked'
             \/ kern[fd[s]].st \in {"reset", "broken", "refused"}
             \/ kern[fd[s]].st = "closewait" /\ kern[fd[s]].rx = 0
  <2>1. s \in Socks /\ s \notin Servers
    BY SetsAssumption DEF Socks
  <2>2. kern[fd[s]].st \in ConnState
    BY <1>1, <2>1 DEF ServeInv, Serves, Backed
  <2>3. ASSUME NEW len \in 1 .. MaxLen, Sock__read(s, len)
        PROVE  \/ kern[fd[s]].st \in {"reset", "broken", "refused"}
               \/ kern[fd[s]].st = "closewait" /\ kern[fd[s]].rx = 0
    BY <1>1, <2>2, <2>3 DEF Sock__read, MayBring, ConnState, structs
  <2>4. ASSUME NEW len \in 1 .. MaxLen, Sock__write(s, len)
        PROVE  kern[fd[s]].st \in {"reset", "refused"}
    <3> DEFINE room == SndBuf - kern[fd[s]].tx
               open == kern[fd[s]].st \in {"established", "closewait"}
               wait == kern[fd[s]].st = "connecting" \/ (open /\ room = 0)
    <3>1. state' # state
      BY <1>1
    <3>2. ~open /\ ~wait /\ kern[fd[s]].st # "broken"
      BY <2>4, <3>1 DEF Sock__write, structs
    <3> QED
      BY <2>2, <3>2 DEF ConnState
  <2> QED
    BY <1>1, <2>1, <2>3, <2>4, ClosedByItsCall
<1>2. ServeInv /\ [Next]_vars =>
        [\A s \in Clients \cup Pool :
           phase[s] = "active" /\ state[s] = "CONNECTED" /\ state'[s] = "CLOSED" =>
             \/ s \in asked'
             \/ kern[fd[s]].st \in {"reset", "broken", "refused"}
             \/ kern[fd[s]].st = "closewait" /\ kern[fd[s]].rx = 0]_vars
  BY <1>1
<1>3. ServeInv /\ [Next]_vars => ServeInv'
  BY ServeStep
<1> QED
  BY <1>2, <1>3, ServeInit, PTL DEF Spec, ClosedForCause
=================================================================================

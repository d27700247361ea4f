-------------------------------- MODULE ByteQueue --------------------------------
(***************************************************************************)
(* What a ByteBuffer promises, without memory or cursors: a queue of bytes *)
(* per buffer.  Bytes come out in the order they went in, once each, and   *)
(* are never mixed with anything else.  The room of what has been taken    *)
(* out is lost (waste) until the queue is compacted.                       *)
(***************************************************************************)
EXTENDS Integers, Sequences

CONSTANTS Bufs, Bytes, MaxSize

VARIABLES
  queue,   \* the bytes of each buffer that have not been taken out
  waste,   \* the room taken by bytes that have
  cap,     \* how many bytes a buffer has room for
  answer,  \* whether the last call was refused, was done, or began a new buffer
  got      \* the bytes the last call took out

bqvars == <<queue, waste, cap, answer, got>>

Init ==
  /\ queue = [b \in Bufs |-> <<>>]
  /\ waste = [b \in Bufs |-> 0]
  /\ cap = [b \in Bufs |-> 0]
  /\ answer = "done"
  /\ got = <<>>

Answer(r, bytes) == answer' = r /\ got' = bytes

Fits(b, n) == waste[b] + Len(queue[b]) + n <= cap[b]

\* A new buffer of a given size with some bytes in it already.
New(b, size, bytes) ==
  /\ size \in 0 .. MaxSize /\ Len(bytes) <= size
  /\ queue' = [queue EXCEPT ![b] = bytes]
  /\ waste' = [waste EXCEPT ![b] = 0]
  /\ cap' = [cap EXCEPT ![b] = size]
  /\ Answer("new", <<>>)

Compact(b) ==
  /\ waste' = [waste EXCEPT ![b] = 0]
  /\ Answer("done", <<>>)
  /\ UNCHANGED <<queue, cap>>

\* All of it or nothing, and refused only when there is no room.
Put(b, bytes) ==
  /\ IF Fits(b, Len(bytes))
     THEN queue' = [queue EXCEPT ![b] = @ \o bytes] /\ answer' = "done"
     ELSE answer' = "refused" /\ UNCHANGED queue
  /\ got' = <<>>
  /\ UNCHANGED <<waste, cap>>

\* The oldest n bytes, or nothing when there are fewer; a seek drops them.
Get(b, n, drop) ==
  /\ IF n <= Len(queue[b])
     THEN /\ queue' = [queue EXCEPT ![b] = SubSeq(@, n + 1, Len(@))]
          /\ waste' = [waste EXCEPT ![b] = @ + n]
          /\ Answer("done", IF drop THEN <<>> ELSE SubSeq(queue[b], 1, n))
     ELSE Answer("refused", <<>>) /\ UNCHANGED <<queue, waste>>
  /\ UNCHANGED cap

\* Everything in src is appended to dst, and leaves src if it is moved; or nothing
\* happens, when there is no room.
Transfer(src, dst, move) ==
  /\ src # dst /\ queue[src] # <<>>
  /\ IF Fits(dst, Len(queue[src]))
     THEN /\ queue' = [queue EXCEPT ![dst] = @ \o queue[src],
                                    ![src] = IF move THEN <<>> ELSE @]
          /\ waste' = [waste EXCEPT ![src] = IF move THEN @ + Len(queue[src]) ELSE @]
          /\ Answer("done", <<>>)
     ELSE Answer("refused", <<>>) /\ UNCHANGED <<queue, waste>>
  /\ UNCHANGED cap

NothingToTransfer(src) ==
  /\ queue[src] = <<>>
  /\ Answer("refused", <<>>)
  /\ UNCHANGED <<queue, waste, cap>>

Data == UNION {[1 .. n -> Bytes] : n \in 0 .. MaxSize}

Next ==
  \E b \in Bufs :
    \/ \E size \in 0 .. MaxSize, bytes \in Data : New(b, size, bytes)
    \/ Compact(b)
    \/ \E bytes \in Data : Put(b, bytes)
    \/ \E n \in 0 .. MaxSize, drop \in BOOLEAN : Get(b, n, drop)
    \/ \E c \in Bufs, move \in BOOLEAN : Transfer(b, c, move)
    \/ NothingToTransfer(b)

Spec == Init /\ [][Next]_bqvars
==================================================================================

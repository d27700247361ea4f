---------------------------- MODULE ByteBufferProofs ----------------------------
(***************************************************************************)
(* Proofs about ByteBuffer, for every number of buffers, every size and    *)
(* every set of byte values.                                               *)
(***************************************************************************)
EXTENDS ByteBuffer, SequenceTheorems, TLAPS

-----------------------------------------------------------------------------
(* Data, slices and memory *)

LEMMA DataIsSeq ==
  ASSUME NEW d \in Data
  PROVE  /\ d \in Seq(Bytes) /\ Len(d) \in Offsets
         /\ d \in [1 .. Len(d) -> Bytes]
BY SizeAssumption DEF Data, Offsets

LEMMA EmptyIsData == <<>> \in Data /\ Len(<<>>) = 0
<1>1. <<>> \in [1 .. 0 -> Bytes] /\ 0 \in Offsets
  BY SizeAssumption DEF Offsets
<1> QED
  BY <1>1 DEF Data

\* A part of memory inside the buffer is a sequence of bytes.
LEMMA SliceIsData ==
  ASSUME TypeOK, NEW b \in Bufs, NEW i \in Nat, NEW n \in Nat, i + n <= MaxSize
  PROVE  /\ Slice(b, i, n) \in Data /\ Slice(b, i, n) \in Seq(Bytes)
         /\ Len(Slice(b, i, n)) = n
         /\ \A j \in 1 .. n : Slice(b, i, n)[j] = mem[b][i + j - 1]
<1>1. \A j \in 1 .. n : i + j - 1 \in Cells
  BY SizeAssumption DEF Cells
<1>2. Slice(b, i, n) \in [1 .. n -> Bytes]
  <2>1. mem[b] \in [Cells -> Bytes]
    BY DEF TypeOK
  <2>2. \A j \in 1 .. n : mem[b][i + j - 1] \in Bytes
    BY <1>1, <2>1
  <2> QED
    BY <2>2 DEF Slice
<1>3. n \in Offsets
  BY SizeAssumption DEF Offsets
<1>4. Slice(b, i, n) \in Seq(Bytes) /\ Len(Slice(b, i, n)) = n
  BY <1>2
<1> QED
  BY <1>2, <1>3, <1>4 DEF Data, Slice

LEMMA StoredIsMemory ==
  ASSUME TypeOK, NEW b \in Bufs, NEW i \in Offsets, NEW d \in Data
  PROVE  Stored(b, i, d) \in [Cells -> Bytes]
<1>1. ASSUME NEW k \in Cells, i <= k, k < i + Len(d) PROVE d[k - i + 1] \in Bytes
  <2>1. k - i + 1 \in 1 .. Len(d)
    BY <1>1, DataIsSeq, SizeAssumption DEF Cells, Offsets
  <2> QED
    BY <2>1, DataIsSeq
<1> QED
  BY <1>1 DEF Stored, TypeOK

-----------------------------------------------------------------------------
(* The inductive invariant *)

Safe == TypeOK /\ CursorsInOrder /\ SliceIsStable

\* What follows from it for one buffer.
LEMMA SafeBuf ==
  ASSUME Safe, NEW b \in Bufs
  PROVE  /\ read[b] \in Nat /\ write[b] \in Nat /\ end[b] \in Nat
         /\ read[b] <= write[b] /\ write[b] <= end[b] /\ end[b] <= MaxSize
         /\ write[b] - read[b] \in Nat
BY SizeAssumption DEF Safe, TypeOK, CursorsInOrder, Offsets

\* A buffer none of whose memory, cursors and slice changes stays as it was.
Same(b) == /\ mem'[b] = mem[b] /\ view'[b] = view[b]
           /\ read'[b] = read[b] /\ write'[b] = write[b] /\ end'[b] = end[b]

Fine(b) == /\ read[b] <= write[b] /\ write[b] <= end[b]
           /\ view[b].lo + Len(view[b].bytes) <= read[b]
           /\ Slice(b, view[b].lo, Len(view[b].bytes)) = view[b].bytes

LEMMA SafeIsFine == Safe <=> TypeOK /\ \A b \in Bufs : Fine(b)
BY DEF Safe, CursorsInOrder, SliceIsStable, Fine

LEMMA SameIsFine ==
  ASSUME NEW b \in Bufs, Fine(b), Same(b) PROVE Fine(b)'
BY DEF Fine, Same, Slice

\* No slice is out: nothing to keep still.
LEMMA NoViewIsFine ==
  ASSUME NEW b \in Bufs, view[b] = NoView,
         read[b] \in Nat, read[b] <= write[b], write[b] <= end[b]
  PROVE  Fine(b)
<1>1. view[b].lo = 0 /\ view[b].bytes = <<>> /\ Len(<<>>) = 0
  BY DEF NoView
<1>2. [j \in 1 .. 0 |-> mem[b][0 + j - 1]] = <<>>
  OBVIOUS
<1> QED
  BY <1>1, <1>2 DEF Fine, Slice

LEMMA SafeInit == Init => Safe
<1> SUFFICES ASSUME Init PROVE Safe
  OBVIOUS
<1>1. 0 \in Offsets /\ <<>> \in Data /\ Len(<<>>) = 0
  BY EmptyIsData, SizeAssumption DEF Offsets
<1>2. TypeOK
  BY <1>1, ZeroAssumption DEF Init, TypeOK, NoView
<1>3. ASSUME NEW b \in Bufs PROVE Fine(b)
  <2>1. read[b] = 0 /\ write[b] = 0 /\ end[b] = 0 /\ view[b] = NoView
    BY DEF Init
  <2> QED
    BY <2>1, NoViewIsFine
<1> QED
  BY <1>2, <1>3, SafeIsFine

\* While the cursors are in order their differences fit the integer.
LEMMA Difference ==
  ASSUME NEW n \in Nat, n <= MaxSize
  PROVE  n % W32 = n /\ (n + 0) % W32 = n
<1>1. W32 \in Nat \ {0} /\ n < W32 /\ n + 0 = n
  BY SizeAssumption
<1>2. \A w \in Nat \ {0}, x \in Nat : x < w => x % w = x
  BY SMT
<1> QED
  BY <1>1, <1>2

LEMMA Readable ==
  ASSUME Safe, NEW b \in Bufs
  PROVE  SZ_readable(b, 0) = write[b] - read[b]
<1>1. write[b] - read[b] \in Nat /\ write[b] - read[b] <= MaxSize
  BY SafeBuf, SizeAssumption
<1> QED
  BY <1>1, Difference DEF SZ_readable

LEMMA ContentsFacts ==
  ASSUME Safe, NEW b \in Bufs
  PROVE  /\ Contents(b) \in Data /\ Contents(b) \in Seq(Bytes)
         /\ Len(Contents(b)) = write[b] - read[b]
         /\ SZ_readable(b, 0) = write[b] - read[b]
         /\ \A j \in 1 .. write[b] - read[b] : Contents(b)[j] = mem[b][read[b] + j - 1]
<1>1. SZ_readable(b, 0) = write[b] - read[b]
  BY Readable
<1>2. read[b] \in Nat /\ write[b] - read[b] \in Nat /\ read[b] + (write[b] - read[b]) <= MaxSize
  BY SafeBuf, SizeAssumption
<1> DEFINE n == write[b] - read[b]
<1>3. Contents(b) = Slice(b, read[b], n)
  BY <1>1 DEF Contents
<1>4. TypeOK
  BY DEF Safe
<1>5. /\ Slice(b, read[b], n) \in Data /\ Slice(b, read[b], n) \in Seq(Bytes)
      /\ Len(Slice(b, read[b], n)) = n
      /\ \A j \in 1 .. n : Slice(b, read[b], n)[j] = mem[b][read[b] + j - 1]
  <2> HIDE DEF n
  <2> QED
    BY <1>2, <1>4, SliceIsData DEF n
<1> QED
  BY <1>1, <1>3, <1>5

-----------------------------------------------------------------------------
(* Each call keeps it *)

LEMMA WipedIsMemory ==
  ASSUME TypeOK, NEW b \in Bufs, NEW size
  PROVE  Wiped(b, size) \in [Cells -> Bytes]
<1>1. mem[b] \in [Cells -> Bytes]
  BY DEF TypeOK
<1> QED
  BY <1>1, ZeroAssumption DEF Wiped

LEMMA RestartSafe ==
  ASSUME Safe, NEW b \in Bufs, NEW m \in [Cells -> Bytes],
         NEW len \in Offsets, NEW size \in Offsets, len <= size,
         Restart(b, m, len, size)
  PROVE  Safe'
<1>1. 0 \in Offsets /\ <<>> \in Data
  BY EmptyIsData, SizeAssumption DEF Offsets
<1>2. TypeOK'
  BY <1>1 DEF Restart, Return, Safe, TypeOK, NoView
<1>3. ASSUME NEW c \in Bufs PROVE Fine(c)'
  <2>1. CASE c = b
    <3>1. /\ view'[b] = NoView /\ read'[b] = 0
          /\ write'[b] = len /\ end'[b] = size
      BY DEF Restart, Safe, TypeOK
    <3> QED
      BY <2>1, <3>1, NoViewIsFine DEF Offsets, Fine, NoView, Slice
  <2>2. CASE c # b
    <3>1. Same(c)
      BY <2>2 DEF Restart, Safe, TypeOK, Same
    <3> QED
      BY <3>1, SameIsFine, SafeIsFine
  <2> QED
    BY <2>1, <2>2
<1> QED
  BY <1>2, <1>3 DEF Safe, CursorsInOrder, SliceIsStable, Fine

\* What a defragmentation does when the cursors are in order.
LEMMA DefragDoes ==
  ASSUME Safe, NEW b \in Bufs, SZ_defrag(b)
  PROVE  LET n == write[b] - read[b]
         IN /\ \/ /\ n = 0 /\ mem' = mem
                  /\ read' = [read EXCEPT ![b] = 0] /\ write' = [write EXCEPT ![b] = 0]
                  /\ view' = [view EXCEPT ![b] = NoView]
               \/ n # 0 /\ read[b] = 0 /\ UNCHANGED <<mem, read, write, view>>
               \/ /\ n # 0 /\ read[b] # 0
                  /\ mem' = [mem EXCEPT ![b] = Stored(b, 0, Contents(b))]
                  /\ read' = [read EXCEPT ![b] = 0] /\ write' = [write EXCEPT ![b] = n]
                  /\ view' = [view EXCEPT ![b] = NoView]
            /\ Return("done", <<>>) /\ end' = end
<1>1. SZ_readable(b, 0) = write[b] - read[b]
  BY Readable
<1>2. ~(read[b] + SZ_readable(b, 0) > end[b])
  BY <1>1, SafeBuf
<1> QED
  BY <1>1, <1>2 DEF SZ_defrag

LEMMA DefragSafe ==
  ASSUME Safe, NEW b \in Bufs, SZ_defrag(b)
  PROVE  Safe'
<1> DEFINE len == write[b] - read[b]
<1>1. len \in Offsets /\ 0 \in Offsets /\ <<>> \in Data /\ len <= end[b]
  BY SafeBuf, EmptyIsData, SizeAssumption DEF Offsets
<1>2. Contents(b) \in Data
  BY SafeBuf, Readable, SliceIsData, SizeAssumption DEF Contents, Safe
<1>3. Stored(b, 0, Contents(b)) \in [Cells -> Bytes]
  BY <1>1, <1>2, StoredIsMemory DEF Safe
<1>4. TypeOK'
  <2>1. NoView \in [lo : Offsets, bytes : Data]
    BY <1>1 DEF NoView
  <2>2. mem' \in [Bufs -> [Cells -> Bytes]]
    <3>1. \/ mem' = mem
          \/ mem' = [mem EXCEPT ![b] = Stored(b, 0, Contents(b))]
      BY DefragDoes
    <3>2. mem \in [Bufs -> [Cells -> Bytes]]
      BY DEF Safe, TypeOK
    <3> QED
      BY <1>3, <3>1, <3>2
  <2>3. read' \in [Bufs -> Offsets] /\ write' \in [Bufs -> Offsets]
    BY <1>1, DefragDoes DEF Safe, TypeOK
  <2>4. view' \in [Bufs -> [lo : Offsets, bytes : Data]]
    BY <2>1, DefragDoes DEF Safe, TypeOK
  <2> QED
    BY <1>1, <2>2, <2>3, <2>4, DefragDoes DEF Return, Safe, TypeOK
<1>5. ASSUME NEW c \in Bufs PROVE Fine(c)'
  <2>1. CASE Same(c)
    BY <2>1, SameIsFine, SafeIsFine
  <2>2. CASE ~Same(c)
    <3>1. c = b
      BY <2>2, DefragDoes DEF Safe, TypeOK, Same
    <3>2. view'[b] = NoView /\ read'[b] = 0 /\ write'[b] = len /\ end'[b] = end[b]
      BY <2>2, <3>1, DefragDoes DEF Safe, TypeOK, Same
    <3> QED
      BY <1>1, <3>1, <3>2, SafeBuf, NoViewIsFine DEF Offsets, Fine, NoView, Slice
  <2> QED
    BY <2>1, <2>2
<1> QED
  BY <1>4, <1>5 DEF Safe, CursorsInOrder, SliceIsStable, Fine

LEMMA TakeSafe ==
  ASSUME Safe, NEW b \in Bufs, NEW len \in Offsets, ~SZ_overflow_read(b, len),
         NEW given, given = <<>> \/ given = Slice(b, read[b], len),
         Take(b, len, given)
  PROVE  Safe'
<1>1. read[b] + len <= write[b] /\ read[b] + len \in Offsets /\ read[b] \in Offsets
  BY SafeBuf, SizeAssumption DEF SZ_overflow_read, Offsets
<1>2. /\ Slice(b, read[b], len) \in Data /\ Len(Slice(b, read[b], len)) = len
      /\ <<>> \in Data
  BY <1>1, SafeBuf, SliceIsData, EmptyIsData DEF Safe, Offsets
<1>3. TypeOK'
  BY <1>1, <1>2 DEF Take, Return, Safe, TypeOK, cursors
<1>4. ASSUME NEW c \in Bufs PROVE Fine(c)'
  <2>1. CASE c # b
    <3>1. Same(c)
      BY <2>1 DEF Take, Safe, TypeOK, Same
    <3> QED
      BY <3>1, SameIsFine, SafeIsFine
  <2>2. CASE c = b /\ given = <<>>
    <3>1. /\ mem'[b] = mem[b] /\ view'[b] = view[b] /\ read'[b] = read[b] + len
          /\ write'[b] = write[b] /\ end'[b] = end[b]
      BY <2>2 DEF Take, Safe, TypeOK
    <3>2. view[b].lo \in Nat /\ Len(view[b].bytes) \in Nat
      BY DataIsSeq DEF Safe, TypeOK, Offsets
    <3>3. Fine(b)
      BY SafeIsFine
    <3> QED
      BY <1>1, <2>2, <3>1, <3>2, <3>3, SafeBuf DEF Fine, Slice, Offsets
  <2>3. CASE c = b /\ given # <<>>
    <3>1. given = Slice(b, read[b], len)
      BY <2>3
    <3>2. /\ mem'[b] = mem[b] /\ read'[b] = read[b] + len
          /\ write'[b] = write[b] /\ end'[b] = end[b]
          /\ view'[b].lo = read[b] /\ view'[b].bytes = given
      BY <2>3 DEF Take, Safe, TypeOK
    <3>3. Slice(b, view[b].lo, Len(view[b].bytes))' = Slice(b, read[b], len)
      BY <1>2, <3>1, <3>2 DEF Slice
    <3> QED
      BY <1>1, <1>2, <2>3, <3>1, <3>2, <3>3, SafeBuf DEF Fine
  <2> QED
    BY <2>1, <2>2, <2>3
<1> QED
  BY <1>3, <1>4 DEF Safe, CursorsInOrder, SliceIsStable, Fine

\* What is stored at the write cursor lies above every slice handed out.
LEMMA PlaceFine ==
  ASSUME Safe, NEW b \in Bufs, NEW d \in Data, ~SZ_overflow_write(b, Len(d)),
         Place(b, d), view' = view, end' = end, read'[b] \in Nat,
         read[b] <= read'[b], read'[b] <= write[b],
         NEW c \in Bufs, c # b => read'[c] = read[c]
  PROVE  Fine(c)'
<1>1. Len(d) \in Nat /\ write[b] + Len(d) <= end[b]
  BY DataIsSeq, SafeBuf DEF SZ_overflow_write, Offsets
<1>2. CASE c # b
  <2>1. Same(c)
    BY <1>2 DEF Place, Safe, TypeOK, Same
  <2> QED
    BY <2>1, SameIsFine, SafeIsFine
<1>3. CASE c = b
  <2> DEFINE lo == view[b].lo
             n  == Len(view[b].bytes)
  <2>1. lo \in Nat /\ n \in Nat
    BY DataIsSeq DEF Safe, TypeOK, Offsets
  <2>2. Fine(b)
    BY SafeIsFine
  <2>3. /\ mem'[b] = Stored(b, write[b], d) /\ write'[b] = write[b] + Len(d)
        /\ view'[b] = view[b] /\ end'[b] = end[b]
    BY DEF Place, Safe, TypeOK
  <2>4. ASSUME NEW j \in 1 .. n PROVE mem'[b][lo + j - 1] = mem[b][lo + j - 1]
    <3>0. lo + n <= read[b]
      BY <2>2 DEF Fine
    <3>1. read[b] \in Nat /\ write[b] \in Nat /\ read[b] <= write[b] /\ write[b] <= MaxSize
      BY SafeBuf, SizeAssumption
    <3>. HIDE DEF lo, n
    <3>2. lo + j - 1 < write[b] /\ lo + j - 1 \in 0 .. MaxSize - 1
      BY <2>1, <3>0, <3>1, SizeAssumption
    <3> QED
      BY <2>1, <2>3, <3>1, <3>2 DEF Stored, Cells
  <2>5. Slice(b, lo, n)' = Slice(b, lo, n)
    BY <2>3, <2>4 DEF Slice
  <2> QED
    BY <1>1, <1>3, <2>1, <2>2, <2>3, <2>5, SafeBuf DEF Fine
<1> QED
  BY <1>2, <1>3

\* A call that only answers moves nothing.
LEMMA StillSafe ==
  ASSUME Safe, UNCHANGED <<mem, cursors, view>>,
         answer' \in {"refused", "done", "new", "overrun"}, got' \in Data
  PROVE  Safe'
<1>1. TypeOK'
  BY DEF Safe, TypeOK, cursors
<1>2. ASSUME NEW c \in Bufs PROVE Fine(c)'
  BY SameIsFine, SafeIsFine DEF Same, cursors
<1> QED
  BY <1>1, <1>2 DEF Safe, CursorsInOrder, SliceIsStable, Fine

LEMMA PlaceType ==
  ASSUME Safe, NEW b \in Bufs, NEW d \in Data, ~SZ_overflow_write(b, Len(d)),
         Place(b, d)
  PROVE  mem' \in [Bufs -> [Cells -> Bytes]] /\ write' \in [Bufs -> Offsets]
<1>1. write[b] + Len(d) \in Offsets /\ write[b] \in Offsets
  BY DataIsSeq, SafeBuf, SizeAssumption DEF SZ_overflow_write, Offsets
<1>2. Stored(b, write[b], d) \in [Cells -> Bytes]
  BY <1>1, StoredIsMemory DEF Safe
<1> QED
  BY <1>1, <1>2 DEF Place, Safe, TypeOK

LEMMA WriteSafe ==
  ASSUME Safe, NEW b \in Bufs, NEW d \in Data, ~SZ_overflow_write(b, Len(d)),
         Place(b, d), Return("done", <<>>), UNCHANGED <<read, end, view>>
  PROVE  Safe'
<1>1. TypeOK'
  BY PlaceType, EmptyIsData DEF Return, Safe, TypeOK
<1>2. ASSUME NEW c \in Bufs PROVE Fine(c)'
  BY PlaceFine, SafeBuf
<1> QED
  BY <1>1, <1>2 DEF Safe, CursorsInOrder, SliceIsStable, Fine

\* What a copy does when the cursors are in order.
LEMMA CopyDoes ==
  ASSUME Safe, NEW src \in Bufs, NEW dst \in Bufs, NEW seek \in BOOLEAN,
         Copy(src, dst, seek)
  PROVE  LET n == write[src] - read[src]
         IN \/ n < 1 /\ Refuse
            \/ /\ ~(n < 1)
               /\ IF SZ_overflow_write(dst, n) THEN UNCHANGED <<mem, write>>
                  ELSE Place(dst, Contents(src))
               /\ read' = IF seek THEN [read EXCEPT ![src] = @ + n] ELSE read
               /\ Return("done", <<>>) /\ UNCHANGED <<end, view>>
<1> DEFINE n == write[src] - read[src]
<1>1. SZ_readable(src, 0) = n
  BY Readable
<1>2. ~(read[src] + n > end[src]) /\ ~SZ_overflow_read(src, n)
  BY SafeBuf DEF SZ_overflow_read
<1>3. SZ_writable(dst, n) >= 0
  <2>1. end[dst] - write[dst] + n \in Int /\ W32 \in Nat \ {0}
    BY SafeBuf, SizeAssumption
  <2>2. \A w \in Nat \ {0}, x \in Int : x % w >= 0
    BY SMT
  <2> QED
    BY <2>1, <2>2 DEF SZ_writable
<1> QED
  BY <1>1, <1>2, <1>3 DEF Copy

LEMMA CopySafe ==
  ASSUME Safe, NEW src \in Bufs, NEW dst \in Bufs, src # dst, NEW seek \in BOOLEAN,
         Copy(src, dst, seek)
  PROVE  Safe'
<1> DEFINE len == SZ_readable(src, 0)
<1>1. len = write[src] - read[src] /\ len \in Offsets /\ src # dst
  <2>1. len = write[src] - read[src]
    BY Readable
  <2>2. write[src] - read[src] \in Offsets
    BY SafeBuf, SizeAssumption DEF Offsets
  <2> QED
    BY <2>1, <2>2
<1>2. Contents(src) \in Data /\ Len(Contents(src)) = len
  BY <1>1, ContentsFacts
<1>3. CASE Refuse
  BY <1>3, StillSafe, EmptyIsData DEF Refuse, Return
<1>4. CASE ~Refuse
  <2>1. /\ SZ_overflow_write(dst, len) => UNCHANGED <<mem, write>>
        /\ ~SZ_overflow_write(dst, len) => Place(dst, Contents(src))
        /\ read' = IF seek THEN [read EXCEPT ![src] = @ + len] ELSE read
        /\ Return("done", <<>>)
        /\ UNCHANGED <<end, view>>
    BY <1>1, <1>4, CopyDoes
  <2>2. read' \in [Bufs -> Offsets] /\ \A c \in Bufs : c # src => read'[c] = read[c]
    <3>1. read[src] + len \in Offsets
      BY <1>1, SafeBuf, SizeAssumption DEF Offsets
    <3> QED
      BY <2>1, <3>1 DEF Safe, TypeOK
  <2>3. mem' \in [Bufs -> [Cells -> Bytes]] /\ write' \in [Bufs -> Offsets]
    BY <1>2, <2>1, PlaceType DEF Safe, TypeOK
  <2>4. TypeOK'
    BY <2>1, <2>2, <2>3, EmptyIsData DEF Return, Safe, TypeOK
  \* the memory and the write cursor of src are not those of dst
  <2>5. Fine(src)'
    <3>1. mem'[src] = mem[src] /\ write'[src] = write[src]
      BY <1>1, <2>1 DEF Place, Safe, TypeOK
    <3>2. view'[src] = view[src] /\ end'[src] = end[src]
      BY <2>1
    <3>3. read[src] <= read'[src] /\ read'[src] <= write[src] /\ read'[src] \in Nat
      BY <1>1, <2>1, <2>2, SafeBuf DEF Safe, TypeOK, Offsets
    <3>4. view[src].lo \in Nat /\ Len(view[src].bytes) \in Nat
      BY DataIsSeq DEF Safe, TypeOK, Offsets
    <3>5. Fine(src)
      BY SafeIsFine
    <3> QED
      BY <3>1, <3>2, <3>3, <3>4, <3>5, SafeBuf DEF Fine, Slice
  <2>6. ASSUME NEW c \in Bufs, c # src PROVE Fine(c)'
    <3>1. CASE SZ_overflow_write(dst, len)
      <4>1. Same(c)
        BY <2>1, <2>2, <2>6, <3>1 DEF Same
      <4> QED
        BY <4>1, SameIsFine, SafeIsFine
    <3>2. CASE ~SZ_overflow_write(dst, len)
      <4>1. read'[dst] = read[dst] /\ read'[c] = read[c]
        BY <1>1, <2>2, <2>6
      <4> QED
        BY <1>2, <2>1, <3>2, <4>1, SafeBuf, PlaceFine
    <3> QED
      BY <3>1, <3>2
  <2> QED
    BY <2>4, <2>5, <2>6 DEF Safe, CursorsInOrder, SliceIsStable, Fine
<1> QED
  BY <1>3, <1>4

\* To callers that check, an unsafe form is the safe one.
LEMMA NextChecked ==
  ASSUME CallerChecks = TRUE, Safe, Next
  PROVE  \E b \in Bufs :
           \/ SZ_reset(b)
           \/ \E sz \in Offsets : SZ_alloc(b, sz)
           \/ \E m \in [Cells -> Bytes], len, sz \in Offsets :
                len <= sz /\ Restart(b, m, len, sz)
           \/ SZ_defrag(b)
           \/ \E n \in Offsets : SZ_seek(b, n) \/ SZ_read(b, n)
           \/ \E d \in Data : SZ_write(b, d)
           \/ \E dst \in Bufs : dst # b /\ (SZ_copy(b, dst) \/ SZ_copyNS(b, dst))
<1>1. ASSUME NEW b \in Bufs, NEW n \in Offsets, ~SZ_overflow_read(b, n), SZ_read_unsafe(b, n)
      PROVE  SZ_read(b, n)
  <2>1. ~(read[b] + n > end[b])
    BY <1>1, SafeBuf DEF SZ_overflow_read, Offsets
  <2> QED
    BY <1>1, <2>1 DEF SZ_read_unsafe, SZ_read
<1>2. ASSUME NEW b \in Bufs, NEW d \in Data, ~SZ_overflow_write(b, Len(d)),
             SZ_write_unsafe(b, d)
      PROVE  SZ_write(b, d)
  BY <1>2 DEF SZ_write_unsafe, SZ_write, SZ_overflow_write
<1>3. ASSUME NEW b \in Bufs, NEW m \in [Cells -> Bytes], NEW len \in Offsets,
             NEW sz \in Offsets, len <= sz, SZ_wrap(b, m, len, sz)
      PROVE  Restart(b, m, len, sz)
  BY <1>3 DEF SZ_wrap, Offsets
<1> QED
  BY <1>1, <1>2, <1>3 DEF Next, Checked

LEMMA SafeStep ==
  ASSUME CallerChecks = TRUE, Safe, [Next]_vars
  PROVE  Safe'
<1>1. CASE UNCHANGED vars
  BY <1>1, StillSafe DEF vars, cursors, Safe, TypeOK
<1>2. CASE Next
  <2> PICK b \in Bufs :
        \/ SZ_reset(b)
        \/ \E sz \in Offsets : SZ_alloc(b, sz)
        \/ \E m \in [Cells -> Bytes], len, sz \in Offsets :
             len <= sz /\ Restart(b, m, len, sz)
        \/ SZ_defrag(b)
        \/ \E n \in Offsets : SZ_seek(b, n) \/ SZ_read(b, n)
        \/ \E d \in Data : SZ_write(b, d)
        \/ \E dst \in Bufs : dst # b /\ (SZ_copy(b, dst) \/ SZ_copyNS(b, dst))
    BY <1>2, NextChecked
  <2>1. CASE SZ_reset(b)
    <3>1. 0 \in Offsets /\ end[b] \in Offsets /\ 0 <= end[b]
      BY SafeBuf, SizeAssumption DEF Offsets
    <3> QED
      BY <2>1, <3>1, WipedIsMemory, RestartSafe DEF SZ_reset, Safe
  <2>2. CASE \E sz \in Offsets : SZ_alloc(b, sz)
    <3>1. 0 \in Offsets /\ \A sz \in Offsets : 0 <= sz
      BY SizeAssumption DEF Offsets
    <3> QED
      BY <2>2, <3>1, WipedIsMemory, RestartSafe DEF SZ_alloc, Safe
  <2>3. CASE \E m \in [Cells -> Bytes], len, sz \in Offsets :
               len <= sz /\ Restart(b, m, len, sz)
    <3>1. PICK m \in [Cells -> Bytes], len \in Offsets, sz \in Offsets :
            len <= sz /\ Restart(b, m, len, sz)
      BY <2>3
    <3> HIDE DEF Safe, Restart
    <3> QED
      BY <3>1, RestartSafe
  <2>4. CASE SZ_defrag(b)
    BY <2>4, DefragSafe
  <2>5. CASE \E n \in Offsets : SZ_seek(b, n) \/ SZ_read(b, n)
    <3>1. Refuse => Safe'
      BY StillSafe, EmptyIsData DEF Refuse, Return
    <3> QED
      BY <2>5, <3>1, TakeSafe DEF SZ_seek, SZ_read
  <2>6. CASE \E d \in Data : SZ_write(b, d)
    <3>1. Refuse => Safe'
      BY StillSafe, EmptyIsData DEF Refuse, Return
    <3> QED
      BY <2>6, <3>1, WriteSafe DEF SZ_write
  <2>7. CASE \E dst \in Bufs : dst # b /\ (SZ_copy(b, dst) \/ SZ_copyNS(b, dst))
    BY <2>7, CopySafe DEF SZ_copy, SZ_copyNS
  <2> QED
    BY <2>1, <2>2, <2>3, <2>4, <2>5, <2>6, <2>7
<1> QED
  BY <1>1, <1>2

\* When callers check what the unsafe forms do not, no sequence of calls puts a cursor
\* outside its block or out of order, and no slice SZ_read handed out changes under its
\* reader before the buffer is reset, replaced or defragmented: for any number of
\* buffers of any size.
THEOREM BufferSafety ==
  ASSUME CallerChecks = TRUE PROVE Spec => [](TypeOK /\ CursorsInOrder /\ SliceIsStable)
<1>1. Safe /\ [Next]_vars => Safe'
  BY SafeStep
<1> QED
  BY <1>1, SafeInit, PTL DEF Spec, Safe

-----------------------------------------------------------------------------
(* The buffers implement byte queues *)

LEMMA ConcatAsFunction ==
  ASSUME NEW S, NEW q \in Seq(S), NEW d \in Seq(S)
  PROVE  q \o d = [j \in 1 .. Len(q) + Len(d) |->
                      IF j <= Len(q) THEN q[j] ELSE d[j - Len(q)]]
<1> DEFINE f == [j \in 1 .. Len(q) + Len(d) |->
                   IF j <= Len(q) THEN q[j] ELSE d[j - Len(q)]]
<1>1. /\ q \o d \in Seq(S) /\ Len(q \o d) = Len(q) + Len(d)
      /\ \A j \in 1 .. Len(q) + Len(d) :
           (q \o d)[j] = IF j <= Len(q) THEN q[j] ELSE d[j - Len(q)]
  BY ConcatProperties
<1>2. \A j \in 1 .. Len(q) + Len(d) : f[j] \in S
  OBVIOUS
<1>3. f \in Seq(S) /\ Len(f) = Len(q) + Len(d)
  BY <1>2
<1>4. \A j \in 1 .. Len(f) : (q \o d)[j] = f[j]
  BY <1>1, <1>3
<1> QED
  BY <1>1, <1>3, <1>4, SeqEqual

LEMMA FrontAsFunction ==
  ASSUME NEW q \in Seq(Bytes), NEW k \in Nat, k <= Len(q)
  PROVE  SubSeq(q, 1, k) = [j \in 1 .. k |-> q[j]]
OBVIOUS

LEMMA TailAsFunction ==
  ASSUME NEW S, NEW q \in Seq(S), NEW k \in 0 .. Len(q)
  PROVE  SubSeq(q, k + 1, Len(q)) = [j \in 1 .. Len(q) - k |-> q[k + j]]
OBVIOUS

LEMMA SameContents ==
  ASSUME NEW c \in Bufs, Same(c)
  PROVE  Contents(c)' = Contents(c) /\ read'[c] = read[c] /\ end'[c] = end[c]
BY DEF Same, Contents, SZ_readable, Slice

LEMMA NothingContents ==
  ASSUME NEW b \in Bufs, read[b] \in Nat, write[b] = read[b]
  PROVE  Contents(b) = <<>>
<1>1. write[b] - read[b] + 0 = 0 /\ 0 + 0 = 0 /\ 0 \in Nat /\ 0 <= MaxSize
  BY SizeAssumption
<1>2. SZ_readable(b, 0) = 0
  BY <1>1, Difference DEF SZ_readable
<1> QED
  BY <1>2 DEF Contents, Slice

LEMMA NothingAfter ==
  ASSUME NEW b \in Bufs, read'[b] \in Nat, write'[b] = read'[b]
  PROVE  Contents(b)' = <<>>
<1>1. write'[b] - read'[b] + 0 = 0 /\ 0 + 0 = 0 /\ 0 \in Nat /\ 0 <= MaxSize
  BY SizeAssumption
<1>2. SZ_readable(b, 0)' = 0
  BY <1>1, Difference DEF SZ_readable
<1> QED
  BY <1>2 DEF Contents, Slice

\* memcpy to the write cursor appends.
LEMMA PlaceContents ==
  ASSUME Safe, NEW b \in Bufs, NEW d \in Data, ~SZ_overflow_write(b, Len(d)),
         Place(b, d), read'[b] = read[b]
  PROVE  Contents(b)' = Contents(b) \o d
<1> DEFINE n == write[b] - read[b]
           m == Len(d)
           q == Contents(b)
<1>1. m \in Nat /\ n \in Nat /\ read[b] \in Nat /\ write[b] = read[b] + n
      /\ write[b] + m <= MaxSize
  BY DataIsSeq, SafeBuf, SizeAssumption DEF SZ_overflow_write, Offsets
<1>2. q \in Seq(Bytes) /\ d \in Seq(Bytes) /\ Len(q) = n
      /\ \A j \in 1 .. n : q[j] = mem[b][read[b] + j - 1]
  BY ContentsFacts, DataIsSeq
<1>3. mem'[b] = Stored(b, write[b], d) /\ write'[b] = write[b] + m /\ read'[b] = read[b]
  BY DEF Place, Safe, TypeOK
<1>4. SZ_readable(b, 0)' = n + m
  <2>1. /\ write'[b] - read'[b] + 0 = (n + m) + 0 /\ n + m \in Nat /\ n + m <= MaxSize
    <3> HIDE DEF n, m
    <3> QED
      BY <1>1, <1>3, SizeAssumption
  <2> QED
    BY <2>1, Difference DEF SZ_readable
<1>5. Contents(b)' = [j \in 1 .. n + m |-> mem'[b][read[b] + j - 1]]
  BY <1>3, <1>4 DEF Contents, Slice
<1>6. ASSUME NEW j \in 1 .. n + m
      PROVE  mem'[b][read[b] + j - 1] = IF j <= n THEN q[j] ELSE d[j - n]
  <2>1. read[b] + j - 1 \in Cells
    <3> HIDE DEF n, m
    <3> QED
      BY <1>1, SizeAssumption DEF Cells
  <2>2. CASE j <= n
    <3>1. ~(write[b] <= read[b] + j - 1) /\ j \in 1 .. n
      <4> HIDE DEF n, m
      <4> QED
        BY <1>1, <2>2
    <3> QED
      BY <1>2, <1>3, <2>1, <2>2, <3>1 DEF Stored
  <2>3. CASE ~(j <= n)
    <3>1. /\ write[b] <= read[b] + j - 1 /\ read[b] + j - 1 < write[b] + m
          /\ (read[b] + j - 1) - write[b] + 1 = j - n
      <4> HIDE DEF n, m
      <4> QED
        BY <1>1, <2>3
    <3> QED
      BY <1>3, <2>1, <2>3, <3>1 DEF Stored
  <2> QED
    BY <2>2, <2>3
<1>7. q \o d = [j \in 1 .. n + m |-> IF j <= n THEN q[j] ELSE d[j - n]]
  <2>1. q \in Seq(Bytes) /\ d \in Seq(Bytes) /\ Len(q) = n /\ Len(d) = m
    BY <1>2
  <2> HIDE DEF n, m, q
  <2>2. q \o d = [j \in 1 .. Len(q) + Len(d) |->
                     IF j <= Len(q) THEN q[j] ELSE d[j - Len(q)]]
    BY <2>1, ConcatAsFunction, Zenon
  <2> QED
    BY <2>1, <2>2, Zenon
<1> QED
  BY <1>5, <1>6, <1>7

\* Bytes taken are the oldest, and what is left is the rest.
LEMMA TakeContents ==
  ASSUME Safe, NEW b \in Bufs, NEW len \in Offsets, ~SZ_overflow_read(b, len),
         mem'[b] = mem[b], write'[b] = write[b], read'[b] = read[b] + len
  PROVE  /\ len <= Len(Contents(b))
         /\ Contents(b)' = SubSeq(Contents(b), len + 1, Len(Contents(b)))
         /\ Slice(b, read[b], len) = SubSeq(Contents(b), 1, len)
<1> DEFINE n == write[b] - read[b]
           q == Contents(b)
<1>1. len \in Nat /\ n \in Nat /\ read[b] \in Nat /\ write[b] \in Nat /\ len <= n
      /\ read[b] + len <= write[b]
  BY SafeBuf DEF SZ_overflow_read, Offsets
<1>2. q \in Seq(Bytes) /\ Len(q) = n
      /\ \A j \in 1 .. n : q[j] = mem[b][read[b] + j - 1]
  BY ContentsFacts
<1>3. SZ_readable(b, 0)' = n - len
  <2>1. write'[b] - read'[b] + 0 = (n - len) + 0 /\ n - len \in Nat /\ n - len <= MaxSize
    BY <1>1, SafeBuf, SizeAssumption
  <2> QED
    BY <2>1, Difference DEF SZ_readable
<1>4. Contents(b)' = [j \in 1 .. n - len |-> mem[b][read[b] + len + j - 1]]
  BY <1>3 DEF Contents, Slice
<1> HIDE DEF n, q
<1>5. SubSeq(q, len + 1, n) = [j \in 1 .. n - len |-> q[len + j]]
  BY <1>1, <1>2, TailAsFunction
<1>6. ASSUME NEW j \in 1 .. n - len PROVE q[len + j] = mem[b][read[b] + len + j - 1]
  <2>1. len + j \in 1 .. n /\ read[b] + (len + j) - 1 = read[b] + len + j - 1
    BY <1>1
  <2>2. q[len + j] = mem[b][read[b] + (len + j) - 1]
    BY <1>2, <2>1
  <2> QED
    BY <2>1, <2>2
<1>7. SubSeq(q, 1, len) = [j \in 1 .. len |-> q[j]]
  BY <1>1, <1>2, FrontAsFunction
<1>8. \A j \in 1 .. len : q[j] = mem[b][read[b] + j - 1]
  BY <1>1, <1>2
<1>9. len <= Len(q) /\ Contents(b)' = SubSeq(q, len + 1, Len(q))
  BY <1>1, <1>2, <1>4, <1>5, <1>6
<1>10. Slice(b, read[b], len) = SubSeq(q, 1, len)
  BY <1>7, <1>8 DEF Slice
<1> QED
  BY <1>9, <1>10 DEF q

\* One buffer's contents change, the others' do not: the queues do the same.
queue == [c \in Bufs |-> Contents(c)]

LEMMA OneQueue ==
  ASSUME NEW b \in Bufs, NEW x, Contents(b)' = x,
         \A c \in Bufs : c # b => Contents(c)' = Contents(c)
  PROVE  queue' = [queue EXCEPT ![b] = x]
BY DEF queue

LEMMA NoQueue ==
  ASSUME \A c \in Bufs : Contents(c)' = Contents(c)
  PROVE  queue' = queue
BY DEF queue

LEMMA OtherContents ==
  ASSUME Safe, NEW b \in Bufs, \A c \in Bufs : c # b => Same(c)
  PROVE  \A c \in Bufs : c # b => Contents(c)' = Contents(c)
BY SameContents

LEMMA RestartIsNew ==
  ASSUME Safe, NEW b \in Bufs, NEW m \in [Cells -> Bytes],
         NEW len \in Offsets, NEW size \in Offsets, len <= size,
         Restart(b, m, len, size)
  PROVE  \E bytes \in Data : Queue!New(b, size, bytes)
<1>1. /\ \A c \in Bufs : c # b => Same(c)
      /\ read' = [read EXCEPT ![b] = 0] /\ end' = [end EXCEPT ![b] = size]
      /\ read'[b] = 0 /\ write'[b] = len
      /\ answer' = "new" /\ got' = <<>>
  BY DEF Restart, Return, Safe, TypeOK, Same
<1>2. Safe'
  BY RestartSafe
<1>3. Contents(b)' \in Data /\ Len(Contents(b)') = len
  <2>1. mem'[b] \in [Cells -> Bytes]
    BY <1>2 DEF Safe, TypeOK
  <2>2. len \in Nat /\ len <= MaxSize /\ SZ_readable(b, 0)' = len
    <3>1. len \in Nat /\ len <= MaxSize /\ len - 0 + 0 = len
      BY SizeAssumption DEF Offsets
    <3> QED
      BY <1>1, <3>1, Difference DEF SZ_readable
  <2>3. Contents(b)' = [j \in 1 .. len |-> mem'[b][0 + j - 1]]
    BY <1>1, <2>2 DEF Contents, Slice
  <2>4. \A j \in 1 .. len : 0 + j - 1 \in Cells
    BY <2>2, SizeAssumption DEF Cells
  <2>5. Contents(b)' \in [1 .. len -> Bytes]
    BY <2>1, <2>3, <2>4
  <2> QED
    BY <2>2, <2>5 DEF Data
<1>4. queue' = [queue EXCEPT ![b] = Contents(b)']
  BY <1>1, OtherContents, OneQueue
<1>5. Queue!New(b, size, Contents(b)')
  BY <1>1, <1>3, <1>4 DEF Queue!New, Queue!Answer, queue, Offsets
<1> QED
  BY <1>3, <1>5

LEMMA DefragIsCompact ==
  ASSUME Safe, NEW b \in Bufs, SZ_defrag(b)
  PROVE  Queue!Compact(b)
<1>1. \A c \in Bufs : c # b => Same(c)
  BY DefragDoes DEF Safe, TypeOK, Same
<1>2. Contents(b)' = Contents(b)
  <2> DEFINE n == write[b] - read[b]
  <2>1. CASE n = 0
    <3>1. read'[b] = 0 /\ write'[b] = 0
      BY <2>1, DefragDoes DEF Safe, TypeOK
    <3>2. Contents(b) = <<>>
      BY <2>1, SafeBuf, NothingContents
    <3> QED
      BY <3>1, <3>2, NothingAfter
  <2>2. CASE n # 0 /\ read[b] = 0
    BY <2>2, DefragDoes, SameContents DEF Same
  <2>3. CASE n # 0 /\ read[b] # 0
    <3>1. /\ mem'[b] = Stored(b, 0, Contents(b)) /\ read'[b] = 0 /\ write'[b] = n
      BY <2>3, DefragDoes DEF Safe, TypeOK
    <3>2. n \in Nat /\ n <= MaxSize /\ SZ_readable(b, 0)' = n
      <4>1. n \in Nat /\ n <= MaxSize /\ n - 0 + 0 = n
        BY SafeBuf, SizeAssumption
      <4> HIDE DEF n
      <4> QED
        BY <3>1, <4>1, Difference DEF SZ_readable
    <3>3. Contents(b)' = [j \in 1 .. n |-> mem'[b][0 + j - 1]]
      BY <3>1, <3>2 DEF Contents, Slice
    <3>4. Contents(b) \in Seq(Bytes) /\ Len(Contents(b)) = n
      BY ContentsFacts
    <3>5. ASSUME NEW j \in 1 .. n PROVE mem'[b][0 + j - 1] = Contents(b)[j]
      <4>1. 0 + j - 1 \in Cells /\ 0 <= 0 + j - 1 /\ 0 + j - 1 < 0 + n
            /\ (0 + j - 1) - 0 + 1 = j
        <5> HIDE DEF n
        <5> QED
          BY <3>2, SizeAssumption DEF Cells
      <4> QED
        BY <3>1, <3>4, <4>1 DEF Stored
    <3>6. Contents(b) = [j \in 1 .. n |-> Contents(b)[j]]
      BY <3>4
    <3> QED
      BY <3>3, <3>5, <3>6
  <2> QED
    BY <2>1, <2>2, <2>3
<1>3. queue' = queue
  BY <1>1, <1>2, OtherContents, NoQueue
<1>4. read' = [read EXCEPT ![b] = 0]
  BY SafeBuf, DefragDoes DEF Safe, TypeOK
<1> QED
  BY <1>3, <1>4, DefragDoes DEF Return, Queue!Compact, Queue!Answer, queue

LEMMA TakeIsGet ==
  ASSUME Safe, NEW b \in Bufs, NEW len \in Offsets, ~SZ_overflow_read(b, len),
         NEW given, NEW drop \in BOOLEAN,
         given = IF drop THEN <<>> ELSE Slice(b, read[b], len),
         Take(b, len, given)
  PROVE  Queue!Get(b, len, drop)
<1>1. /\ mem'[b] = mem[b] /\ write'[b] = write[b] /\ read'[b] = read[b] + len
      /\ read' = [read EXCEPT ![b] = @ + len] /\ end' = end
      /\ answer' = "done" /\ got' = given
  BY DEF Take, Return, Safe, TypeOK
<1>2. \A c \in Bufs : c # b => Contents(c)' = Contents(c)
  BY DEF Take, Safe, TypeOK, Contents, SZ_readable, Slice
<1>3. /\ len <= Len(Contents(b))
      /\ Contents(b)' = SubSeq(Contents(b), len + 1, Len(Contents(b)))
      /\ Slice(b, read[b], len) = SubSeq(Contents(b), 1, len)
  BY <1>1, TakeContents
<1>4. queue' = [queue EXCEPT ![b] = SubSeq(Contents(b), len + 1, Len(Contents(b)))]
  BY <1>2, <1>3, OneQueue
<1> QED
  BY <1>1, <1>3, <1>4 DEF Queue!Get, Queue!Answer, queue

LEMMA RefusedGet ==
  ASSUME Safe, NEW b \in Bufs, NEW len \in Offsets, SZ_overflow_read(b, len), Refuse
  PROVE  Queue!Get(b, len, TRUE)
<1>1. ~(len <= Len(Contents(b)))
  <2>1. Len(Contents(b)) = write[b] - read[b]
    BY ContentsFacts
  <2> QED
    BY <2>1, SafeBuf DEF SZ_overflow_read, Offsets
<1>2. queue' = queue
  BY DEF Refuse, cursors, queue, Contents, SZ_readable, Slice
<1> QED
  BY <1>1, <1>2 DEF Refuse, Return, cursors, Queue!Get, Queue!Answer, queue

LEMMA RoomIsFits ==
  ASSUME Safe, NEW b \in Bufs, NEW n \in Nat
  PROVE  SZ_overflow_write(b, n) <=> ~(read[b] + Len(Contents(b)) + n <= end[b])
<1>1. Len(Contents(b)) = write[b] - read[b]
  BY ContentsFacts
<1> QED
  BY <1>1, SafeBuf DEF SZ_overflow_write

LEMMA WriteIsPut ==
  ASSUME Safe, NEW b \in Bufs, NEW d \in Data,
         \/ SZ_overflow_write(b, Len(d)) /\ Refuse
         \/ /\ ~SZ_overflow_write(b, Len(d)) /\ Place(b, d)
            /\ Return("done", <<>>) /\ UNCHANGED <<read, end, view>>
  PROVE  Queue!Put(b, d)
<1>0. SZ_overflow_write(b, Len(d)) <=> ~(read[b] + Len(Contents(b)) + Len(d) <= end[b])
  BY RoomIsFits, DataIsSeq DEF Offsets
<1>1. CASE SZ_overflow_write(b, Len(d)) /\ Refuse
  <2>1. queue' = queue
    BY <1>1 DEF Refuse, cursors, queue, Contents, SZ_readable, Slice
  <2> QED
    BY <1>0, <1>1, <2>1 DEF Refuse, Return, cursors, Queue!Put, Queue!Fits, queue
<1>2. CASE /\ ~SZ_overflow_write(b, Len(d)) /\ Place(b, d)
           /\ Return("done", <<>>) /\ UNCHANGED <<read, end, view>>
  <2>1. Contents(b)' = Contents(b) \o d
    BY <1>2, PlaceContents
  <2>2. \A c \in Bufs : c # b => Contents(c)' = Contents(c)
    BY <1>2 DEF Place, Safe, TypeOK, Contents, SZ_readable, Slice
  <2>3. queue' = [queue EXCEPT ![b] = Contents(b) \o d]
    BY <2>1, <2>2, OneQueue
  <2> QED
    BY <1>0, <1>2, <2>3 DEF Return, Queue!Put, Queue!Fits, queue
<1> QED
  BY <1>1, <1>2

LEMMA CopyIsTransfer ==
  ASSUME Safe, NEW src \in Bufs, NEW dst \in Bufs, src # dst,
         NEW seek \in BOOLEAN, Copy(src, dst, seek)
  PROVE  Queue!Transfer(src, dst, seek) \/ Queue!NothingToTransfer(src) \/ CopyLoses
<1> DEFINE n == write[src] - read[src]
<1>1. n \in Nat /\ Contents(src) \in Data /\ Len(Contents(src)) = n
  BY ContentsFacts, SafeBuf
<1>2. CASE n < 1
  <2>1. Refuse
    BY <1>2, CopyDoes
  <2>2. Contents(src) = <<>>
    BY <1>1, <1>2, SafeBuf, NothingContents
  <2>3. queue' = queue
    BY <2>1 DEF Refuse, cursors, queue, Contents, SZ_readable, Slice
  <2> QED
    BY <2>1, <2>2, <2>3
    DEF Refuse, Return, cursors, Queue!NothingToTransfer, Queue!Answer, queue
<1>3. CASE ~(n < 1)
  <2>1. /\ IF SZ_overflow_write(dst, n) THEN UNCHANGED <<mem, write>>
           ELSE Place(dst, Contents(src))
        /\ read' = IF seek THEN [read EXCEPT ![src] = @ + n] ELSE read
        /\ Return("done", <<>>) /\ UNCHANGED <<end, view>>
    BY <1>3, CopyDoes
  <2>2. Contents(src) # <<>>
    BY <1>1, <1>3, EmptyIsData
  <2>3. CASE SZ_overflow_write(dst, n)
    <3>1. read[src] + n = write[src]
      BY SafeBuf
    <3>2. read' \in {read, [read EXCEPT ![src] = write[src]]}
      BY <2>1, <3>1
    <3> QED
      BY <1>1, <2>1, <2>2, <2>3, <3>2 DEF CopyLoses
  <2>4. CASE ~SZ_overflow_write(dst, n)
    <3>1. Place(dst, Contents(src)) /\ read'[dst] = read[dst]
      BY <2>1, <2>4 DEF Safe, TypeOK
    <3>2. Contents(dst)' = Contents(dst) \o Contents(src)
      BY <1>1, <2>4, <3>1, PlaceContents
    <3>3. \A c \in Bufs : c # src /\ c # dst => Contents(c)' = Contents(c)
      BY <2>1, <3>1 DEF Place, Safe, TypeOK, Contents, SZ_readable, Slice
    <3>4. mem'[src] = mem[src] /\ write'[src] = write[src]
      BY <3>1 DEF Place, Safe, TypeOK
    <3>5. Contents(src)' = IF seek THEN <<>> ELSE Contents(src)
      <4>1. CASE seek
        <5>1. read'[src] = write'[src] /\ read'[src] \in Nat
          BY <2>1, <3>4, <4>1, SafeBuf DEF Safe, TypeOK
        <5> QED
          BY <4>1, <5>1, NothingAfter
      <4>2. CASE ~seek
        BY <2>1, <3>4, <4>2 DEF Contents, SZ_readable, Slice
      <4> QED
        BY <4>1, <4>2
    <3>6. queue' = [queue EXCEPT ![dst] = Contents(dst) \o Contents(src),
                                 ![src] = IF seek THEN <<>> ELSE Contents(src)]
      BY <3>2, <3>3, <3>5 DEF queue
    <3>7. read[dst] + Len(Contents(dst)) + Len(Contents(src)) <= end[dst]
      BY <1>1, <2>4, RoomIsFits
    <3>8. read' = [read EXCEPT ![src] = IF seek THEN @ + Len(Contents(src)) ELSE @]
      BY <1>1, <2>1 DEF Safe, TypeOK
    <3>9. Queue!Transfer(src, dst, seek)
      BY <2>1, <2>2, <3>6, <3>7, <3>8
      DEF Return, Queue!Transfer, Queue!Fits, Queue!Answer, queue
    <3> QED
      BY <3>9
  <2> QED
    BY <2>3, <2>4
<1> QED
  BY <1>2, <1>3

LEMMA QueueInit == Init => Queue!Init
<1> SUFFICES ASSUME Init PROVE Queue!Init
  OBVIOUS
<1>1. ASSUME NEW b \in Bufs PROVE Contents(b) = <<>>
  BY NothingContents DEF Init
<1> QED
  BY <1>1 DEF Init, Queue!Init

LEMMA QueueStep ==
  ASSUME CallerChecks = TRUE, Safe, [Next]_vars
  PROVE  [Queue!Next \/ CopyLoses]_(Queue!bqvars)
<1>1. CASE UNCHANGED vars
  BY <1>1 DEF vars, cursors, Queue!bqvars, Contents, SZ_readable, Slice
<1>2. CASE Next
  <2> PICK b \in Bufs :
        \/ SZ_reset(b)
        \/ \E sz \in Offsets : SZ_alloc(b, sz)
        \/ \E m \in [Cells -> Bytes], len, sz \in Offsets :
             len <= sz /\ Restart(b, m, len, sz)
        \/ SZ_defrag(b)
        \/ \E n \in Offsets : SZ_seek(b, n) \/ SZ_read(b, n)
        \/ \E d \in Data : SZ_write(b, d)
        \/ \E dst \in Bufs : dst # b /\ (SZ_copy(b, dst) \/ SZ_copyNS(b, dst))
    BY <1>2, NextChecked
  <2>0. 0 \in Offsets /\ end[b] \in Offsets /\ \A sz \in Offsets : 0 <= sz
    BY SafeBuf, SizeAssumption DEF Offsets
  <2>1. CASE SZ_reset(b)
    <3>1. \E bytes \in Data : Queue!New(b, end[b], bytes)
      BY <2>0, <2>1, WipedIsMemory, RestartIsNew DEF SZ_reset, Safe
    <3> QED
      BY <2>0, <3>1 DEF Queue!Next, Queue!Data, Data, Offsets
  <2>2. CASE \E sz \in Offsets : SZ_alloc(b, sz)
    <3>1. \E sz \in Offsets, bytes \in Data : Queue!New(b, sz, bytes)
      BY <2>0, <2>2, WipedIsMemory, RestartIsNew DEF SZ_alloc, Safe
    <3> QED
      BY <3>1 DEF Queue!Next, Queue!Data, Data, Offsets
  <2>3. CASE \E m \in [Cells -> Bytes], len, sz \in Offsets :
               len <= sz /\ Restart(b, m, len, sz)
    <3>1. \E sz \in Offsets, bytes \in Data : Queue!New(b, sz, bytes)
      BY <2>3, RestartIsNew
    <3> QED
      BY <3>1 DEF Queue!Next, Queue!Data, Data, Offsets
  <2>4. CASE SZ_defrag(b)
    BY <2>4, DefragIsCompact DEF Queue!Next
  <2>5. CASE \E n \in Offsets : SZ_seek(b, n) \/ SZ_read(b, n)
    <3>1. \E n \in Offsets, drop \in BOOLEAN : Queue!Get(b, n, drop)
      BY <2>5, TakeIsGet, RefusedGet DEF SZ_seek, SZ_read
    <3> QED
      BY <3>1 DEF Queue!Next, Offsets
  <2>6. CASE \E d \in Data : SZ_write(b, d)
    <3>1. \E d \in Data : Queue!Put(b, d)
      BY <2>6, WriteIsPut DEF SZ_write
    <3> QED
      BY <3>1 DEF Queue!Next, Queue!Data, Data, Offsets
  <2>7. CASE \E dst \in Bufs : dst # b /\ (SZ_copy(b, dst) \/ SZ_copyNS(b, dst))
    <3>1. \E c \in Bufs, move \in BOOLEAN :
            Queue!Transfer(b, c, move) \/ Queue!NothingToTransfer(b) \/ CopyLoses
      BY <2>7, CopyIsTransfer DEF SZ_copy, SZ_copyNS
    <3> QED
      BY <3>1 DEF Queue!Next
  <2> QED
    BY <2>1, <2>2, <2>3, <2>4, <2>5, <2>6, <2>7
<1> QED
  BY <1>1, <1>2

\* When callers check what the unsafe forms do not, the buffers are byte queues: what
\* goes in comes out once and in order, whatever is reset, defragmented, refused or
\* copied in between, for every size, but for the copies into a buffer without room.
THEOREM BufferIsQueue == CallerChecks = TRUE /\ Spec => IsByteQueue
<1> SUFFICES ASSUME CallerChecks = TRUE PROVE Spec => IsByteQueue
  OBVIOUS
<1>1. Safe /\ [Next]_vars => Safe'
  BY SafeStep
<1>2. Safe /\ [Next]_vars => [Queue!Next \/ CopyLoses]_(Queue!bqvars)
  BY QueueStep
<1> QED
  BY <1>1, <1>2, SafeInit, QueueInit, PTL DEF Spec, IsByteQueue
=================================================================================

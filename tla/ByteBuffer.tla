------------------------------- MODULE ByteBuffer -------------------------------
(***************************************************************************)
(* The byte buffers of src/common/ByteBuffer.c (class SZ): memory with a   *)
(* read and a write cursor.  The four pointers of the struct are offsets   *)
(* from data here, so data itself is 0 and end is the size.                *)
(*                                                                         *)
(* SZ_read hands out a pointer into the buffer, never a copy, so a caller  *)
(* goes on looking at the buffer's memory: view is the last slice handed   *)
(* out, with the bytes that were in it, until a call makes it void.        *)
(*                                                                         *)
(* Three calls trust their caller and check nothing.  Where one of them    *)
(* takes a pointer out of its block the program is no longer defined, and  *)
(* the model ends there: that is the answer "overrun".                     *)
(***************************************************************************)
EXTENDS Integers, Sequences

CONSTANTS
  Bufs,         (* the ByteBuffer structs                                  *)
  Bytes,        (* the values of a byte                                    *)
  Zero,         (* the byte memset writes                                  *)
  MaxSize,      (* largest sz of SZ_alloc and SZ_wrap                      *)
  W32,          (* 2^32                                                    *)
  CallerChecks  (* TRUE: callers of the unsafe forms ask SZ_overflow_read and
                   SZ_overflow_write first, and those of SZ_wrap have sz bytes
                   of which len are to be read                              *)

ASSUME ZeroAssumption == Zero \in Bytes
ASSUME SizeAssumption == MaxSize \in Nat /\ W32 \in Nat /\ MaxSize < W32
ASSUME ChecksAssumption == CallerChecks \in BOOLEAN

Offsets == 0 .. MaxSize
Cells   == 0 .. MaxSize - 1
Data    == UNION {[1 .. n -> Bytes] : n \in Offsets}
NoView  == [lo |-> 0, bytes |-> <<>>]

VARIABLES
  mem,    \* the memory behind data
  read,   \* read - data
  write,  \* write - data
  end,    \* end - data
  view,   \* the last slice SZ_read handed out of the buffer
  answer, \* what the last call did: refuse (0), its work (1), start anew, or
          \* leave the block
  got     \* the bytes the last call handed out

cursors == <<read, write, end>>
vars    == <<mem, read, write, end, view, answer, got>>

TypeOK ==
  /\ mem \in [Bufs -> [Cells -> Bytes]]
  /\ read \in [Bufs -> Offsets]
  /\ write \in [Bufs -> Offsets]
  /\ end \in [Bufs -> Offsets]
  /\ view \in [Bufs -> [lo : Offsets, bytes : Data]]
  /\ answer \in {"refused", "done", "new", "overrun"}
  /\ got \in Data

\* A struct that is all zero: every pointer is NULL and the size is 0.
Init ==
  /\ mem = [b \in Bufs |-> [i \in Cells |-> Zero]]
  /\ read = [b \in Bufs |-> 0]
  /\ write = [b \in Bufs |-> 0]
  /\ end = [b \in Bufs |-> 0]
  /\ view = [b \in Bufs |-> NoView]
  /\ answer = "done"
  /\ got = <<>>

-----------------------------------------------------------------------------
(* Reading memory *)

\* n bytes of b from offset i on, as a sequence
Slice(b, i, n) == [j \in 1 .. n |-> mem[b][i + j - 1]]

\* what memcpy of the sequence d to offset i of b leaves in memory
Stored(b, i, d) ==
  [k \in Cells |-> IF i <= k /\ k < i + Len(d) THEN d[k - i + 1] ELSE mem[b][k]]

\* Mistake: the end of the memory is taken for the end of what was written.
OverflowPastEnd(b, len) == read[b] + len > end[b]

SZ_overflow_read(b, len)  == read[b] + len > write[b]
SZ_overflow_write(b, len) == write[b] + len > end[b]
SZ_readable(b, len) == (write[b] - read[b] + len) % W32
SZ_writable(b, len) == (end[b] - write[b] + len) % W32

Contents(b) == Slice(b, read[b], SZ_readable(b, 0))

Return(r, bytes) == answer' = r /\ got' = bytes

Refuse  == Return("refused", <<>>) /\ UNCHANGED <<mem, cursors, view>>
Overrun == Return("overrun", <<>>) /\ UNCHANGED <<mem, cursors, view>>

-----------------------------------------------------------------------------
(* A buffer's life *)

\* memory of the buffer replaced, with len bytes of it to be read
Restart(b, m, len, size) ==
  /\ mem' = [mem EXCEPT ![b] = m]
  /\ read' = [read EXCEPT ![b] = 0]
  /\ write' = [write EXCEPT ![b] = len]
  /\ end' = [end EXCEPT ![b] = size]
  /\ view' = [view EXCEPT ![b] = NoView]
  /\ Return("new", <<>>)

\* memset stops at end, which is where the buffer stops
Wiped(b, size) == [k \in Cells |-> IF k < size THEN Zero ELSE mem[b][k]]

SZ_reset(b) == Restart(b, Wiped(b, end[b]), 0, end[b])

\* The block comes from an arena: it is memory nothing else uses.
SZ_alloc(b, sz) == Restart(b, Wiped(b, sz), 0, sz)

\* The application's own memory, in which len bytes are to be read.
SZ_wrap(b, m, len, sz) == IF len > sz THEN Overrun ELSE Restart(b, m, len, sz)

\* Mistake: the write cursor stays behind.
DefragKeepsWrite(b) ==
  /\ mem' = [mem EXCEPT ![b] = Stored(b, 0, Contents(b))]
  /\ read' = [read EXCEPT ![b] = 0]
  /\ view' = [view EXCEPT ![b] = NoView]
  /\ Return("done", <<>>)
  /\ UNCHANGED <<write, end>>

\* The two ranges of the memcpy may overlap.  The memcpy this is built with
\* copies upwards and each word is loaded before it is stored, so the bytes
\* arrive as they were.
SZ_defrag(b) ==
  LET len == SZ_readable(b, 0)
      gap == read[b]
  IN IF len # 0 /\ gap # 0 /\ read[b] + len > end[b] THEN Overrun
     ELSE /\ IF len = 0
             THEN /\ read' = [read EXCEPT ![b] = 0]
                  /\ write' = [write EXCEPT ![b] = 0]
                  /\ view' = [view EXCEPT ![b] = NoView]
                  /\ UNCHANGED mem
             ELSE IF gap = 0
             THEN UNCHANGED <<mem, read, write, view>>
             ELSE /\ mem' = [mem EXCEPT ![b] = Stored(b, 0, Contents(b))]
                  /\ read' = [read EXCEPT ![b] = 0]
                  /\ write' = [write EXCEPT ![b] = len]
                  /\ view' = [view EXCEPT ![b] = NoView]
          /\ Return("done", <<>>)
          /\ UNCHANGED end

-----------------------------------------------------------------------------
(* Moving bytes *)

\* read += len, with the slice given out or skipped
Take(b, len, given) ==
  /\ read' = [read EXCEPT ![b] = @ + len]
  /\ view' = IF given = <<>> THEN view
             ELSE [view EXCEPT ![b] = [lo |-> read[b], bytes |-> given]]
  /\ Return("done", given)
  /\ UNCHANGED <<mem, write, end>>

\* memcpy to the write cursor, write += len
Place(b, d) ==
  /\ mem' = [mem EXCEPT ![b] = Stored(b, write[b], d)]
  /\ write' = [write EXCEPT ![b] = @ + Len(d)]

SZ_seek(b, offset) ==
  IF SZ_overflow_read(b, offset) THEN Refuse ELSE Take(b, offset, <<>>)

SZ_read(b, len) ==
  IF SZ_overflow_read(b, len) THEN Refuse ELSE Take(b, len, Slice(b, read[b], len))

\* Mistake: the room is not checked.
WriteUnchecked(b, d) ==
  /\ Place(b, d)
  /\ Return("done", <<>>)
  /\ UNCHANGED <<read, end, view>>

SZ_write(b, d) ==
  IF SZ_overflow_write(b, Len(d)) THEN Refuse
  ELSE /\ Place(b, d)
       /\ Return("done", <<>>)
       /\ UNCHANGED <<read, end, view>>

\* The unsafe forms check nothing: a read may go past the write cursor, and either may
\* leave the block.
SZ_read_unsafe(b, len) ==
  IF read[b] + len > end[b] THEN Overrun ELSE Take(b, len, Slice(b, read[b], len))

SZ_write_unsafe(b, d) ==
  IF write[b] + Len(d) > end[b] THEN Overrun
  ELSE /\ Place(b, d)
       /\ Return("done", <<>>)
       /\ UNCHANGED <<read, end, view>>

\* Mistake: the bytes go to the start of dst.
CopyToStart(src, dst, seek) ==
  LET len == SZ_readable(src, 0)
  IN /\ len > 0 /\ ~SZ_overflow_write(dst, len)
     /\ mem' = [mem EXCEPT ![dst] = Stored(dst, 0, Contents(src))]
     /\ write' = [write EXCEPT ![dst] = @ + len]
     /\ read' = IF seek THEN [read EXCEPT ![src] = @ + len] ELSE read
     /\ Return("done", <<>>)
     /\ UNCHANGED <<end, view>>
\* SZ_writable(dst, len) is unsigned, so the test on it is always true; what
\* SZ_write answers is not looked at, and src is emptied whatever it was.
Copy(src, dst, seek) ==
  LET len == SZ_readable(src, 0)
      fits == ~SZ_overflow_write(dst, len)
  IN IF len < 1 \/ ~(SZ_writable(dst, len) >= 0) THEN Refuse
     ELSE IF fits /\ read[src] + len > end[src] THEN Overrun
     ELSE /\ IF fits THEN Place(dst, Contents(src)) ELSE UNCHANGED <<mem, write>>
          /\ read' = IF seek /\ ~SZ_overflow_read(src, len)
                     THEN [read EXCEPT ![src] = @ + len] ELSE read
          /\ Return("done", <<>>)
          /\ UNCHANGED <<end, view>>

SZ_copy(src, dst)   == Copy(src, dst, TRUE)
SZ_copyNS(src, dst) == Copy(src, dst, FALSE)

\* strncmp over the memory from the read cursor on, for a needle of len bytes
\* none of which is 0; the write cursor is not consulted.
SZ_equal(b, needle) ==
  end[b] > read[b] /\ \A j \in DOMAIN needle : mem[b][read[b] + j - 1] = needle[j]

-----------------------------------------------------------------------------
Checked(holds) == CallerChecks => holds

Next ==
  /\ answer # "overrun"
  /\ \E b \in Bufs :
       \/ SZ_reset(b)
       \/ \E sz \in Offsets : SZ_alloc(b, sz)
       \/ \E m \in [Cells -> Bytes], len, sz \in Offsets :
            Checked(len <= sz) /\ SZ_wrap(b, m, len, sz)
       \/ SZ_defrag(b)
       \/ \E n \in Offsets : SZ_seek(b, n) \/ SZ_read(b, n)
       \/ \E n \in Offsets : Checked(~SZ_overflow_read(b, n)) /\ SZ_read_unsafe(b, n)
       \/ \E d \in Data : SZ_write(b, d)
       \/ \E d \in Data : Checked(~SZ_overflow_write(b, Len(d))) /\ SZ_write_unsafe(b, d)
       \/ \E dst \in Bufs \ {b} : SZ_copy(b, dst) \/ SZ_copyNS(b, dst)

Spec == Init /\ [][Next]_vars

-----------------------------------------------------------------------------
(* Properties *)

\* data <= read <= write <= end after any sequence of calls whose callers check what the
\* functions do not: no cursor leaves the block or passes another, so the unsigned
\* differences of the code never wrap.
CursorsInOrder == \A b \in Bufs : read[b] <= write[b] /\ write[b] <= end[b]

\* What a caller was given by SZ_read stays as it was while the buffer is written,
\* read, sought and copied, until it is reset, replaced or defragmented.
SliceIsStable ==
  \A b \in Bufs : /\ view[b].lo + Len(view[b].bytes) <= read[b]
                  /\ Slice(b, view[b].lo, Len(view[b].bytes)) = view[b].bytes

\* The buffers are queues of bytes: whatever was written or wrapped comes out
\* once and in order, across refused calls, copies and defragmentation, and a
\* write is refused only when its bytes do not fit behind those still there.  There is
\* one exception: a copy that does not fit answers that it was made, and its bytes are
\* still in src or nowhere (ByteBuffer.c:134).
Queue == INSTANCE ByteQueue WITH
  queue <- [b \in Bufs |-> Contents(b)], waste <- read, cap <- end

CopyLoses ==
  \E src, dst \in Bufs :
    /\ Contents(src) # <<>> /\ SZ_overflow_write(dst, Len(Contents(src)))
    /\ read' \in {read, [read EXCEPT ![src] = write[src]]}
    /\ Return("done", <<>>)
    /\ UNCHANGED <<mem, write, end>>

IsByteQueue == Queue!Init /\ [][Queue!Next \/ CopyLoses]_(Queue!bqvars)

\* ByteBuffer.c:137 and :139, "copied" and "src could not fit in dst": SZ_copy
\* answers 1 when the bytes of src are in dst, and 0 when they did not fit.
CopiedMeansCopied ==
  [][\A src, dst \in Bufs :
       src # dst /\ SZ_copy(src, dst) /\ answer' = "done" =>
         Contents(dst)' = Contents(dst) \o Contents(src)]_vars

\* ByteBuffer.c:175, "Compare buffer contents with string": a needle SZ_equal
\* finds equal is what the buffer holds.
EqualMeansContents ==
  \A b \in Bufs : \A needle \in UNION {[1 .. n -> Bytes \ {Zero}] : n \in 1 .. MaxSize} :
    Len(needle) <= end[b] - read[b] /\ SZ_equal(b, needle) =>
      /\ Len(needle) <= SZ_readable(b, 0)
      /\ needle = SubSeq(Contents(b), 1, Len(needle))
=============================================================================

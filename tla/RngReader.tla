----------------------------- MODULE RngReader -----------------------------
(***************************************************************************)
(* rng/reader.go: a pseudo-random stream with Read, ReadAt, Seek and       *)
(* Reset.  The stream repeats a buffer, changed by keys that differ from   *)
(* one length of the buffer (a block) to the next; four keys cover Lanes   *)
(* bytes.  Reads that are not aligned to Lanes go through r.tmp, which all *)
(* calls share.                                                            *)
(*                                                                         *)
(* A byte stands for what it is made of: the seed and the place in the     *)
(* buffer, the subkeys and the lane of the key, the block.                 *)
(***************************************************************************)
EXTENDS Integers, Sequences

CONSTANTS Callers,    \* goroutines
          Async,      \* whether a ReadAt may begin during another call
          Lanes,      \* 32: the bytes of the four keys
          BufferSize, \* 16384, a multiple of Lanes
          Sizes,      \* values for WithSize and ResetSize, -1 for an endless stream
          MaxOffset,  \* bound: offsets asked for
          MaxLen,     \* bound: length of p
          MaxResets   \* bound: resets

VARIABLES offset, size, fullReset,
          seed, subxor,  \* generation of the buffer and of the subkeys
          tmp,           \* r.tmp
          call,          \* the call each goroutine is in or has returned from
          strayed        \* history: a Seek or ResetSize that failed has left the offset outside

readerVars == <<size, fullReset, seed, subxor>>
vars == <<offset, readerVars, tmp, call, strayed>>

Less(a, b) == IF a < b THEN a ELSE b

Idle == [op |-> "none", pc |-> "done", start |-> 0, asked |-> 0, off |-> 0, left |-> 0, out |-> <<>>, eof |-> FALSE]

\* in[i] ^ v[i mod 32], the byte at place of the buffer under the keys of a
\* block.
xor32(place, lane, blockN) == <<seed, place, subxor, lane, blockN>>

Init ==
    /\ offset = 0
    /\ size \in Sizes
    /\ fullReset \in BOOLEAN
    /\ seed = 0 /\ subxor = 0
    /\ tmp = [i \in 0..Lanes - 1 |-> <<>>]
    /\ call = [c \in Callers |-> Idle]
    /\ strayed = FALSE

-----------------------------------------------------------------------------
(* Read and ReadAt *)

Position(c) == IF call[c].op = "Read" THEN offset ELSE call[c].off

\* The reader's owner makes one call at a time; ReadAt may be concurrent.
MayCall(c, op) ==
    /\ call[c].pc = "done"
    /\ \A d \in Callers \ {c} : call[d].pc = "done" \/ (Async /\ op = "ReadAt" /\ call[d].op = "ReadAt")

\* p is cut at the end of the stream.  Behind the end its new length is
\* negative: a panic.
Enter(c, op, start, n) ==
    LET eof == size >= 0 /\ n + start >= size
    IN  /\ MayCall(c, op)
        /\ call' = [call EXCEPT ![c] =
               [op |-> op, start |-> start, asked |-> n, off |-> start, out |-> <<>>, eof |-> eof,
                left |-> IF eof THEN size - start ELSE n,
                pc |-> IF eof /\ size < start THEN "panic" ELSE "loop"]]
        /\ UNCHANGED <<offset, readerVars, tmp, strayed>>

Read(c, n) == Enter(c, "Read", offset, n)
ReadAt(c, n, off) == Enter(c, "ReadAt", off, n)

\* n bytes are delivered and the position moves on.
Deliver(c, bytes, pc) ==
    /\ call' = [call EXCEPT ![c] =
           [op |-> @.op, start |-> @.start, asked |-> @.asked, eof |-> @.eof,
            off |-> IF @.op = "ReadAt" THEN @.off + Len(bytes) ELSE @.off,
            left |-> @.left - Len(bytes), out |-> @.out \o bytes, pc |-> pc]]
    /\ offset' = IF call[c].op = "Read" THEN offset + Len(bytes) ELSE offset

Unaligned(c) == Position(c) % Lanes # 0 \/ call[c].left < Lanes

\* Mutant: the start of the buffer instead of the place of the position.
startAlignedZero(c) == 0

\* The aligned place in the buffer at or before the position.
startAligned(c) == ((Position(c) % BufferSize) \div Lanes) * Lanes

\* Not aligned, or less than a full lane wanted: the lanes around the
\* position go into r.tmp ...
FillTmp(c) ==
    /\ call[c].pc = "loop" /\ call[c].left > 0
    /\ Unaligned(c)
    /\ tmp' = [i \in 0..Lanes - 1 |-> xor32(startAligned(c) + i, i, Position(c) \div BufferSize)]
    /\ call' = [call EXCEPT ![c].pc = "copy"]
    /\ UNCHANGED <<offset, readerVars, strayed>>

\* ... and are copied from there.
CopyTmp(c) ==
    LET startCopy == Position(c) % Lanes
        copied    == Less(call[c].left, Lanes - startCopy)
    IN  /\ call[c].pc = "copy"
        /\ Deliver(c, [i \in 1..copied |-> tmp[startCopy + i - 1]], "loop")
        /\ UNCHANGED <<readerVars, tmp, strayed>>

\* Aligned: as many full lanes as are wanted and as the buffer still has.  Read
\* ends with a short read rather than lose the alignment.
ReadAligned(c) ==
    LET first      == Position(c) % BufferSize
        lenAligned == Less((call[c].left \div Lanes) * Lanes, BufferSize - first)
        short      == call[c].op = "Read" /\ call[c].left - lenAligned < Lanes /\ ~call[c].eof
    IN  /\ call[c].pc = "loop" /\ call[c].left > 0
        /\ ~Unaligned(c)
        /\ Deliver(c, [i \in 1..lenAligned |-> xor32(first + i - 1, (i - 1) % Lanes, Position(c) \div BufferSize)],
                   IF short THEN "done" ELSE "loop")
        /\ UNCHANGED <<readerVars, tmp, strayed>>

Return(c) ==
    /\ call[c].pc = "loop" /\ call[c].left = 0
    /\ call' = [call EXCEPT ![c].pc = "done"]
    /\ UNCHANGED <<offset, readerVars, tmp, strayed>>

-----------------------------------------------------------------------------
(* Seek and Reset *)

Quiet == \A c \in Callers : call[c].pc = "done"

\* The new offset is stored before it is checked.
SeekTo(o) ==
    /\ Quiet
    /\ offset' = o
    /\ strayed' = (o < 0 \/ (size >= 0 /\ o > size))
    /\ UNCHANGED <<readerVars, tmp, call>>

SeekStart(n)   == SeekTo(n)
SeekCurrent(n) == SeekTo(offset + n)
\* An endless stream has no end to seek from: an error, nothing stored.
SeekEnd(n)     == size >= 0 /\ SeekTo(size + n)

\* The subkeys are always new, the buffer with WithFullReset only.
Reseed ==
    /\ Quiet
    /\ subxor < MaxResets
    /\ subxor' = subxor + 1
    /\ seed' = IF fullReset THEN seed + 1 ELSE seed
    /\ offset' = 0 /\ strayed' = FALSE
    /\ tmp' = [i \in 0..Lanes - 1 |-> <<>>]
    /\ call' = [c \in Callers |-> Idle]
    /\ UNCHANGED fullReset

Reset == Reseed /\ UNCHANGED size
ResetSize(n) == Reseed /\ size' = n

\* The source of randomness fails: the buffer may be overwritten and the size
\* set, the offset stays.
ReseedFails ==
    /\ Quiet
    /\ seed < MaxResets
    /\ seed' = IF fullReset THEN seed + 1 ELSE seed
    /\ tmp' = [i \in 0..Lanes - 1 |-> <<>>]
    /\ call' = [c \in Callers |-> Idle]
    /\ UNCHANGED <<offset, fullReset, subxor>>

ResetFails == ReseedFails /\ UNCHANGED <<size, strayed>>
ResetSizeFails(n) ==
    /\ ReseedFails
    /\ size' = n
    /\ strayed' = (offset < 0 \/ (n >= 0 /\ offset > n))

Calls(c) ==
    \/ offset <= MaxOffset /\ \E n \in 0..MaxLen : Read(c, n)
    \/ \E n \in 0..MaxLen, off \in 0..MaxOffset : ReadAt(c, n, off)
    \/ FillTmp(c) \/ CopyTmp(c) \/ ReadAligned(c) \/ Return(c)

Next ==
    \/ \E c \in Callers : Calls(c)
    \/ \E o \in -1..MaxOffset : SeekStart(o)
    \/ \E d \in -1..1 : offset + d \in -1..MaxOffset /\ (SeekCurrent(d) \/ SeekEnd(d))
    \/ Reset \/ ResetFails
    \/ \E n \in Sizes : ResetSize(n) \/ ResetSizeFails(n)

Spec == Init /\ [][Next]_vars

-----------------------------------------------------------------------------
\* The byte of the stream at an offset.
Byte(o) == xor32(o % BufferSize, o % Lanes, o \div BufferSize)

\* A call that has returned delivered the stream from where it began, over
\* the borders of lanes, blocks and buffer: ReadAt all that was asked for or
\* is left, Read at least one byte of it, with io.EOF exactly when the end
\* was within reach.
Delivered(c) ==
    LET n == Len(call[c].out)
        all == IF call[c].eof THEN size - call[c].start ELSE call[c].asked
    IN  /\ call[c].out = [i \in 1..n |-> Byte(call[c].start + i - 1)]
        /\ n = all \/ (call[c].op = "Read" /\ 0 < n /\ n < all /\ ~call[c].eof)
        /\ call[c].eof <=> (size >= 0 /\ call[c].start + call[c].asked >= size)

\* However reads of any length, seeks and resets follow each other, the bytes
\* at an offset are always the same; only an offset behind the end (given to
\* ReadAt, or left there by a Seek or ResetSize that failed) ends in a panic.
StreamExact ==
    \A c \in Callers :
        /\ call[c].pc = "done" /\ call[c].op # "none" => Delivered(c)
        /\ call[c].pc = "panic" => call[c].start > size /\ (call[c].op = "Read" => strayed)

\* "The Reader supports seeking and arbitrary async reads from io.ReadAt":
\* concurrent calls of ReadAt deliver the bytes of the stream.
AsyncReadAtExact ==
    \A c \in Callers : call[c].pc = "done" /\ call[c].op = "ReadAt" => Delivered(c)
============================================================================

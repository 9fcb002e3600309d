------------------------------- MODULE Buffer -------------------------------
(* A connection's Buffer: a vector of bytes with the readable region between  *)
(* two indices,                                                               *)
(*                                                                            *)
(*    | prependable | readable, readIdx .. writeIdx - 1 | writable |          *)
(*                                                                            *)
(* appended to at the end, consumed from the front.  Byte i of the vector is  *)
(* store[i + 1].  The operations a connection uses are modelled; prepend,     *)
(* prepareWrite, hasWritten, retrieveUntil and clear have no caller.          *)
EXTENDS Integers, Sequences

CONSTANTS
  Bytes,
  Zero,         \* the byte a resize fills with
  PrependSize,  \* kPrependSize
  InitialSize   \* kInitialSize

ASSUME ZeroIsByte == Zero \in Bytes
ASSUME SizesAreNat == PrependSize \in Nat /\ InitialSize \in Nat
ASSUME PrependFits == PrependSize <= InitialSize

VARIABLES
  store,     \* buffer_
  readIdx,   \* read_idx_
  writeIdx,  \* write_idx_
  peak       \* the most bytes that were ever readable at once

bufferVars == <<store, readIdx, writeIdx, peak>>

BufferInit ==
  /\ store = [i \in 1 .. InitialSize |-> Zero]
  /\ readIdx = PrependSize
  /\ writeIdx = PrependSize
  /\ peak = 0

Capacity == Len(store)
ReadableBytes == writeIdx - readIdx
WritableBytes == Capacity - writeIdx

\* retrieveAsString(readableBytes()), were it called.
Readable == SubSeq(store, readIdx + 1, writeIdx)

------------------------------------------------------------------------------
(* memcpy and memmove: data at offset at of s.                                *)
Overwrite(s, at, data) ==
  [i \in 1 .. Len(s) |->
     IF at < i /\ i <= at + Len(data) THEN data[i - at] ELSE s[i]]

\* vector::resize to a larger size.
Resize(s, size) ==
  [i \in 1 .. size |-> IF i <= Len(s) THEN s[i] ELSE Zero]

\* mutant: makeSpace() sets the indices and moves nothing
MadeSpaceUnmoved == [store |-> store,
                     read  |-> PrependSize,
                     write |-> PrependSize + ReadableBytes]

MadeSpace == [store |-> Overwrite(store, PrependSize, Readable),
              read  |-> PrependSize,
              write |-> PrependSize + ReadableBytes]

\* mutant: grows whenever the end of the vector is reached
EnsuredNoCompaction(len) ==
  [store |-> IF WritableBytes >= len
               THEN store ELSE Resize(store, writeIdx + len),
   read  |-> readIdx,
   write |-> writeIdx]

\* mutant: resizes to the readable bytes and len, and forgets those in front
EnsuredTooSmall(len) ==
  [store |-> IF WritableBytes >= len
               THEN store ELSE Resize(store, ReadableBytes + len),
   read  |-> readIdx,
   write |-> writeIdx]

\* The buffer after ensureWritableBytes(len).
EnsuredWritable(len) ==
  IF WritableBytes >= len
    THEN [store |-> store, read |-> readIdx, write |-> writeIdx]
    ELSE IF WritableBytes + readIdx >= len + PrependSize
           THEN MadeSpace
           ELSE [store |-> Resize(store, writeIdx + len),
                 read  |-> readIdx,
                 write |-> writeIdx]

AppendBytes(data) ==
  LET room == EnsuredWritable(Len(data)) IN
    /\ store' = Overwrite(room.store, room.write, data)
    /\ readIdx' = room.read
    /\ writeIdx' = room.write + Len(data)
    /\ peak' = IF peak < ReadableBytes + Len(data)
                 THEN ReadableBytes + Len(data) ELSE peak

Retrieve(len) ==
  /\ IF len < ReadableBytes
       THEN readIdx' = readIdx + len /\ UNCHANGED writeIdx
       ELSE readIdx' = PrependSize /\ writeIdx' = PrependSize
  /\ UNCHANGED <<store, peak>>

------------------------------------------------------------------------------

BufferTypeOK ==
  /\ store \in Seq(Bytes)
  /\ peak \in Nat
  /\ readIdx \in PrependSize .. writeIdx
  /\ writeIdx \in PrependSize .. Len(store)

(* The memory of a connection's buffer follows the largest backlog of unread  *)
(* input and not the traffic: ensureWritableBytes reclaims the consumed bytes *)
(* at the front before it resizes, and resizes only when those are fewer than *)
(* the bytes it needs.                                                        *)
CapacityFollowsBacklog ==
  \/ Capacity = InitialSize
  \/ Capacity < PrependSize + 2 * peak

=============================================================================

--------------------------- MODULE Framing_proofs ---------------------------
(* Proofs about Buffer and Framing for any bytes, bodies, sizes and cuts.     *)
EXTENDS Framing, SequenceTheorems, FiniteSetTheorems, WellFoundedInduction, TLAPS

LEMMA OverwriteType ==
  ASSUME NEW s \in Seq(Bytes), NEW data \in Seq(Bytes), NEW from \in Nat
  PROVE  /\ Overwrite(s, from, data) \in Seq(Bytes)
         /\ Len(Overwrite(s, from, data)) = Len(s)
         /\ \A i \in 1 .. Len(s) :
              Overwrite(s, from, data)[i] =
                IF from < i /\ i <= from + Len(data) THEN data[i - from] ELSE s[i]
<1> DEFINE b(i) == IF from < i /\ i <= from + Len(data) THEN data[i - from] ELSE s[i]
<1>1. ASSUME NEW i \in 1 .. Len(s) PROVE b(i) \in Bytes
  OBVIOUS
<1>2. [i \in 1 .. Len(s) |-> b(i)] \in [1 .. Len(s) -> Bytes]
  BY <1>1
<1>3. QED
  BY <1>2 DEF Overwrite

LEMMA ResizeType ==
  ASSUME NEW s \in Seq(Bytes), NEW size \in Nat
  PROVE  /\ Resize(s, size) \in Seq(Bytes)
         /\ Len(Resize(s, size)) = size
         /\ \A i \in 1 .. size :
              Resize(s, size)[i] = IF i <= Len(s) THEN s[i] ELSE Zero
<1> DEFINE b(i) == IF i <= Len(s) THEN s[i] ELSE Zero
<1>1. ASSUME NEW i \in 1 .. size PROVE b(i) \in Bytes
  BY ZeroIsByte
<1>2. [i \in 1 .. size |-> b(i)] \in [1 .. size -> Bytes]
  BY <1>1
<1>3. QED
  BY <1>2 DEF Resize

\* Readable is the bytes of the vector between the two indices.
ReadableFacts ==
  /\ Readable \in Seq(Bytes)
  /\ Len(Readable) = ReadableBytes
  /\ ReadableBytes \in Nat
  /\ \A i \in 1 .. ReadableBytes : Readable[i] = store[readIdx + i]

LEMMA ReadableType == BufferTypeOK => ReadableFacts
<1> SUFFICES ASSUME BufferTypeOK PROVE ReadableFacts
  OBVIOUS
<1> USE SizesAreNat DEF BufferTypeOK, ReadableBytes
<1>1. \A i \in readIdx + 1 .. writeIdx : store[i] \in Bytes
  OBVIOUS
<1>2. /\ Readable \in Seq(Bytes)
      /\ Len(Readable) = IF readIdx + 1 <= writeIdx
                           THEN writeIdx - (readIdx + 1) + 1 ELSE 0
      /\ \A i \in 1 .. writeIdx - (readIdx + 1) + 1 :
           Readable[i] = store[readIdx + 1 + i - 1]
  BY <1>1, SubSeqProperties DEF Readable
<1>3. QED
  BY <1>2 DEF ReadableFacts

\* ensureWritableBytes keeps the readable bytes and makes the room asked for.
LEMMA EnsuredKeeps ==
  ASSUME BufferTypeOK, NEW len \in Nat
  PROVE  LET room == EnsuredWritable(len) IN
           /\ room.store \in Seq(Bytes)
           /\ room.read \in PrependSize .. room.write
           /\ room.write \in PrependSize .. Len(room.store)
           /\ room.write - room.read = ReadableBytes
           /\ Len(room.store) - room.write >= len
           /\ \/ Len(room.store) = Len(store)
              \/ Len(room.store) < PrependSize + ReadableBytes + 2 * len
           /\ \A i \in 1 .. ReadableBytes :
                room.store[room.read + i] = store[readIdx + i]
<1> DEFINE room == EnsuredWritable(len)
<1> USE SizesAreNat DEF BufferTypeOK, ReadableBytes, WritableBytes, Capacity
<1>0. /\ Readable \in Seq(Bytes)
      /\ Len(Readable) = ReadableBytes
      /\ \A i \in 1 .. ReadableBytes : Readable[i] = store[readIdx + i]
  BY ReadableType DEF ReadableFacts
<1>1. CASE WritableBytes >= len
  BY <1>1 DEF EnsuredWritable
<1>2. CASE ~(WritableBytes >= len) /\ WritableBytes + readIdx >= len + PrependSize
  <2>1. room = MadeSpace
    BY <1>2 DEF EnsuredWritable
  <2>2. /\ MadeSpace.store = Overwrite(store, PrependSize, Readable)
        /\ MadeSpace.read = PrependSize
        /\ MadeSpace.write = PrependSize + ReadableBytes
    BY DEF MadeSpace
  <2>3. /\ MadeSpace.store \in Seq(Bytes)
        /\ Len(MadeSpace.store) = Len(store)
        /\ \A i \in 1 .. Len(store) :
             MadeSpace.store[i] =
               IF PrependSize < i /\ i <= PrependSize + ReadableBytes
                 THEN Readable[i - PrependSize] ELSE store[i]
    <3> DEFINE over == Overwrite(store, PrependSize, Readable)
    <3>1. store \in Seq(Bytes) /\ PrependSize \in Nat
      OBVIOUS
    <3>2. /\ over \in Seq(Bytes)
          /\ Len(over) = Len(store)
          /\ \A i \in 1 .. Len(store) :
               over[i] = IF PrependSize < i /\ i <= PrependSize + Len(Readable)
                           THEN Readable[i - PrependSize] ELSE store[i]
      BY <1>0, <3>1, OverwriteType
    <3>3. MadeSpace.store = over /\ Len(Readable) = ReadableBytes
      BY <1>0, <2>2
    <3> HIDE DEF over
    <3>4. QED
      BY <3>2, <3>3
  <2>4. \A i \in 1 .. ReadableBytes :
          MadeSpace.store[PrependSize + i] = store[readIdx + i]
    <3> SUFFICES ASSUME NEW i \in 1 .. ReadableBytes
                 PROVE  MadeSpace.store[PrependSize + i] = store[readIdx + i]
      OBVIOUS
    <3>1. PrependSize + i \in 1 .. Len(store)
      OBVIOUS
    <3>2. QED
      BY <1>0, <2>3, <3>1
  <2>5. QED
    BY <1>2, <2>1, <2>2, <2>3, <2>4
<1>3. CASE ~(WritableBytes >= len) /\ ~(WritableBytes + readIdx >= len + PrependSize)
  <2>1. /\ room.store = Resize(store, writeIdx + len)
        /\ room.read = readIdx
        /\ room.write = writeIdx
    BY <1>3 DEF EnsuredWritable
  <2>2. /\ room.store \in Seq(Bytes)
        /\ Len(room.store) = writeIdx + len
        /\ \A i \in 1 .. writeIdx + len :
             room.store[i] = IF i <= Len(store) THEN store[i] ELSE Zero
    BY <2>1, ResizeType
  <2>3. QED
    BY <1>3, <2>1, <2>2
<1>4. QED
  BY <1>1, <1>2, <1>3

LEMMA AppendKeeps ==
  ASSUME BufferTypeOK, NEW data \in Seq(Bytes), AppendBytes(data)
  PROVE  /\ BufferTypeOK'
         /\ Readable' = Readable \o data
         /\ CapacityFollowsBacklog => CapacityFollowsBacklog'
<1> DEFINE room == EnsuredWritable(Len(data))
           st == room.store
           r == room.read
           w == room.write
           over == Overwrite(st, w, data)
           n == ReadableBytes
           d == Len(data)
<1>1. /\ st \in Seq(Bytes)
      /\ r \in PrependSize .. w
      /\ w \in PrependSize .. Len(st)
      /\ w - r = n
      /\ Len(st) - w >= d
      /\ \/ Len(st) = Len(store)
         \/ Len(st) < PrependSize + n + 2 * d
      /\ \A i \in 1 .. n : st[r + i] = store[readIdx + i]
  BY EnsuredKeeps
<1>2. /\ store' = over
      /\ readIdx' = r
      /\ writeIdx' = w + d
      /\ peak' = IF peak < n + d THEN n + d ELSE peak
  BY DEF AppendBytes
<1>3. ReadableFacts
  BY ReadableType
<1> HIDE DEF room
<1>4. PrependSize \in Nat /\ d \in Nat /\ Len(st) \in Nat /\ Len(store) \in Nat
  BY <1>1, SizesAreNat DEF BufferTypeOK
<1>5. r \in Nat /\ w \in Nat /\ n \in Nat
  <2> HIDE DEF r, w, st, n, d
  <2>1. QED
    BY <1>1, <1>3, <1>4 DEF ReadableFacts, n
<1>6. /\ over \in Seq(Bytes)
      /\ Len(over) = Len(st)
      /\ \A i \in 1 .. Len(st) :
           over[i] = IF w < i /\ i <= w + d THEN data[i - w] ELSE st[i]
  <2> HIDE DEF st, w
  <2>1. QED
    BY <1>1, <1>5, OverwriteType
<1>7. /\ \A i \in 1 .. Len(st) : w < i /\ i <= w + d => over[i] = data[i - w]
      /\ \A i \in 1 .. Len(st) : ~(w < i) => over[i] = st[i]
  <2> HIDE DEF over, st, w, d
  <2>1. QED
    BY <1>6
<1> HIDE DEF st, r, w, over, n, d
<1>8. BufferTypeOK'
  <2>1. peak \in Nat /\ peak' \in Nat
    BY <1>2, <1>4, <1>5 DEF BufferTypeOK
  <2>2. r \in PrependSize .. w + d
    BY <1>1, <1>4, <1>5
  <2>3. w + d \in PrependSize .. Len(over)
    <3>1. Len(over) = Len(st)
      BY <1>6
    <3>2. w \in PrependSize .. Len(st) /\ Len(st) - w >= d
      BY <1>1
    <3>3. QED
      BY <1>4, <1>5, <3>1, <3>2
  <2>4. over \in Seq(Bytes)
    BY <1>6
  <2>5. QED
    BY <1>2, <2>1, <2>2, <2>3, <2>4 DEF BufferTypeOK
<1>9. ReadableFacts'
  BY <1>8, ReadableType, PTL
<1>10. ReadableBytes' = n + d
  <2>1. w - r = n
    BY <1>1
  <2>2. QED
    BY <1>2, <1>4, <1>5, <2>1 DEF ReadableBytes
<1>11. Readable' = Readable \o data
  <2>1. /\ Readable \o data \in Seq(Bytes)
        /\ Len(Readable \o data) = n + d
        /\ \A i \in 1 .. n + d :
             (Readable \o data)[i] = IF i <= n THEN Readable[i] ELSE data[i - n]
    <3>1. Readable \in Seq(Bytes) /\ Len(Readable) = n
      BY <1>3 DEF ReadableFacts, n
    <3>2. data \in Seq(Bytes) /\ Len(data) = d
      BY DEF d
    <3>3. /\ Readable \o data \in Seq(Bytes)
          /\ Len(Readable \o data) = Len(Readable) + Len(data)
          /\ \A i \in 1 .. Len(Readable) + Len(data) :
               (Readable \o data)[i] = IF i <= Len(Readable)
                 THEN Readable[i] ELSE data[i - Len(Readable)]
      BY <3>1, <3>2, ConcatProperties
    <3>4. QED
      BY <3>1, <3>2, <3>3
  <2>2. ASSUME NEW i \in 1 .. n + d
        PROVE  Readable'[i] = (Readable \o data)[i]
    <3>1. w - r = n /\ Len(st) - w >= d
      BY <1>1
    <3>2. PICK j \in 1 .. Len(st) : j = r + i
      BY <1>4, <1>5, <3>1
    <3>3. Readable'[i] = over[j]
      BY <1>2, <1>9, <1>10, <3>2 DEF ReadableFacts
    <3>4. CASE i <= n
      <4>1. ~(w < j)
        BY <1>5, <3>1, <3>2, <3>4
      <4>2. over[j] = st[j]
        BY <1>7, <4>1
      <4>3. st[j] = store[readIdx + i]
        BY <1>1, <1>5, <3>2, <3>4
      <4>4. Readable[i] = store[readIdx + i]
        BY <1>3, <1>5, <3>4 DEF ReadableFacts, n
      <4>5. QED
        BY <2>1, <3>3, <3>4, <4>2, <4>3, <4>4
    <3>5. CASE ~(i <= n)
      <4>1. w < j /\ j <= w + d /\ j - w = i - n
        BY <1>4, <1>5, <3>1, <3>2, <3>5
      <4>2. over[j] = data[j - w]
        BY <1>7, <4>1
      <4>3. QED
        BY <2>1, <3>3, <3>5, <4>1, <4>2
    <3>6. QED
      BY <3>4, <3>5
  <2>3. Readable' \in Seq(Bytes) /\ Len(Readable') = n + d
    BY <1>9, <1>10 DEF ReadableFacts
  <2>4. QED
    BY <2>1, <2>2, <2>3, SeqEqual
<1>12. ASSUME CapacityFollowsBacklog PROVE CapacityFollowsBacklog'
  <2>1. Len(store') = Len(st) /\ peak \in Nat
    BY <1>2, <1>6 DEF BufferTypeOK
  <2>2. peak' >= peak /\ peak' >= n + d /\ peak' \in Nat
    BY <1>2, <1>4, <1>5, <2>1
  <2>3. CASE Len(st) = Len(store)
    BY <1>4, <1>12, <2>1, <2>2, <2>3 DEF CapacityFollowsBacklog, Capacity
  <2>4. CASE Len(st) < PrependSize + n + 2 * d
    BY <1>4, <1>5, <2>1, <2>2, <2>4 DEF CapacityFollowsBacklog, Capacity
  <2>5. QED
    BY <1>1, <2>3, <2>4
<1>13. QED
  BY <1>8, <1>11, <1>12

LEMMA RetrieveDrops ==
  ASSUME BufferTypeOK, NEW n \in 0 .. ReadableBytes, Retrieve(n)
  PROVE  /\ BufferTypeOK'
         /\ Readable' = SubSeq(Readable, n + 1, Len(Readable))
         /\ CapacityFollowsBacklog => CapacityFollowsBacklog'
<1> DEFINE rest == SubSeq(Readable, n + 1, Len(Readable))
<1>1. ReadableFacts
  BY ReadableType
<1>2. BufferTypeOK' /\ ReadableBytes' = ReadableBytes - n
  BY SizesAreNat DEF BufferTypeOK, Retrieve, ReadableBytes
<1>3. CapacityFollowsBacklog => CapacityFollowsBacklog'
  BY DEF Retrieve, CapacityFollowsBacklog, Capacity
<1>4. ReadableFacts'
  BY <1>2, ReadableType, PTL
<1>5. n \in Nat /\ ReadableBytes \in Nat /\ n <= ReadableBytes
  BY <1>1 DEF ReadableFacts
<1>6. /\ rest \in Seq(Bytes)
      /\ Len(rest) = ReadableBytes - n
      /\ \A i \in 1 .. ReadableBytes - n : rest[i] = Readable[n + i]
  <2> DEFINE m == ReadableBytes
  <2>1. /\ Readable \in Seq(Bytes) /\ Len(Readable) = m
        /\ n \in Nat /\ m \in Nat /\ n <= m
    BY <1>1, <1>5 DEF ReadableFacts
  <2> HIDE DEF m
  <2>2. \A i \in n + 1 .. m : Readable[i] \in Bytes
    BY <2>1
  <2>3. /\ SubSeq(Readable, n + 1, m) \in Seq(Bytes)
        /\ Len(SubSeq(Readable, n + 1, m)) =
             IF n + 1 <= m THEN m - (n + 1) + 1 ELSE 0
        /\ \A i \in 1 .. m - (n + 1) + 1 :
             SubSeq(Readable, n + 1, m)[i] = Readable[n + 1 + i - 1]
    BY <2>1, <2>2, SubSeqProperties
  <2>4. rest = SubSeq(Readable, n + 1, m)
    BY <2>1
  <2> HIDE DEF rest
  <2>5. rest \in Seq(Bytes) /\ Len(rest) = m - n
    BY <2>1, <2>3, <2>4
  <2>6. \A i \in 1 .. m - n : rest[i] = Readable[n + i]
    BY <2>1, <2>3, <2>4
  <2>7. QED
    BY <2>5, <2>6 DEF m
<1> HIDE DEF rest
<1>7. ASSUME NEW i \in 1 .. ReadableBytes - n
      PROVE  Readable'[i] = rest[i]
  <2>1. n < ReadableBytes /\ readIdx' = readIdx + n /\ store' = store
    BY <1>5 DEF Retrieve
  <2>2. readIdx \in Nat /\ n + i \in 1 .. ReadableBytes
    BY <1>5, SizesAreNat DEF BufferTypeOK
  <2>3. readIdx' + i = readIdx + (n + i)
    BY <1>5, <2>1, <2>2
  <2>4. Readable'[i] = store[readIdx + (n + i)]
    BY <1>2, <1>4, <2>1, <2>3 DEF ReadableFacts
  <2>5. Readable[n + i] = store[readIdx + (n + i)]
    BY <1>1, <2>2 DEF ReadableFacts
  <2>6. QED
    BY <1>6, <2>4, <2>5
<1>8. Readable' \in Seq(Bytes) /\ Len(Readable') = ReadableBytes - n
  BY <1>2, <1>4 DEF ReadableFacts
<1>9. QED
  BY <1>2, <1>3, <1>6, <1>7, <1>8, SeqEqual DEF rest

------------------------------------------------------------------------------

LEMMA LeastExists ==
  ASSUME NEW S \in SUBSET Nat, S # {}
  PROVE  \E i \in S : \A j \in S : i <= j
<1> DEFINE R == OpToRel(<, Nat)
<1>1. \A i, j \in Nat : j < i => <<j, i>> \in R
  BY Zenon DEF OpToRel
<1>2. \E i \in S : \A j \in S : ~(<<j, i>> \in R)
  BY WFMin, NatLessThanWellFounded
<1> HIDE DEF R
<1>3. \E i \in S : \A j \in S : ~(j < i)
  BY <1>1, <1>2
<1>4. QED
  BY <1>3

\* findCRLF returns the place of a CRLF, and -1 only when there is none.
LEMMA FoundIsCRLF ==
  ASSUME BufferTypeOK
  PROVE  /\ FindCRLF \in Int
         /\ FindCRLF >= 0 => FindCRLF + 2 \in 0 .. ReadableBytes
<1>1. ReadableBytes \in Nat
  BY ReadableType DEF ReadableFacts
<1>2. CRLFsAt \in SUBSET Nat
  BY <1>1 DEF CRLFsAt
<1>3. CASE CRLFsAt = {}
  BY <1>3 DEF FindCRLF
<1>4. CASE CRLFsAt # {}
  <2>1. \E i \in CRLFsAt : \A j \in CRLFsAt : i <= j
    BY <1>2, <1>4, LeastExists
  <2>2. FindCRLF \in CRLFsAt
    BY <1>4, <2>1 DEF FindCRLF
  <2>3. FindCRLF \in 0 .. ReadableBytes - 2
    BY <2>2 DEF CRLFsAt
  <2>4. QED
    BY <1>1, <2>3
<1>5. QED
  BY <1>3, <1>4

LEMMA Joined ==
  ASSUME NEW s \in Seq(Bytes), NEW t \in Seq(Bytes)
  PROVE  /\ s \o t \in Seq(Bytes)
         /\ Len(s \o t) = Len(s) + Len(t)
         /\ Len(s) \in Nat /\ Len(t) \in Nat
  BY ConcatProperties

LEMMA EncodeType ==
  ASSUME NEW b \in Requests \cup Garbage
  PROVE  Encode(b) \in Seq(Bytes) /\ Len(Encode(b)) > 0
<1> DEFINE head == <<ContentLength(Len(b))>>
<1>1. b \in Seq(Bytes)
  BY BodiesAreBytes
<1>2. CRLF \in Seq(Bytes) /\ Len(CRLF) = 2
  BY BodiesAreBytes DEF CRLF
<1>3. head \in Seq(Bytes) /\ Len(head) = 1
  BY BodiesAreBytes
<1> HIDE DEF head
<1>4. head \o CRLF \in Seq(Bytes) /\ Len(head \o CRLF) > 0
  BY <1>2, <1>3, Joined
<1> DEFINE start == (head \o CRLF) \o CRLF
<1>5. start \in Seq(Bytes) /\ Len(start) > 0
  BY <1>2, <1>4, Joined
<1>6. Encode(b) = start \o b
  BY DEF Encode, head
<1> HIDE DEF start
<1>7. QED
  BY <1>1, <1>5, <1>6, Joined

LEMMA WriteType ==
  ASSUME TypeOK, NEW bytes \in Seq(Bytes), NEW owed \in Seq(Messages),
         Write(bytes, owed)
  PROVE  TypeOK'
<1> USE DEF TypeOK
<1>1. wire' \in Seq(Bytes)
  BY ConcatProperties DEF Write
<1>2. written' \in Nat
  BY DEF Write
<1>3. due' \in Seq([message : Messages, end : Nat])
  <2> DEFINE new == [i \in 1 .. Len(owed) |->
                       [message |-> owed[i], end |-> written']]
  <2>1. \A i \in 1 .. Len(owed) :
          [message |-> owed[i], end |-> written'] \in [message : Messages, end : Nat]
    BY <1>2
  <2>2. Len(owed) \in Nat
    OBVIOUS
  <2>3. new \in Seq([message : Messages, end : Nat])
    BY <2>1, <2>2
  <2> HIDE DEF new
  <2>4. due \o new \in Seq([message : Messages, end : Nat])
    BY <2>3, ConcatProperties
  <2>5. due' = due \o new
    BY DEF Write, new
  <2>6. QED
    BY <2>4, <2>5
<1>4. UNCHANGED <<bufferVars, at, codecVars, messages>>
  BY DEF Write
<1>5. QED
  BY <1>1, <1>2, <1>3, <1>4
  DEF bufferVars, codecVars, BufferTypeOK

\* Whatever the peer writes is a sequence of bytes, and not empty.
LEMMA WritesAreWrites ==
  ASSUME TypeOK, WriteFrame \/ WriteLine \/ WriteBadHeader
  PROVE  \E bytes \in Seq(Bytes), owed \in Seq(Messages) :
           Len(bytes) > 0 /\ Write(bytes, owed)
<1>1. CRLF \in Seq(Bytes) /\ Len(CRLF) = 2
  BY BodiesAreBytes DEF CRLF
<1>2. Error \in Messages
  BY DEF Messages
<1>3. CASE WriteFrame
  <2>1. PICK b \in Requests \cup Garbage : Write(Encode(b), <<Parse(b)>>)
    BY <1>3 DEF WriteFrame
  <2>2. Parse(b) \in Messages
    BY DEF Parse, Messages
  <2>3. <<Parse(b)>> \in Seq(Messages)
    BY <2>2
  <2>4. QED
    BY <2>1, <2>3, EncodeType
<1>4. CASE WriteLine
  <2>1. PICK l \in Lines : Write(l \o CRLF, <<>>)
    BY <1>4 DEF WriteLine
  <2>2. l \in Seq(Bytes)
    BY BodiesAreBytes
  <2>3. l \o CRLF \in Seq(Bytes) /\ Len(l \o CRLF) > 0
    BY <1>1, <2>2, Joined
  <2>4. <<>> \in Seq(Messages)
    OBVIOUS
  <2>5. QED
    BY <2>1, <2>3, <2>4
<1>5. CASE WriteBadHeader
  <2> DEFINE head == <<BadLength>>
  <2>1. head \in Seq(Bytes) /\ Len(head) = 1
    BY BodiesAreBytes
  <2> HIDE DEF head
  <2>2. head \o CRLF \in Seq(Bytes) /\ Len(head \o CRLF) > 0
    BY <1>1, <2>1, Joined
  <2>3. <<Error>> \in Seq(Messages)
    BY <1>2
  <2>4. Write(head \o CRLF, <<Error>>)
    BY <1>5 DEF WriteBadHeader, head
  <2>5. QED
    BY <2>2, <2>3, <2>4
<1>6. QED
  BY <1>3, <1>4, <1>5

------------------------------------------------------------------------------

Inv == TypeOK /\ CapacityFollowsBacklog

\* The bytes decode has not taken: what ByteStream calls unread.
Unread == Readable \o wire

LEMMA InitInv == Init => Inv
<1> SUFFICES ASSUME Init PROVE Inv
  OBVIOUS
<1> USE SizesAreNat, PrependFits, ZeroIsByte
<1>1. store \in Seq(Bytes) /\ Len(store) = InitialSize
  BY DEF Init, BufferInit
<1>2. BufferTypeOK
  BY <1>1 DEF Init, BufferInit, BufferTypeOK
<1>3. CapacityFollowsBacklog
  BY <1>1 DEF CapacityFollowsBacklog, Capacity
<1>4. QED
  BY <1>2, <1>3 DEF Inv, TypeOK, Init

\* The steps that take bytes out of the buffer, and how many each takes.
Takes(n) ==
  /\ Retrieve(n)
  /\ UNCHANGED <<wire, peerVars>>
  /\ at' \in {"read", "decode"}
  /\ state' \in {"header", "body"}
  /\ expected' \in Nat
  /\ messages' \in Seq(Messages)

LEMMA DecodeTakes ==
  ASSUME TypeOK, ReadHeader \/ BodyIncomplete \/ TakeBody
  PROVE  \/ \E n \in 0 .. ReadableBytes : Takes(n)
         \/ /\ UNCHANGED <<bufferVars, wire, peerVars, codecVars, messages>>
            /\ at' \in {"read", "decode"}
<1> USE DEF TypeOK
<1>1. ReadableBytes \in Nat /\ Readable \in Seq(Bytes) /\ Len(Readable) = ReadableBytes
  BY ReadableType DEF ReadableFacts
<1>2. Separator \in 0 .. ReadableBytes
  BY <1>1 DEF Separator
<1>3. Error \in Messages /\ \A b : Parse(b) \in Messages
  BY DEF Messages, Parse
<1>4. CASE ReadHeader
  <2>1. FindCRLF >= 0 /\ FindCRLF \in Int /\ FindCRLF + 2 \in 0 .. ReadableBytes
    BY <1>4, FoundIsCRLF DEF ReadHeader, HeaderIsHere
  <2>2. HeaderLine \in Seq(Bytes)
    <3> DEFINE k == FindCRLF
    <3>1. k \in Int /\ k + 2 \in 0 .. Len(Readable)
      BY <1>1, <2>1
    <3> HIDE DEF k
    <3>2. \A i \in 1 .. k : Readable[i] \in Bytes
      BY <1>1, <3>1
    <3>3. SubSeq(Readable, 1, k) \in Seq(Bytes)
      BY <3>1, <3>2, SubSeqProperties
    <3>4. QED
      BY <3>3 DEF HeaderLine, k
  <2>3. ASSUME IsHeader(HeaderLine), Head(HeaderLine) # BadLength
        PROVE  Head(HeaderLine).of \in Nat
    <3>1. Head(HeaderLine) \in Bytes
      BY <2>2, <2>3, HeadTailProperties DEF IsHeader
    <3>2. QED
      BY <2>3, <3>1, BodiesAreBytes DEF IsHeader
  <2>4. state' \in {"header", "body"} /\ expected' \in Nat
    BY <1>4, <2>3 DEF ReadHeader, codecVars
  <2>5. messages' \in Seq(Messages)
    BY <1>3, <1>4, AppendProperties DEF ReadHeader
  <2>6. Takes(FindCRLF + 2)
    BY <1>4, <2>4, <2>5 DEF ReadHeader, Takes
  <2>7. QED
    BY <2>1, <2>6
<1>5. CASE BodyIncomplete
  <2>1. CASE Separator = 0
    BY <1>5, <2>1 DEF BodyIncomplete
  <2>2. CASE Separator # 0
    <3>1. Takes(Separator)
      BY <1>5, <2>2 DEF BodyIncomplete, Takes, codecVars
    <3>2. QED
      BY <1>2, <3>1
  <2>3. QED
    BY <2>1, <2>2
<1>6. CASE TakeBody
  <2>1. Separator + expected \in 0 .. ReadableBytes
    BY <1>1, <1>2, <1>6 DEF TakeBody, BodyIsHere
  <2>2. messages' \in Seq(Messages)
    BY <1>3, <1>6, AppendProperties DEF TakeBody
  <2>3. Takes(Separator + expected)
    BY <1>6, <2>2 DEF TakeBody, Takes
  <2>4. QED
    BY <2>1, <2>3
<1>7. QED
  BY <1>4, <1>5, <1>6

\* Reading moves bytes from the wire to the buffer.
LEMMA ReadMoves ==
  ASSUME TypeOK, Read
  PROVE  /\ TypeOK'
         /\ CapacityFollowsBacklog => CapacityFollowsBacklog'
         /\ Unread' = Unread
<1> USE DEF TypeOK
<1>1. PICK n \in 1 .. ReadSize :
        /\ n <= Len(wire)
        /\ AppendBytes(SubSeq(wire, 1, n))
        /\ wire' = SubSeq(wire, n + 1, Len(wire))
  BY DEF Read
<1>2. n \in Nat /\ Len(wire) \in Nat /\ 1 <= n
  BY ReadSizeIsPositive
<1> DEFINE piece == SubSeq(wire, 1, n)
           rest == SubSeq(wire, n + 1, Len(wire))
<1>3. piece \in Seq(Bytes)
  <2>1. \A i \in 1 .. n : wire[i] \in Bytes
    BY <1>1, <1>2
  <2>2. QED
    BY <1>2, <2>1, SubSeqProperties
<1>4. rest \in Seq(Bytes)
  <2>1. \A i \in n + 1 .. Len(wire) : wire[i] \in Bytes
    BY <1>1, <1>2
  <2>2. n + 1 \in Int /\ Len(wire) \in Int
    BY <1>2
  <2>3. QED
    BY <2>1, <2>2, SubSeqProperties
<1>5. piece \o rest = wire
  <2>1. /\ 1 \in 1 .. Len(wire) + 1
        /\ n \in 1 - 1 .. Len(wire)
        /\ Len(wire) \in n .. Len(wire)
    BY <1>1, <1>2
  <2>2. SubSeq(wire, 1, n) \o SubSeq(wire, n + 1, Len(wire)) = SubSeq(wire, 1, Len(wire))
    BY <2>1, ConcatAdjacentSubSeq
  <2>3. QED
    BY <2>2, SubSeqFull
<1>6. AppendBytes(piece) /\ wire' = rest
  BY <1>1
<1> HIDE DEF piece, rest
<1>7. /\ BufferTypeOK'
      /\ Readable' = Readable \o piece
      /\ CapacityFollowsBacklog => CapacityFollowsBacklog'
  BY <1>3, <1>6, AppendKeeps
<1>8. TypeOK'
  BY <1>4, <1>6, <1>7 DEF Read, peerVars, codecVars
<1>9. (Readable \o piece) \o rest = Readable \o (piece \o rest)
  <2>1. Readable \in Seq(Bytes)
    BY ReadableType DEF ReadableFacts
  <2>2. QED
    BY ONLY <1>3, <1>4, <2>1, ConcatAssociative
<1>10. Unread' = Unread
  BY <1>5, <1>6, <1>7, <1>9 DEF Unread
<1>11. QED
  BY <1>7, <1>8, <1>10

\* Taking n bytes from the buffer takes them from the stream.
LEMMA TakesFromStream ==
  ASSUME TypeOK, NEW n \in 0 .. ReadableBytes, Takes(n)
  PROVE  /\ TypeOK'
         /\ CapacityFollowsBacklog => CapacityFollowsBacklog'
         /\ n \in 0 .. Len(Unread)
         /\ Unread' = SubSeq(Unread, n + 1, Len(Unread))
<1> USE DEF TypeOK
<1> DEFINE m == ReadableBytes
<1>1. /\ Readable \in Seq(Bytes) /\ wire \in Seq(Bytes)
      /\ Len(Readable) = m /\ m \in Nat /\ Len(wire) \in Nat /\ n \in Nat /\ n <= m
  BY ReadableType DEF ReadableFacts
<1>2. /\ BufferTypeOK'
      /\ Readable' = SubSeq(Readable, n + 1, Len(Readable))
      /\ CapacityFollowsBacklog => CapacityFollowsBacklog'
  BY RetrieveDrops DEF Takes
<1>3. TypeOK'
  BY <1>2 DEF Takes, peerVars
<1>4. Unread' = SubSeq(Readable, n + 1, m) \o wire
  BY <1>1, <1>2 DEF Unread, Takes
<1>5. Unread \in Seq(Bytes) /\ Len(Unread) = m + Len(wire)
  BY <1>1, Joined DEF Unread
<1> HIDE DEF m
<1>6. SubSeq(Readable, n + 1, m) \o wire = SubSeq(Unread, n + 1, Len(Unread))
  <2>1. SubSeq(Unread, n + 1, m) \o SubSeq(Unread, m + 1, Len(Unread))
          = SubSeq(Unread, n + 1, Len(Unread))
    <3>1. /\ n + 1 \in 1 .. Len(Unread) + 1
          /\ m \in (n + 1) - 1 .. Len(Unread)
          /\ Len(Unread) \in m .. Len(Unread)
      BY <1>1, <1>5
    <3>2. QED
      BY <1>5, <3>1, ConcatAdjacentSubSeq
  <2>2. SubSeq(Unread, n + 1, m) = SubSeq(Readable, n + 1, m)
    <3>1. CASE n = m
      <4>1. m < n + 1 /\ n + 1 \in Int /\ m \in Int
        BY <1>1, <3>1
      <4>2. QED
        BY <4>1, SubSeqEmpty
    <3>2. CASE n # m
      <4>1. n + 1 \in 1 .. Len(Readable) /\ m \in 1 .. Len(Readable)
        BY <1>1, <3>2
      <4>2. QED
        BY <1>1, <4>1, SubSeqOfConcat1 DEF Unread
    <3>3. QED
      BY <3>1, <3>2
  <2>3. SubSeq(Unread, m + 1, Len(Unread)) = wire
    <3>1. CASE wire = <<>>
      <4>1. Len(Unread) < m + 1 /\ m + 1 \in Int /\ Len(Unread) \in Int
        BY <1>1, <1>5, <3>1
      <4>2. QED
        BY <3>1, <4>1, SubSeqEmpty
    <3>2. CASE wire # <<>>
      <4>1. Len(wire) > 0
        BY <1>1, <3>2
      <4>2. /\ m + 1 \in Len(Readable) + 1 .. Len(Readable) + Len(wire)
            /\ m + Len(wire) \in Len(Readable) + 1 .. Len(Readable) + Len(wire)
        BY <1>1, <4>1
      <4>3. SubSeq(Readable \o wire, m + 1, m + Len(wire))
              = SubSeq(wire, m + 1 - Len(Readable), m + Len(wire) - Len(Readable))
        BY <1>1, <4>2, SubSeqOfConcat2
      <4>4. /\ m + 1 - Len(Readable) = 1
            /\ m + Len(wire) - Len(Readable) = Len(wire)
        BY <1>1
      <4>5. SubSeq(wire, 1, Len(wire)) = wire
        BY <1>1, SubSeqFull
      <4>6. QED
        BY <1>5, <4>3, <4>4, <4>5 DEF Unread
    <3>3. QED
      BY <3>1, <3>2
  <2>4. QED
    BY <2>1, <2>2, <2>3
<1>7. n \in 0 .. Len(Unread)
  BY <1>1, <1>5
<1>8. QED
  BY <1>2, <1>3, <1>4, <1>6, <1>7

\* What the peer writes goes to the end of the stream.
LEMMA WriteExtends ==
  ASSUME TypeOK, WriteFrame \/ WriteLine \/ WriteBadHeader
  PROVE  /\ Inv => Inv'
         /\ Len(Unread') > Len(Unread)
         /\ SubSeq(Unread', 1, Len(Unread)) = Unread
<1>1. PICK bytes \in Seq(Bytes), owed \in Seq(Messages) :
        Len(bytes) > 0 /\ Write(bytes, owed)
  BY WritesAreWrites
<1>2. TypeOK'
  BY <1>1, WriteType
<1>3. Inv => Inv'
  BY <1>1, <1>2 DEF Write, bufferVars, Inv, CapacityFollowsBacklog, Capacity
<1>4. Readable \in Seq(Bytes) /\ wire \in Seq(Bytes)
  BY ReadableType DEF TypeOK, ReadableFacts
<1>5. Unread' = Unread \o bytes
  <2>1. Readable' = Readable /\ wire' = wire \o bytes
    BY <1>1 DEF Write, bufferVars, Readable
  <2>2. (Readable \o wire) \o bytes = Readable \o (wire \o bytes)
    BY <1>1, <1>4, ConcatAssociative
  <2>3. QED
    BY <2>1, <2>2 DEF Unread
<1>6. Unread \in Seq(Bytes)
  BY <1>4, Joined DEF Unread
<1>7. Len(Unread') > Len(Unread)
  BY <1>1, <1>5, <1>6, Joined
<1>8. SubSeq(Unread \o bytes, 1, Len(Unread)) = Unread
  <2>1. CASE Unread = <<>>
    <3>1. Len(Unread) = 0
      BY <2>1
    <3>2. SubSeq(Unread \o bytes, 1, Len(Unread)) = <<>>
      BY <3>1, SubSeqEmpty
    <3>3. QED
      BY <2>1, <3>2
  <2>2. CASE Unread # <<>>
    <3>1. 1 \in 1 .. Len(Unread) /\ Len(Unread) \in 1 .. Len(Unread)
      BY <1>6, <2>2
    <3>2. SubSeq(Unread \o bytes, 1, Len(Unread)) = SubSeq(Unread, 1, Len(Unread))
      BY <1>1, <1>6, <3>1, SubSeqOfConcat1
    <3>3. QED
      BY <1>6, <3>2, SubSeqFull
  <2>3. QED
    BY <2>1, <2>2
<1>9. QED
  BY <1>3, <1>5, <1>7, <1>8

------------------------------------------------------------------------------

\* One step: the invariant holds, and the stream is written to, taken from or
\* left alone.
LEMMA Step == Inv /\ [Next]_vars => Inv' /\ [Stream!Next]_Unread
<1> SUFFICES ASSUME Inv, [Next]_vars
             PROVE  Inv' /\ [Stream!Next]_Unread
  OBVIOUS
<1>1. TypeOK /\ CapacityFollowsBacklog
  BY DEF Inv
<1>2. CASE WriteFrame \/ WriteLine \/ WriteBadHeader
  <2>1. /\ Inv'
        /\ Len(Unread') > Len(Unread)
        /\ SubSeq(Unread', 1, Len(Unread)) = Unread
    BY <1>1, <1>2, WriteExtends
  <2>2. QED
    BY <2>1 DEF Stream!Next, Stream!Write, Unread
<1>3. CASE Read
  BY <1>1, <1>3, ReadMoves DEF Inv
<1>4. CASE ReadHeader \/ BodyIncomplete \/ TakeBody
  <2>1. CASE \E n \in 0 .. ReadableBytes : Takes(n)
    <3>1. PICK n \in 0 .. ReadableBytes : Takes(n)
      BY <2>1
    <3>2. /\ Inv'
          /\ n \in 0 .. Len(Unread)
          /\ Unread' = SubSeq(Unread, n + 1, Len(Unread))
      BY <1>1, <3>1, TakesFromStream DEF Inv
    <3>3. CASE n = 0
      <4>1. Unread \in Seq(Bytes)
        BY <1>1, ReadableType, Joined DEF TypeOK, ReadableFacts, Unread
      <4>2. Unread' = Unread
        BY <3>2, <3>3, <4>1, SubSeqFull
      <4>3. QED
        BY <3>2, <4>2
    <3>4. CASE n # 0
      <4>1. n \in 1 .. Len(Unread)
        BY <3>2, <3>4
      <4>2. QED
        BY <3>2, <4>1 DEF Stream!Next, Stream!Take, Unread
    <3>5. QED
      BY <3>3, <3>4
  <2>2. CASE /\ UNCHANGED <<bufferVars, wire, peerVars, codecVars, messages>>
             /\ at' \in {"read", "decode"}
    <3>1. Inv'
      BY <1>1, <2>2 DEF Inv, TypeOK, BufferTypeOK, CapacityFollowsBacklog,
                        Capacity, bufferVars, peerVars, codecVars
    <3>2. Unread' = Unread
      BY <2>2 DEF Unread, Readable, bufferVars
    <3>3. QED
      BY <3>1, <3>2
  <2>3. QED
    BY <1>1, <1>4, <2>1, <2>2, DecodeTakes
<1>5. CASE ReadNothing \/ NoHeaderYet \/ UNCHANGED vars
  <2>1. UNCHANGED <<bufferVars, wire, peerVars, codecVars, messages>>
    BY <1>5 DEF ReadNothing, NoHeaderYet, vars
  <2>2. at' \in {"read", "decode"}
    BY <1>1, <1>5 DEF ReadNothing, NoHeaderYet, vars, TypeOK
  <2>3. Inv'
    BY <1>1, <2>1, <2>2 DEF Inv, TypeOK, BufferTypeOK, CapacityFollowsBacklog,
                            Capacity, bufferVars, peerVars, codecVars
  <2>4. Unread' = Unread
    BY <2>1 DEF Unread, Readable, bufferVars
  <2>5. QED
    BY <2>3, <2>4
<1>6. QED
  BY <1>2, <1>3, <1>4, <1>5 DEF Next

LEMMA Invariance == Spec => []Inv
<1>1. Inv /\ [Next]_vars => Inv'
  BY Step
<1>2. QED
  BY InitInv, <1>1, PTL DEF Spec

(* The state of the buffer and of the decoder has its type: in particular the *)
(* indices stay in order and inside the vector, through every append, resize, *)
(* compaction and retrieve.                                                   *)
THEOREM TypeCorrect == Spec => []TypeOK
<1>1. Inv => TypeOK
  BY DEF Inv
<1>2. QED
  BY Invariance, <1>1, PTL

(* However much a peer sends, the buffer is smaller than the prepend space    *)
(* and twice the largest backlog: ensureWritableBytes compacts before it      *)
(* grows.                                                                     *)
THEOREM CapacityIsBounded == Spec => []CapacityFollowsBacklog
<1>1. Inv => CapacityFollowsBacklog
  BY DEF Inv
<1>2. QED
  BY Invariance, <1>1, PTL

(* Reading, compaction and growth are invisible to decode: the socket and the *)
(* buffer are one stream of bytes, written at the end and taken in order.     *)
THEOREM BufferIsAStream == Spec => ReceivesTheStream
<1>1. Init => Stream!Init
  <2> SUFFICES ASSUME Init PROVE Unread = <<>>
    BY DEF Stream!Init, Unread
  <2>1. writeIdx < readIdx + 1 /\ writeIdx \in Int /\ readIdx + 1 \in Int
    BY SizesAreNat DEF Init, BufferInit
  <2>2. Readable = <<>>
    BY <2>1, SubSeqEmpty DEF Readable
  <2>3. QED
    BY <2>2 DEF Unread, Init
<1>2. Inv /\ [Next]_vars => [Stream!Next]_Unread
  BY Step
<1>3. Spec => Stream!Init /\ [][Stream!Next]_Unread
  BY Invariance, <1>1, <1>2, PTL DEF Spec
<1>4. QED
  BY <1>3 DEF ReceivesTheStream, Stream!Spec, Unread

------------------------------------------------------------------------------
(* Frames.                                                                    *)

\* What the peer writes at once, with the messages owed for it.
Units ==
  {[bytes |-> Encode(b), owed |-> <<Parse(b)>>] : b \in Bodies}
    \cup {[bytes |-> l \o CRLF, owed |-> <<>>] : l \in Lines}
    \cup {[bytes |-> <<BadLength>> \o CRLF, owed |-> <<Error>>]}

\* The sequence s is what U has behind its first k bytes.
Lies(U, k, s) ==
  k + Len(s) <= Len(U) /\ \A i \in 1 .. Len(s) : U[k + i] = s[i]

\* Of the list d, what is owed for the bytes from p to e: at e, or nothing.
Owes(d, p, e, owed) ==
  /\ \A i \in 1 .. Len(d) :
       p < d[i].end /\ d[i].end <= e =>
         owed # <<>> /\ d[i].end = e /\ d[i].message = owed[1]
  /\ owed # <<>> => \E i \in 1 .. Len(d) : d[i].end = e

\* The bytes U, which follow the first T of the stream, can be cut at the places
\* in S into what the peer wrote.
Cuts(U, T, d, S) ==
  /\ T + Len(U) \in S
  /\ \A p \in S : T <= p =>
       /\ p <= T + Len(U)
       /\ \/ p = T + Len(U)
          \/ \E u \in Units :
               /\ Lies(U, p - T, u.bytes)
               /\ p + Len(u.bytes) \in S
               /\ Owes(d, p, p + Len(u.bytes), u.owed)

\* After a header: what is left of its frame, with the separator or without.
BodyAhead(U, T, d, S, length) ==
  \E b \in Bodies : \E e \in S :
    /\ length = Len(b)
    /\ \/ Lies(U, 0, CRLF \o b) /\ e = T + 2 + Len(b)
       \/ Lies(U, 0, b) /\ e = T + Len(b)
    /\ Owes(d, T, e, <<Parse(b)>>)

Ordered(d, w) ==
  /\ \A i \in 1 .. Len(d) : d[i].end <= w
  /\ \A i, j \in 1 .. Len(d) : i < j => d[i].end < d[j].end

\* The messages ms are those owed for the first T bytes.
Answered(d, ms, T) ==
  /\ Len(ms) <= Len(d)
  /\ \A i \in 1 .. Len(d) :
       IF i <= Len(ms) THEN d[i].message = ms[i] /\ d[i].end <= T ELSE d[i].end > T

\* How many bytes of the stream decode has taken.
Taken == written - Len(Unread)

FramedBy(U, T, d, S, st, length) ==
  /\ Cuts(U, T, d, S)
  /\ st = "header" => T \in S
  /\ st = "body" => BodyAhead(U, T, d, S, length)

\* The decoder is at the start of something the peer wrote, or right before a
\* body: it never loses its place in the stream.
InFrame ==
  /\ Len(Unread) <= written
  /\ Ordered(due, written)
  /\ Answered(due, messages, Taken)
  /\ \E S \in SUBSET (0 .. written) :
       FramedBy(Unread, Taken, due, S, state, expected)

\* The first line break of s is behind its first c bytes.
FirstBreak(s, c) ==
  c + 2 <= Len(s) /\ BreakAt(s, c) /\ \A i \in 0 .. c - 1 : ~BreakAt(s, i)

LEMMA JoinedAt ==
  ASSUME NEW s \in Seq(Bytes), NEW t \in Seq(Bytes)
  PROVE  /\ s \o t \in Seq(Bytes) /\ Len(s \o t) = Len(s) + Len(t)
         /\ Len(s) \in Nat /\ Len(t) \in Nat
         /\ \A i \in 1 .. Len(s) : (s \o t)[i] = s[i]
         /\ \A i \in 1 .. Len(t) : (s \o t)[Len(s) + i] = t[i]
<1>1. /\ Len(s) \in Nat /\ Len(t) \in Nat
      /\ s \o t \in Seq(Bytes) /\ Len(s \o t) = Len(s) + Len(t)
      /\ \A i \in 1 .. Len(s) + Len(t) :
           (s \o t)[i] = IF i <= Len(s) THEN s[i] ELSE t[i - Len(s)]
  OBVIOUS
<1>2. \A i \in 1 .. Len(s) : (s \o t)[i] = s[i]
  BY <1>1
<1>3. ASSUME NEW i \in 1 .. Len(t) PROVE (s \o t)[Len(s) + i] = t[i]
  <2>1. /\ Len(s) + i \in 1 .. Len(s) + Len(t) /\ ~(Len(s) + i <= Len(s))
        /\ (Len(s) + i) - Len(s) = i
    BY <1>1
  <2>2. QED
    BY <1>1, <2>1
<1>4. QED
  BY <1>1, <1>2, <1>3

LEMMA BreakDef ==
  /\ CRLF \in Seq(Bytes) /\ Len(CRLF) = 2 /\ CRLF[1] = CR /\ CRLF[2] = LF
  /\ CR \in Bytes /\ LF \in Bytes /\ BadLength \in Bytes
  /\ CR # LF /\ BadLength # CR /\ \A n \in Nat : ContentLength(n) # CR
<1>1. CR \in Bytes /\ LF \in Bytes /\ BadLength \in Bytes
  BY BodiesAreBytes
<1>2. CR.is = "CR" /\ LF.is = "LF" /\ BadLength.is = "length"
  BY DEF CR, LF, BadLength
<1>3. ASSUME NEW n \in Nat PROVE ContentLength(n) # CR
  <2>1. ContentLength(n).is = "length"
    BY DEF ContentLength
  <2>2. QED
    BY <1>2, <2>1
<1>4. CR # LF /\ BadLength # CR
  BY <1>2
<1>5. CRLF \in Seq(Bytes) /\ Len(CRLF) = 2 /\ CRLF[1] = CR /\ CRLF[2] = LF
  BY <1>1 DEF CRLF
<1>6. QED
  BY <1>1, <1>3, <1>4, <1>5

\* A byte and a line break.
LEMMA OneAndBreak ==
  ASSUME NEW h \in Seq(Bytes), Len(h) = 1
  PROVE  /\ h \o CRLF \in Seq(Bytes) /\ Len(h \o CRLF) = 3
         /\ (h \o CRLF)[1] = h[1]
         /\ (h \o CRLF)[2] = CR /\ (h \o CRLF)[3] = LF
<1>1. PICK k \in Seq(Bytes) : k = CRLF /\ Len(k) = 2 /\ k[1] = CR /\ k[2] = LF
  BY BreakDef
<1>2. /\ h \o k \in Seq(Bytes) /\ Len(h \o k) = Len(h) + Len(k)
      /\ \A i \in 1 .. Len(h) : (h \o k)[i] = h[i]
      /\ \A i \in 1 .. Len(k) : (h \o k)[Len(h) + i] = k[i]
  BY JoinedAt
<1>3. PICK s \in Seq(Bytes) :
        /\ s = h \o k /\ Len(s) = 3
        /\ \A i \in 1 .. 1 : s[i] = h[i]
        /\ \A i \in 1 .. 2 : s[1 + i] = k[i]
  <2>1. PICK s \in Seq(Bytes) : s = h \o k
    BY <1>2
  <2>2. /\ Len(s) = 3
        /\ \A i \in 1 .. 1 : s[i] = h[i]
        /\ \A i \in 1 .. 2 : s[1 + i] = k[i]
    BY <1>1, <1>2, <2>1
  <2>3. QED
    BY <2>1, <2>2
<1>4. 1 \in 1 .. 1 /\ 1 \in 1 .. 2 /\ 2 \in 1 .. 2 /\ 1 + 1 = 2 /\ 1 + 2 = 3
  OBVIOUS
<1>5. s[1] = h[1] /\ s[2] = CR /\ s[3] = LF
  BY <1>1, <1>3, <1>4
<1>6. QED
  BY <1>1, <1>3, <1>5

\* A frame, by its bytes.
LEMMA FrameBytes ==
  ASSUME NEW b \in Bodies
  PROVE  /\ b \in Seq(Bytes) /\ Len(b) \in Nat
         /\ Encode(b) \in Seq(Bytes) /\ Len(Encode(b)) = 5 + Len(b)
         /\ Encode(b)[1] = ContentLength(Len(b))
         /\ FirstBreak(Encode(b), 1)
         /\ CRLF \o b \in Seq(Bytes) /\ Len(CRLF \o b) = 2 + Len(b)
         /\ \A i \in 1 .. 2 + Len(b) : Encode(b)[3 + i] = (CRLF \o b)[i]
<1> DEFINE head == <<ContentLength(Len(b))>>
<1>1. b \in Seq(Bytes) /\ Len(b) \in Nat /\ ContentLength(Len(b)) \in Bytes
  BY BodiesAreBytes DEF Bodies
<1>2. head \in Seq(Bytes) /\ Len(head) = 1 /\ head[1] = ContentLength(Len(b))
  BY <1>1
<1> HIDE DEF head
<1>3. PICK h \in Seq(Bytes) :
        /\ h = head \o CRLF /\ Len(h) = 3
        /\ h[1] = ContentLength(Len(b)) /\ h[2] = CR /\ h[3] = LF
  <2>1. /\ head \o CRLF \in Seq(Bytes) /\ Len(head \o CRLF) = 3
        /\ (head \o CRLF)[1] = head[1]
        /\ (head \o CRLF)[2] = CR /\ (head \o CRLF)[3] = LF
    BY <1>2, BreakDef, OneAndBreak
  <2>2. QED
    BY <1>2, <2>1
<1>4. PICK r \in Seq(Bytes) : r = CRLF \o b /\ Len(r) = 2 + Len(b)
  <2>1. PICK k \in Seq(Bytes) : k = CRLF /\ Len(k) = 2
    BY BreakDef
  <2>2. k \o b \in Seq(Bytes) /\ Len(k \o b) = Len(k) + Len(b)
    BY <1>1, JoinedAt
  <2>3. QED
    BY <2>1, <2>2
<1>5. Encode(b) = h \o r
  <2>1. (h \o CRLF) \o b = h \o (CRLF \o b)
    BY <1>1, BreakDef, ConcatAssociative
  <2>2. QED
    BY <1>3, <1>4, <2>1 DEF Encode, head
<1>6. PICK e \in Seq(Bytes) :
        /\ e = h \o r /\ Len(e) = 5 + Len(b)
        /\ \A i \in 1 .. 3 : e[i] = h[i]
        /\ \A i \in 1 .. 2 + Len(b) : e[3 + i] = r[i]
  <2>1. /\ h \o r \in Seq(Bytes) /\ Len(h \o r) = Len(h) + Len(r)
        /\ \A i \in 1 .. Len(h) : (h \o r)[i] = h[i]
        /\ \A i \in 1 .. Len(r) : (h \o r)[Len(h) + i] = r[i]
    BY JoinedAt
  <2>2. Len(h) + Len(r) = 5 + Len(b)
    BY <1>1, <1>3, <1>4
  <2>3. PICK e \in Seq(Bytes) : e = h \o r
    BY <2>1
  <2>4. /\ Len(e) = 5 + Len(b)
        /\ \A i \in 1 .. 3 : e[i] = h[i]
        /\ \A i \in 1 .. 2 + Len(b) : e[3 + i] = r[i]
    BY <1>3, <1>4, <2>1, <2>2, <2>3
  <2>5. QED
    BY <2>3, <2>4
<1>7. e[1] = ContentLength(Len(b)) /\ e[2] = CR /\ e[3] = LF
  BY <1>3, <1>6
<1>8. FirstBreak(e, 1)
  <2>1. 1 + 2 <= Len(e) /\ BreakAt(e, 1)
    BY <1>1, <1>6, <1>7 DEF BreakAt
  <2>2. ~BreakAt(e, 0)
    BY <1>1, <1>7, BreakDef DEF BreakAt
  <2>3. \A i \in 0 .. 1 - 1 : i = 0
    OBVIOUS
  <2>4. QED
    BY <2>1, <2>2, <2>3 DEF FirstBreak
<1>9. QED
  BY <1>1, <1>4, <1>5, <1>6, <1>7, <1>8

\* A line and a bad header.
LEMMA LineBytes ==
  ASSUME WellFramed, NEW l \in Lines
  PROVE  /\ l \in Seq(Bytes) /\ Len(l) \in Nat /\ ~IsHeader(l)
         /\ l \o CRLF \in Seq(Bytes) /\ Len(l \o CRLF) = Len(l) + 2
         /\ \A i \in 1 .. Len(l) : (l \o CRLF)[i] = l[i]
         /\ FirstBreak(l \o CRLF, Len(l))
<1>1. l \in Seq(Bytes)
  BY BodiesAreBytes
<1>2. PICK n \in Nat, s \in Seq(Bytes) :
        /\ n = Len(l) /\ s = l \o CRLF /\ Len(s) = n + 2
        /\ \A i \in 1 .. n : s[i] = l[i]
        /\ s[n + 1] = CR /\ s[n + 2] = LF
  <2>1. PICK k \in Seq(Bytes), n \in Nat :
          k = CRLF /\ Len(k) = 2 /\ k[1] = CR /\ k[2] = LF /\ n = Len(l)
    BY <1>1, BreakDef
  <2>2. /\ l \o k \in Seq(Bytes) /\ Len(l \o k) = Len(l) + Len(k)
        /\ \A i \in 1 .. Len(l) : (l \o k)[i] = l[i]
        /\ \A i \in 1 .. Len(k) : (l \o k)[Len(l) + i] = k[i]
    BY <1>1, JoinedAt
  <2>3. PICK s \in Seq(Bytes) : s = l \o k
    BY <2>2
  <2>4. /\ Len(s) = n + 2
        /\ \A i \in 1 .. n : s[i] = l[i]
        /\ \A i \in 1 .. 2 : s[n + i] = k[i]
    BY <2>1, <2>2, <2>3
  <2>5. s[n + 1] = CR /\ s[n + 2] = LF
    BY <2>1, <2>4
  <2>6. QED
    BY <2>1, <2>3, <2>4, <2>5
<1>3. ~IsHeader(l) /\ \A i \in 0 .. n - 1 : ~BreakAt(s, i)
  BY <1>2 DEF WellFramed
<1>4. FirstBreak(s, n)
  <2>1. n + 2 <= Len(s) /\ BreakAt(s, n)
    BY <1>2 DEF BreakAt
  <2>2. QED
    BY <1>3, <2>1 DEF FirstBreak
<1>5. QED
  BY <1>1, <1>2, <1>3, <1>4

LEMMA BadBytes ==
  /\ <<BadLength>> \o CRLF \in Seq(Bytes) /\ Len(<<BadLength>> \o CRLF) = 3
  /\ (<<BadLength>> \o CRLF)[1] = BadLength
  /\ FirstBreak(<<BadLength>> \o CRLF, 1)
<1>1. PICK h \in Seq(Bytes) : h = <<BadLength>> /\ Len(h) = 1 /\ h[1] = BadLength
  <2>1. PICK byte \in Bytes : byte = BadLength
    BY BreakDef
  <2>2. <<byte>> \in Seq(Bytes) /\ Len(<<byte>>) = 1 /\ <<byte>>[1] = byte
    OBVIOUS
  <2>3. QED
    BY <2>1, <2>2
<1>2. PICK s \in Seq(Bytes) :
        /\ s = h \o CRLF /\ Len(s) = 3
        /\ s[1] = BadLength /\ s[2] = CR /\ s[3] = LF
  <2>1. /\ h \o CRLF \in Seq(Bytes) /\ Len(h \o CRLF) = 3
        /\ (h \o CRLF)[1] = h[1]
        /\ (h \o CRLF)[2] = CR /\ (h \o CRLF)[3] = LF
    BY <1>1, OneAndBreak
  <2>2. QED
    BY <1>1, <2>1
<1>3. FirstBreak(s, 1)
  <2>1. 1 + 2 <= Len(s) /\ BreakAt(s, 1)
    BY <1>2 DEF BreakAt
  <2>2. ~BreakAt(s, 0)
    BY <1>2, BreakDef DEF BreakAt
  <2>3. \A i \in 0 .. 1 - 1 : i = 0
    OBVIOUS
  <2>4. QED
    BY <2>1, <2>2, <2>3 DEF FirstBreak
<1>4. QED
  BY <1>1, <1>2, <1>3

\* What a unit is: a frame, a line or a bad header.
UnitIs(s, owed, c) ==
  \/ /\ \E b \in Bodies : s = Encode(b) /\ owed = <<Parse(b)>>
     /\ c = 1
  \/ /\ \E l \in Lines : s = l \o CRLF /\ c = Len(l)
     /\ owed = <<>>
  \/ s = <<BadLength>> \o CRLF /\ owed = <<Error>> /\ c = 1

LEMMA UnitFacts ==
  ASSUME WellFramed, NEW u \in Units
  PROVE  /\ u.bytes \in Seq(Bytes) /\ u.owed \in Seq(Messages)
         /\ Len(u.bytes) \in Nat /\ Len(u.owed) \in 0 .. 1
         /\ \E c \in Nat : FirstBreak(u.bytes, c) /\ UnitIs(u.bytes, u.owed, c)
<1>1. Error \in Messages /\ \A b : Parse(b) \in Messages
  BY DEF Messages, Parse
<1>2. \A m \in Messages : <<m>> \in Seq(Messages) /\ Len(<<m>>) = 1
  OBVIOUS
<1>3. <<>> \in Seq(Messages) /\ Len(<<>>) = 0
  OBVIOUS
<1>4. ASSUME NEW b \in Bodies, u = [bytes |-> Encode(b), owed |-> <<Parse(b)>>]
      PROVE  /\ u.bytes = Encode(b) /\ u.owed = <<Parse(b)>>
             /\ FirstBreak(u.bytes, 1) /\ UnitIs(u.bytes, u.owed, 1)
  <2>1. u.bytes = Encode(b) /\ u.owed = <<Parse(b)>>
    BY <1>4
  <2>2. QED
    BY <2>1, FrameBytes DEF UnitIs
<1>5. ASSUME NEW l \in Lines, u = [bytes |-> l \o CRLF, owed |-> <<>>]
      PROVE  /\ u.bytes = l \o CRLF /\ u.owed = <<>>
             /\ FirstBreak(u.bytes, Len(l)) /\ UnitIs(u.bytes, u.owed, Len(l))
  <2>1. u.bytes = l \o CRLF /\ u.owed = <<>>
    BY <1>5
  <2>2. QED
    BY <2>1, LineBytes DEF UnitIs
<1>6. ASSUME u = [bytes |-> <<BadLength>> \o CRLF, owed |-> <<Error>>]
      PROVE  /\ u.bytes = <<BadLength>> \o CRLF /\ u.owed = <<Error>>
             /\ FirstBreak(u.bytes, 1) /\ UnitIs(u.bytes, u.owed, 1)
  <2>1. u.bytes = <<BadLength>> \o CRLF /\ u.owed = <<Error>>
    BY <1>6
  <2>2. QED
    BY <2>1, BadBytes DEF UnitIs
<1>7. \/ \E b \in Bodies : u = [bytes |-> Encode(b), owed |-> <<Parse(b)>>]
      \/ \E l \in Lines : u = [bytes |-> l \o CRLF, owed |-> <<>>]
      \/ u = [bytes |-> <<BadLength>> \o CRLF, owed |-> <<Error>>]
  BY DEF Units
<1>8. CASE \E b \in Bodies : u = [bytes |-> Encode(b), owed |-> <<Parse(b)>>]
  <2>1. PICK b \in Bodies : u = [bytes |-> Encode(b), owed |-> <<Parse(b)>>]
    BY <1>8
  <2>2. PICK s \in Seq(Bytes), owed \in Seq(Messages) :
          s = Encode(b) /\ owed = <<Parse(b)>> /\ Len(owed) = 1
    BY <1>1, <1>2, FrameBytes
  <2>3. u.bytes = s /\ u.owed = owed
    BY <1>4, <2>1, <2>2
  <2>4. Len(s) \in Nat /\ Len(owed) \in 0 .. 1 /\ 1 \in Nat
    BY <2>2
  <2>5. QED
    BY <1>4, <2>1, <2>3, <2>4
<1>9. CASE \E l \in Lines : u = [bytes |-> l \o CRLF, owed |-> <<>>]
  <2>1. PICK l \in Lines : u = [bytes |-> l \o CRLF, owed |-> <<>>]
    BY <1>9
  <2>2. PICK s \in Seq(Bytes), owed \in Seq(Messages), n \in Nat :
          s = l \o CRLF /\ owed = <<>> /\ Len(owed) = 0 /\ n = Len(l)
    BY <1>3, LineBytes
  <2>3. u.bytes = s /\ u.owed = owed
    BY <1>5, <2>1, <2>2
  <2>4. Len(s) \in Nat /\ Len(owed) \in 0 .. 1
    BY <2>2
  <2>5. FirstBreak(u.bytes, n) /\ UnitIs(u.bytes, u.owed, n)
    BY <1>5, <2>1, <2>2
  <2>6. QED
    BY <2>3, <2>4, <2>5
<1>10. CASE u = [bytes |-> <<BadLength>> \o CRLF, owed |-> <<Error>>]
  BY <1>1, <1>2, <1>6, <1>10, BadBytes
<1>11. QED
  BY <1>7, <1>8, <1>9, <1>10

\* Taking bytes from the front leaves the cuts behind them where they are.
LEMMA Dropped ==
  ASSUME NEW U \in Seq(Bytes), NEW n \in 0 .. Len(U)
  PROVE  /\ SubSeq(U, n + 1, Len(U)) \in Seq(Bytes)
         /\ Len(SubSeq(U, n + 1, Len(U))) = Len(U) - n
         /\ \A i \in 1 .. Len(U) - n : SubSeq(U, n + 1, Len(U))[i] = U[n + i]
<1>1. PICK m \in Nat : m = Len(U)
  OBVIOUS
<1>2. /\ SubSeq(U, n + 1, m) \in Seq(Bytes) /\ Len(SubSeq(U, n + 1, m)) = m - n
      /\ \A i \in 1 .. m - n : SubSeq(U, n + 1, m)[i] = U[n + i]
  BY <1>1
<1>3. QED
  BY <1>1, <1>2

LEMMA LiesDropped ==
  ASSUME NEW U \in Seq(Bytes), NEW n \in 0 .. Len(U), NEW V \in Seq(Bytes),
         Len(V) = Len(U) - n, \A i \in 1 .. Len(U) - n : V[i] = U[n + i],
         NEW k \in Nat, n <= k, NEW s \in Seq(Bytes), Lies(U, k, s)
  PROVE  Lies(V, k - n, s)
<1>1. PICK m \in Nat, j \in Nat, x \in Nat : m = Len(U) /\ j = Len(s) /\ x = k - n
  <2>1. k - n \in Nat
    OBVIOUS
  <2>2. QED
    BY <2>1
<1>2. k + j <= m /\ \A i \in 1 .. j : U[k + i] = s[i]
  BY <1>1 DEF Lies
<1>3. n \in Nat /\ k = x + n /\ n <= m
  BY <1>1
<1>4. x + j <= m - n
  BY <1>2, <1>3
<1>5. ASSUME NEW i \in 1 .. j PROVE V[x + i] = s[i]
  <2>1. x + i \in 1 .. m - n /\ n + (x + i) = k + i
    BY <1>3, <1>4
  <2>2. V[x + i] = U[n + (x + i)]
    BY <1>1, <2>1
  <2>3. QED
    BY <1>2, <2>1, <2>2
<1>6. QED
  BY <1>1, <1>4, <1>5 DEF Lies

LEMMA CutsDropped ==
  ASSUME WellFramed, NEW U \in Seq(Bytes), NEW T \in Nat, NEW d, NEW S \in SUBSET Nat,
         NEW n \in 0 .. Len(U), NEW V \in Seq(Bytes),
         Len(V) = Len(U) - n, \A i \in 1 .. Len(U) - n : V[i] = U[n + i],
         Cuts(U, T, d, S)
  PROVE  Cuts(V, T + n, d, S)
<1>1. PICK m \in Nat, w \in Nat : m = Len(U) /\ w = T + m
  OBVIOUS
<1>2. n \in Nat /\ n <= m /\ (T + n) + (m - n) = w
  BY <1>1
<1>3. (T + n) + Len(V) = w
  BY <1>1, <1>2
<1>4. w \in S
  BY <1>1 DEF Cuts
<1>5. SUFFICES ASSUME NEW p \in S, T + n <= p
               PROVE  /\ p <= w
                      /\ \/ p = w
                         \/ \E u \in Units :
                              /\ Lies(V, p - (T + n), u.bytes)
                              /\ p + Len(u.bytes) \in S
                              /\ Owes(d, p, p + Len(u.bytes), u.owed)
  BY <1>3, <1>4 DEF Cuts
<1>6. T <= p /\ p \in Nat
  BY <1>2, <1>5
<1>7. /\ p <= w
      /\ \/ p = w
         \/ \E u \in Units :
              /\ Lies(U, p - T, u.bytes)
              /\ p + Len(u.bytes) \in S
              /\ Owes(d, p, p + Len(u.bytes), u.owed)
  BY <1>1, <1>5, <1>6 DEF Cuts
<1>8. CASE p # w
  <2>1. PICK u \in Units :
          /\ Lies(U, p - T, u.bytes)
          /\ p + Len(u.bytes) \in S
          /\ Owes(d, p, p + Len(u.bytes), u.owed)
    BY <1>7, <1>8
  <2>2. p - T \in Nat /\ n <= p - T /\ (p - T) - n = p - (T + n)
    BY <1>2, <1>5, <1>6
  <2>3. PICK k \in Nat : k = p - T
    BY <2>2
  <2>4. Lies(V, k - n, u.bytes)
    BY <2>1, <2>2, <2>3, UnitFacts, LiesDropped
  <2>5. Lies(V, p - (T + n), u.bytes)
    BY <2>2, <2>3, <2>4
  <2>6. QED
    BY <1>7, <2>1, <2>5
<1>9. QED
  BY <1>7, <1>8

Owing == [message : Messages, end : Nat]

LEMMA EndsAreNat ==
  ASSUME NEW d \in Seq(Owing)
  PROVE  Len(d) \in Nat /\ \A i \in 1 .. Len(d) : d[i].end \in Nat
<1>1. \A i \in 1 .. Len(d) : d[i] \in Owing
  OBVIOUS
<1>2. \A x \in Owing : x.end \in Nat
  BY DEF Owing
<1>3. QED
  BY <1>1, <1>2

\* Past the bytes something is owed for, its message is the next one due.
LEMMA AnsweredNext ==
  ASSUME NEW d \in Seq(Owing), NEW ms \in Seq(Messages), NEW owed \in Seq(Messages),
         Len(owed) \in 0 .. 1, NEW T \in Nat, NEW e \in Nat, T < e, NEW w,
         Ordered(d, w), Answered(d, ms, T), Owes(d, T, e, owed)
  PROVE  Answered(d, ms \o owed, e)
<1>1. PICK m \in Nat, n \in Nat : m = Len(ms) /\ n = Len(d)
  BY EndsAreNat
<1>2. \A i \in 1 .. n : d[i].end \in Nat
  BY <1>1, EndsAreNat
<1>3. /\ m <= n
      /\ \A i \in 1 .. n :
           IF i <= m THEN d[i].message = ms[i] /\ d[i].end <= T ELSE d[i].end > T
  BY <1>1 DEF Answered
<1>4. \A i \in 1 .. n : T < d[i].end /\ d[i].end <= e =>
                          owed # <<>> /\ d[i].end = e /\ d[i].message = owed[1]
  BY <1>1 DEF Owes
<1>5. CASE owed = <<>>
  <2>1. ms \o owed = ms
    BY <1>5
  <2>2. \A i \in 1 .. n :
          IF i <= m THEN d[i].message = ms[i] /\ d[i].end <= e ELSE d[i].end > e
    BY <1>2, <1>3, <1>4, <1>5
  <2>3. QED
    BY <1>1, <1>3, <2>1, <2>2 DEF Answered
<1>6. CASE owed # <<>>
  <2>1. PICK k \in 1 .. n : d[k].end = e
    BY <1>1, <1>6 DEF Owes
  <2>2. ~(k <= m)
    BY <1>3, <2>1
  <2>3. m + 1 \in 1 .. n
    BY <2>1, <2>2
  <2>4. d[m + 1].end > T /\ d[m + 1].end \in Nat
    BY <1>2, <1>3, <2>3
  <2>5. k = m + 1
    <3>1. SUFFICES ASSUME m + 1 < k PROVE FALSE
      BY <2>1, <2>2
    <3>2. d[m + 1].end < d[k].end
      BY <1>1, <2>1, <2>3, <3>1 DEF Ordered
    <3>3. d[m + 1].end = e
      BY <1>4, <2>1, <2>3, <2>4, <3>2
    <3>4. QED
      BY <2>1, <2>4, <3>2, <3>3
  <2>6. d[m + 1].end = e /\ d[m + 1].message = owed[1]
    BY <1>4, <2>1, <2>4, <2>5
  <2>7. PICK l \in Seq(Messages) :
          /\ l = ms \o owed /\ Len(l) = m + 1 /\ l[m + 1] = owed[1]
          /\ \A i \in 1 .. m : l[i] = ms[i]
    <3>0. /\ ms \o owed \in Seq(Messages)
          /\ Len(ms \o owed) = Len(ms) + Len(owed)
          /\ \A i \in 1 .. Len(ms) + Len(owed) :
               (ms \o owed)[i] = IF i <= Len(ms) THEN ms[i] ELSE owed[i - Len(ms)]
      OBVIOUS
    <3>1. PICK l \in Seq(Messages) : l = ms \o owed
      BY <3>0
    <3>2. Len(owed) = 1
      BY <1>6
    <3>3. /\ Len(l) = m + 1
          /\ \A i \in 1 .. m + 1 : l[i] = IF i <= m THEN ms[i] ELSE owed[i - m]
      BY <1>1, <3>0, <3>1, <3>2
    <3>4. m + 1 \in 1 .. m + 1 /\ ~(m + 1 <= m) /\ (m + 1) - m = 1
      OBVIOUS
    <3>5. l[m + 1] = owed[1]
      BY <3>3, <3>4
    <3>6. \A i \in 1 .. m : l[i] = ms[i]
      BY <3>3
    <3>7. QED
      BY <3>1, <3>3, <3>5, <3>6
  <2>8. ASSUME NEW i \in 1 .. n
        PROVE  IF i <= m + 1 THEN d[i].message = l[i] /\ d[i].end <= e ELSE d[i].end > e
    <3>1. CASE i <= m
      <4>1. d[i].message = ms[i] /\ d[i].end <= T /\ d[i].end \in Nat
        BY <1>2, <1>3, <3>1
      <4>2. l[i] = ms[i]
        BY <2>7, <3>1
      <4>3. QED
        BY <3>1, <4>1, <4>2
    <3>2. CASE i = m + 1
      BY <2>4, <2>6, <2>7, <3>2
    <3>3. CASE i > m + 1
      <4>1. d[m + 1].end < d[i].end
        BY <1>1, <2>3, <3>3 DEF Ordered
      <4>2. QED
        BY <2>6, <3>3, <4>1
    <3>4. QED
      BY <3>1, <3>2, <3>3
  <2>9. QED
    BY <1>1, <2>3, <2>7, <2>8 DEF Answered
<1>7. QED
  BY <1>5, <1>6

\* Within those bytes nothing more is due.
LEMMA AnsweredWithin ==
  ASSUME NEW d \in Seq(Owing), NEW ms \in Seq(Messages), NEW owed,
         NEW T \in Nat, NEW e \in Nat, NEW t \in Nat, T <= t, t < e,
         Answered(d, ms, T), Owes(d, T, e, owed)
  PROVE  Answered(d, ms, t) /\ Owes(d, t, e, owed)
<1>1. PICK m \in Nat, n \in Nat : m = Len(ms) /\ n = Len(d)
  BY EndsAreNat
<1>2. \A i \in 1 .. n : d[i].end \in Nat
  BY <1>1, EndsAreNat
<1>3. /\ m <= n
      /\ \A i \in 1 .. n :
           IF i <= m THEN d[i].message = ms[i] /\ d[i].end <= T ELSE d[i].end > T
  BY <1>1 DEF Answered
<1>4. /\ \A i \in 1 .. n : T < d[i].end /\ d[i].end <= e =>
                             owed # <<>> /\ d[i].end = e /\ d[i].message = owed[1]
      /\ owed # <<>> => \E i \in 1 .. n : d[i].end = e
  BY <1>1 DEF Owes
<1>5. \A i \in 1 .. n : t < d[i].end /\ d[i].end <= e =>
                          owed # <<>> /\ d[i].end = e /\ d[i].message = owed[1]
  BY <1>2, <1>4
<1>6. ASSUME NEW i \in 1 .. n
      PROVE  IF i <= m THEN d[i].message = ms[i] /\ d[i].end <= t ELSE d[i].end > t
  <2>1. PICK x \in Nat : x = d[i].end
    BY <1>2
  <2>2. CASE i <= m
    BY <1>3, <2>1, <2>2
  <2>3. CASE ~(i <= m)
    <3>1. x > T
      BY <1>3, <2>1, <2>3
    <3>2. x <= e => x = e
      BY <1>4, <2>1, <3>1
    <3>3. x > t
      BY <3>2
    <3>4. QED
      BY <2>1, <2>3, <3>3
  <2>4. QED
    BY <2>2, <2>3
<1>7. QED
  BY <1>1, <1>3, <1>4, <1>5, <1>6 DEF Answered, Owes

\* The list d followed by what is owed for bytes that end at w.
Grown(d, g, owed, w) ==
  /\ Len(g) = Len(d) + Len(owed)
  /\ \A i \in 1 .. Len(d) : g[i] = d[i]
  /\ owed # <<>> => g[Len(d) + 1].message = owed[1] /\ g[Len(d) + 1].end = w

LEMMA WhatGrew ==
  ASSUME NEW d \in Seq(Owing), NEW g \in Seq(Owing), NEW owed \in Seq(Messages),
         Len(owed) \in 0 .. 1, NEW w \in Nat, Grown(d, g, owed, w)
  PROVE  \A i \in 1 .. Len(g) :
           \/ i \in 1 .. Len(d) /\ g[i] = d[i]
           \/ i = Len(d) + 1 /\ owed # <<>> /\ g[i].message = owed[1] /\ g[i].end = w
<1>1. PICK n \in Nat, o \in 0 .. 1 : n = Len(d) /\ o = Len(owed)
  BY EndsAreNat
<1>2. Len(g) = n + o
  BY <1>1 DEF Grown
<1>3. SUFFICES ASSUME NEW i \in 1 .. n + o
               PROVE  \/ i \in 1 .. n /\ g[i] = d[i]
                      \/ i = n + 1 /\ owed # <<>> /\ g[i].message = owed[1] /\ g[i].end = w
  BY <1>1, <1>2
<1>4. CASE i <= n
  BY <1>1, <1>3, <1>4 DEF Grown
<1>5. CASE ~(i <= n)
  <2>0. o = 0 \/ o = 1
    BY <1>1
  <2>1. i = n + 1 /\ o = 1
    BY <1>3, <1>5, <2>0
  <2>2. owed # <<>>
    <3>1. Len(owed) # Len(<<>>)
      BY <1>1, <2>1
    <3>2. QED
      BY <3>1, Zenon
  <2>3. g[n + 1].message = owed[1] /\ g[n + 1].end = w
    BY <1>1, <2>2 DEF Grown
  <2>4. QED
    BY <2>1, <2>2, <2>3
<1>6. QED
  BY <1>4, <1>5

LEMMA DueGrown ==
  ASSUME NEW d \in Seq(Owing), NEW g \in Seq(Owing), NEW owed \in Seq(Messages),
         Len(owed) \in 0 .. 1, NEW v \in Nat, NEW w \in Nat, v < w,
         Grown(d, g, owed, w), Ordered(d, v)
  PROVE  /\ Ordered(g, w)
         /\ Owes(g, v, w, owed)
         /\ \A p \in Nat, e \in 0 .. v, o \in Seq(Messages) : Owes(d, p, e, o) => Owes(g, p, e, o)
         /\ \A ms \in Seq(Messages), T \in 0 .. v : Answered(d, ms, T) => Answered(g, ms, T)
<1>1. PICK n \in Nat, k \in Nat : n = Len(d) /\ k = Len(g) /\ n <= k
  <2>1. Len(d) \in Nat /\ Len(g) \in Nat /\ Len(d) <= Len(g)
    BY EndsAreNat DEF Grown
  <2>2. QED
    BY <2>1
<1>2. /\ \A i \in 1 .. n : d[i].end \in Nat /\ d[i].end <= v
      /\ \A i, j \in 1 .. n : i < j => d[i].end < d[j].end
  BY <1>1, EndsAreNat DEF Ordered
<1>3. \A i \in 1 .. k :
        \/ i \in 1 .. n /\ g[i] = d[i]
        \/ i = n + 1 /\ owed # <<>> /\ g[i].message = owed[1] /\ g[i].end = w
  BY <1>1, WhatGrew
<1>4. \A i \in 1 .. n : i \in 1 .. k /\ g[i] = d[i]
  BY <1>1 DEF Grown
<1>5. Ordered(g, w)
  <2>1. \A i \in 1 .. k : g[i].end <= w
    BY <1>2, <1>3
  <2>2. ASSUME NEW i \in 1 .. k, NEW j \in 1 .. k, i < j PROVE g[i].end < g[j].end
    <3>1. i \in 1 .. n /\ g[i] = d[i]
      <4>1. j \in 1 .. n \/ j = n + 1
        BY <1>3
      <4>2. i # n + 1
        BY <1>1, <2>2, <4>1
      <4>3. QED
        BY <1>3, <4>2
    <3>2. CASE j \in 1 .. n /\ g[j] = d[j]
      BY <1>2, <2>2, <3>1, <3>2
    <3>3. CASE g[j].end = w
      BY <1>2, <3>1, <3>3
    <3>4. QED
      BY <1>3, <3>2, <3>3
  <2>3. QED
    BY <1>1, <2>1, <2>2 DEF Ordered
<1>6. Owes(g, v, w, owed)
  <2>1. ASSUME NEW i \in 1 .. k, v < g[i].end, g[i].end <= w
        PROVE  owed # <<>> /\ g[i].end = w /\ g[i].message = owed[1]
    <3>1. ~(i \in 1 .. n /\ g[i] = d[i])
      BY <1>2, <2>1
    <3>2. QED
      BY <1>3, <3>1
  <2>2. ASSUME owed # <<>> PROVE \E i \in 1 .. k : g[i].end = w
    <3>1. Len(owed) = 1
      BY <2>2
    <3>2. n + 1 \in 1 .. k /\ g[n + 1].end = w
      BY <1>1, <2>2, <3>1 DEF Grown
    <3>3. QED
      BY <3>2
  <2>3. QED
    BY <1>1, <2>1, <2>2 DEF Owes
<1>7. ASSUME NEW p \in Nat, NEW e \in 0 .. v, NEW o \in Seq(Messages), Owes(d, p, e, o)
      PROVE  Owes(g, p, e, o)
  <2>1. /\ \A i \in 1 .. n : p < d[i].end /\ d[i].end <= e =>
                               o # <<>> /\ d[i].end = e /\ d[i].message = o[1]
        /\ o # <<>> => \E i \in 1 .. n : d[i].end = e
    BY <1>1, <1>7 DEF Owes
  <2>2. ASSUME NEW i \in 1 .. k, p < g[i].end, g[i].end <= e
        PROVE  o # <<>> /\ g[i].end = e /\ g[i].message = o[1]
    <3>1. g[i].end # w
      <4>1. ~(w <= e)
        OBVIOUS
      <4>2. QED
        BY <2>2, <4>1
    <3>2. i \in 1 .. n /\ g[i] = d[i]
      BY <1>3, <3>1
    <3>3. QED
      BY <2>1, <2>2, <3>2
  <2>3. o # <<>> => \E i \in 1 .. k : g[i].end = e
    BY <1>4, <2>1
  <2>4. QED
    BY <1>1, <2>2, <2>3 DEF Owes
<1>8. ASSUME NEW ms \in Seq(Messages), NEW T \in 0 .. v, Answered(d, ms, T)
      PROVE  Answered(g, ms, T)
  <2>1. PICK m \in Nat : m = Len(ms)
    OBVIOUS
  <2>2. /\ m <= n
        /\ \A i \in 1 .. n :
             IF i <= m THEN d[i].message = ms[i] /\ d[i].end <= T ELSE d[i].end > T
    BY <1>1, <1>8, <2>1 DEF Answered
  <2>3. ASSUME NEW i \in 1 .. k
        PROVE  IF i <= m THEN g[i].message = ms[i] /\ g[i].end <= T ELSE g[i].end > T
    <3>1. CASE i \in 1 .. n /\ g[i] = d[i]
      BY <2>2, <3>1
    <3>2. CASE i = n + 1 /\ g[i].end = w
      <4>1. ~(i <= m) /\ w > T
        BY <2>2, <3>2
      <4>2. QED
        BY <3>2, <4>1
    <3>3. QED
      BY <1>3, <3>1, <3>2
  <2>4. QED
    BY <1>1, <2>1, <2>2, <2>3 DEF Answered
<1>9. QED
  BY <1>5, <1>6, <1>7, <1>8

\* What is written extends the cuts by one.
LEMMA LiesExtended ==
  ASSUME NEW U \in Seq(Bytes), NEW s \in Seq(Bytes), NEW V \in Seq(Bytes),
         V = U \o s
  PROVE  /\ Len(V) = Len(U) + Len(s)
         /\ Lies(V, Len(U), s)
         /\ \A k \in Nat, t \in Seq(Bytes) :
              Lies(U, k, t) => k + Len(t) <= Len(U) /\ Lies(V, k, t)
<1>1. /\ Len(V) = Len(U) + Len(s)
      /\ \A i \in 1 .. Len(U) : V[i] = U[i]
      /\ \A i \in 1 .. Len(s) : V[Len(U) + i] = s[i]
  <2>1. /\ Len(U \o s) = Len(U) + Len(s)
        /\ \A i \in 1 .. Len(U) : (U \o s)[i] = U[i]
        /\ \A i \in 1 .. Len(s) : (U \o s)[Len(U) + i] = s[i]
    BY JoinedAt
  <2>2. QED
    BY <2>1
<1>2. PICK m \in Nat, n \in Nat : m = Len(U) /\ n = Len(s)
  OBVIOUS
<1>3. Lies(V, Len(U), s)
  BY <1>1, <1>2 DEF Lies
<1>4. ASSUME NEW k \in Nat, NEW t \in Seq(Bytes), Lies(U, k, t)
      PROVE  k + Len(t) <= Len(U) /\ Lies(V, k, t)
  <2>1. PICK j \in Nat : j = Len(t)
    OBVIOUS
  <2>2. k + j <= m /\ \A i \in 1 .. j : U[k + i] = t[i]
    BY <1>2, <1>4, <2>1 DEF Lies
  <2>3. ASSUME NEW i \in 1 .. j PROVE V[k + i] = t[i]
    <3>1. k + i \in 1 .. m
      BY <2>2
    <3>2. QED
      BY <1>1, <1>2, <2>2, <3>1
  <2>4. k + j <= m + n
    BY <2>2
  <2>5. QED
    BY <1>1, <1>2, <2>1, <2>2, <2>3, <2>4 DEF Lies
<1>5. QED
  BY <1>1, <1>3, <1>4

LEMMA CutsExtended ==
  ASSUME WellFramed, NEW U \in Seq(Bytes), NEW T \in Nat, NEW w \in Nat,
         NEW m \in Nat, m = Len(U), w = T + m,
         NEW d \in Seq(Owing), NEW S \in SUBSET (0 .. w), Cuts(U, T, d, S), Ordered(d, w),
         NEW u \in Units, NEW s \in Seq(Bytes), NEW o \in Seq(Messages),
         s = u.bytes, o = u.owed, Len(o) \in 0 .. 1,
         NEW n \in Nat, n = Len(s), n >= 2,
         NEW V \in Seq(Bytes), V = U \o s,
         NEW z \in Nat, z = w + n,
         NEW g \in Seq(Owing), Grown(d, g, o, z)
  PROVE  Cuts(V, T, g, S \cup {z})
<1>1. w < z /\ w - T = m /\ T + (m + n) = z
  BY ONLY w \in Nat, T \in Nat, m \in Nat, n \in Nat, w = T + m, n >= 2, z = w + n
<1>2. /\ Len(V) = Len(U) + Len(s)
      /\ Lies(V, Len(U), s)
      /\ \A k \in Nat, t \in Seq(Bytes) :
           Lies(U, k, t) => k + Len(t) <= Len(U) /\ Lies(V, k, t)
  BY LiesExtended
<1>3. T + Len(V) = z /\ w - T = m /\ w \in S
  <2>1. PICK v \in Nat : v = Len(V) /\ v = m + n
    BY <1>1, <1>2
  <2>2. w \in S
    BY <1>1 DEF Cuts
  <2>3. T + v = z
    BY <1>1, <2>1
  <2>4. QED
    BY <1>1, <2>1, <2>2, <2>3
<1>4. /\ Owes(g, w, z, o)
      /\ \A p \in Nat, e \in 0 .. w, q \in Seq(Messages) : Owes(d, p, e, q) => Owes(g, p, e, q)
  BY <1>1, DueGrown, Zenon
<1>5. SUFFICES ASSUME NEW p \in S \cup {z}, T <= p
               PROVE  /\ p <= z
                      /\ \/ p = z
                         \/ \E x \in Units :
                              /\ Lies(V, p - T, x.bytes)
                              /\ p + Len(x.bytes) \in S \cup {z}
                              /\ Owes(g, p, p + Len(x.bytes), x.owed)
  BY <1>3 DEF Cuts
<1>6. CASE p = z
  BY <1>6
<1>7. CASE p = w
  <2>1. Lies(V, p - T, s)
    BY <1>1, <1>2, <1>3, <1>7
  <2>2. p + Len(s) = z /\ p <= z
    <3>1. p + n = z /\ p <= z
      BY ONLY <1>1, <1>7, w \in Nat, z \in Nat, z = w + n
    <3>2. QED
      BY <1>1, <3>1
  <2>3. Owes(g, p, p + Len(s), o)
    BY <1>4, <1>7, <2>2
  <2>4. QED
    <3>1. z \in S \cup {z}
      OBVIOUS
    <3>2. /\ Lies(V, p - T, u.bytes)
          /\ p + Len(u.bytes) \in S \cup {z}
          /\ Owes(g, p, p + Len(u.bytes), u.owed)
      BY <2>1, <2>2, <2>3, <3>1
    <3>3. QED
      BY <2>2, <3>2
<1>8. CASE p # w /\ p # z
  <2>1. p \in S /\ p \in Nat
    <3>1. p \in S
      BY <1>5, <1>8
    <3>2. p \in 0 .. w
      BY <3>1
    <3>3. QED
      BY <3>1, <3>2
  <2>2. /\ p <= w
        /\ \E x \in Units :
             /\ Lies(U, p - T, x.bytes)
             /\ p + Len(x.bytes) \in S
             /\ Owes(d, p, p + Len(x.bytes), x.owed)
    BY <1>1, <1>5, <1>8, <2>1 DEF Cuts
  <2>3. PICK x \in Units :
          /\ Lies(U, p - T, x.bytes)
          /\ p + Len(x.bytes) \in S
          /\ Owes(d, p, p + Len(x.bytes), x.owed)
    BY <2>2
  <2>4. p - T \in Nat /\ x.bytes \in Seq(Bytes) /\ x.owed \in Seq(Messages)
    BY <1>5, <2>1, UnitFacts
  <2>5. Lies(V, p - T, x.bytes)
    BY <1>2, <2>3, <2>4
  <2>6. p + Len(x.bytes) \in 0 .. w
    BY <2>3
  <2>7. Owes(g, p, p + Len(x.bytes), x.owed)
    BY <1>4, <2>1, <2>3, <2>4, <2>6
  <2>8. p <= z
    <3>1. p <= w /\ w < z
      BY <1>1, <2>2
    <3>2. QED
      BY ONLY <2>1, <3>1, w \in Nat, z \in Nat
  <2>9. QED
    BY <2>3, <2>5, <2>7, <2>8
<1>9. QED
  BY <1>6, <1>7, <1>8

\* One write keeps the decoder in its frame.
LEMMA WriteFramed ==
  ASSUME WellFramed, TypeOK, InFrame, NEW u \in Units, Write(u.bytes, u.owed)
  PROVE  InFrame'
<1>1. /\ u.bytes \in Seq(Bytes) /\ u.owed \in Seq(Messages)
      /\ Len(u.bytes) \in Nat /\ Len(u.owed) \in 0 .. 1 /\ Len(u.bytes) >= 2
  <2>1. /\ u.bytes \in Seq(Bytes) /\ u.owed \in Seq(Messages)
        /\ Len(u.bytes) \in Nat /\ Len(u.owed) \in 0 .. 1
        /\ \E c \in Nat : FirstBreak(u.bytes, c) /\ UnitIs(u.bytes, u.owed, c)
    BY UnitFacts
  <2>2. Len(u.bytes) >= 2
    BY <2>1 DEF FirstBreak
  <2>3. QED
    BY <2>1, <2>2
<1>0. PICK s \in Seq(Bytes), o \in Seq(Messages), l \in Nat :
        /\ s = u.bytes /\ o = u.owed /\ l = Len(s) /\ l >= 2 /\ Len(o) \in 0 .. 1
        /\ Write(s, o)
  BY <1>1
<1>2. PICK U \in Seq(Bytes), T \in Nat, w \in Nat, d \in Seq(Owing), ms \in Seq(Messages) :
        U = Unread /\ T = Taken /\ w = written /\ w = T + Len(U) /\ d = due /\ ms = messages
  <2>1. Unread \in Seq(Bytes) /\ Len(Unread) \in Nat
    BY ReadableType, Joined DEF TypeOK, ReadableFacts, Unread
  <2>2. written \in Nat /\ Len(Unread) <= written
    BY DEF TypeOK, InFrame
  <2>3. Taken \in Nat /\ written = Taken + Len(Unread)
    BY <2>1, <2>2 DEF Taken
  <2>4. due \in Seq(Owing) /\ messages \in Seq(Messages)
    BY DEF TypeOK, Owing
  <2>5. QED
    BY <2>1, <2>2, <2>3, <2>4
<1>3. PICK S \in SUBSET (0 .. w) : FramedBy(U, T, d, S, state, expected)
  BY <1>2 DEF InFrame
<1>4. Ordered(d, w) /\ Answered(d, ms, T)
  BY <1>2 DEF InFrame
<1>5. PICK V \in Seq(Bytes) : V = U \o s /\ V = Unread' /\ Len(V) = Len(U) + Len(s)
  <2>1. Readable \in Seq(Bytes) /\ wire \in Seq(Bytes)
    BY ReadableType DEF TypeOK, ReadableFacts
  <2>2. Readable' = Readable /\ wire' = wire \o s
    BY <1>0 DEF Write, bufferVars, Readable
  <2>3. PICK r \in Seq(Bytes), x \in Seq(Bytes) : r = Readable /\ x = wire
    BY <2>1
  <2>4. Unread' = U \o s
    <3>1. (r \o x) \o s = r \o (x \o s)
      BY ONLY s \in Seq(Bytes), r \in Seq(Bytes), x \in Seq(Bytes), ConcatAssociative
    <3>2. U = r \o x
      BY <1>2, <2>3 DEF Unread
    <3>3. Unread' = r \o (x \o s)
      BY <2>2, <2>3 DEF Unread
    <3>4. QED
      BY <3>1, <3>2, <3>3
  <2>5. U \o s \in Seq(Bytes) /\ Len(U \o s) = Len(U) + Len(s)
    BY <1>0, JoinedAt
  <2>6. QED
    BY <2>4, <2>5
<1>6. PICK z \in Nat : z = w + l /\ z = written' /\ w < z
  <2>1. written' = w + l
    BY <1>0, <1>2 DEF Write
  <2>2. w + l \in Nat /\ w < w + l
    BY <1>0
  <2>3. QED
    BY <2>1, <2>2
<1>7. PICK g \in Seq(Owing) : g = due' /\ Grown(d, g, o, z)
  <2>1. PICK n \in 0 .. 1 : n = Len(o)
    BY <1>0
  <2>2. \A i \in 1 .. n : [message |-> o[i], end |-> z] \in Owing
    BY <2>1 DEF Owing
  <2>3. PICK x \in Seq(Owing) :
          /\ x = [i \in 1 .. n |-> [message |-> o[i], end |-> z]]
          /\ Len(x) = n
          /\ \A i \in 1 .. n : x[i] = [message |-> o[i], end |-> z]
    <3>1. /\ [i \in 1 .. n |-> [message |-> o[i], end |-> z]] \in Seq(Owing)
          /\ Len([i \in 1 .. n |-> [message |-> o[i], end |-> z]]) = n
      BY <2>2
    <3>2. QED
      BY <3>1
  <2>4. due' = d \o x
    BY <1>0, <1>2, <1>6, <2>1, <2>3 DEF Write
  <2>5. /\ d \o x \in Seq(Owing) /\ Len(d \o x) = Len(d) + Len(x)
        /\ \A i \in 1 .. Len(d) + Len(x) :
             (d \o x)[i] = IF i <= Len(d) THEN d[i] ELSE x[i - Len(d)]
        /\ Len(d) \in Nat
    OBVIOUS
  <2>6. PICK g \in Seq(Owing), k \in Nat : g = d \o x /\ k = Len(d)
    BY <2>5
  <2>7. Len(g) = k + n /\ \A i \in 1 .. k + n : g[i] = IF i <= k THEN d[i] ELSE x[i - k]
    BY <2>3, <2>5, <2>6
  <2>8. \A i \in 1 .. k : g[i] = d[i]
    <3>1. \A i \in 1 .. k : i \in 1 .. k + n
      BY <2>1, <2>6
    <3>2. QED
      BY <2>7, <3>1
  <2>9. ASSUME o # <<>> PROVE g[k + 1].message = o[1] /\ g[k + 1].end = z
    <3>1. n = 1
      BY <2>1, <2>9
    <3>2. k + 1 \in 1 .. k + n /\ ~(k + 1 <= k) /\ (k + 1) - k = 1 /\ 1 \in 1 .. n
      BY <3>1
    <3>3. g[k + 1] = [message |-> o[1], end |-> z]
      BY <2>3, <2>7, <3>2
    <3>4. QED
      BY <3>3
  <2>10. Grown(d, g, o, z)
    BY <2>1, <2>6, <2>7, <2>8, <2>9 DEF Grown
  <2>11. QED
    BY <2>4, <2>6, <2>10
<1>8. /\ Ordered(g, z)
      /\ \A p \in Nat, e \in 0 .. w, r \in Seq(Messages) : Owes(d, p, e, r) => Owes(g, p, e, r)
      /\ \A ns \in Seq(Messages), t \in 0 .. w : Answered(d, ns, t) => Answered(g, ns, t)
  BY <1>0, <1>4, <1>6, <1>7, DueGrown
<1>9. Answered(g, ms, T)
  BY <1>2, <1>4, <1>8
<1>10. Cuts(V, T, g, S \cup {z})
  <2>1. PICK m \in Nat : m = Len(U)
    OBVIOUS
  <2>2. w = T + m
    BY <1>2, <2>1
  <2>3. Cuts(U, T, d, S)
    BY <1>3 DEF FramedBy
  <2>4. QED
    BY <1>0, <1>4, <1>5, <1>6, <1>7, <2>1, <2>2, <2>3, CutsExtended
<1>11. ASSUME NEW length, BodyAhead(U, T, d, S, length)
       PROVE  BodyAhead(V, T, g, S \cup {z}, length)
  <2>1. PICK b \in Bodies, e \in S :
          /\ length = Len(b)
          /\ \/ Lies(U, 0, CRLF \o b) /\ e = T + 2 + Len(b)
             \/ Lies(U, 0, b) /\ e = T + Len(b)
          /\ Owes(d, T, e, <<Parse(b)>>)
    BY <1>11 DEF BodyAhead
  <2>2. \A t \in Seq(Bytes) : Lies(U, 0, t) => Lies(V, 0, t)
    BY <1>0, <1>5, LiesExtended
  <2>3. b \in Seq(Bytes) /\ CRLF \o b \in Seq(Bytes)
    BY FrameBytes
  <2>4. <<Parse(b)>> \in Seq(Messages)
    BY DEF Parse, Messages
  <2>5. Owes(g, T, e, <<Parse(b)>>)
    BY <1>8, <2>1, <2>4
  <2>6. QED
    BY <2>1, <2>2, <2>3, <2>5 DEF BodyAhead
<1>12. FramedBy(V, T, g, S \cup {z}, state, expected)
  BY <1>3, <1>10, <1>11 DEF FramedBy
<1>13. Len(V) <= z /\ z - Len(V) = T /\ S \cup {z} \in SUBSET (0 .. z)
  <2>1. PICK m \in Nat, v \in Nat : m = Len(U) /\ v = Len(V)
    OBVIOUS
  <2>2. v = m + l /\ w = T + m /\ z = w + l
    BY <1>0, <1>2, <1>5, <1>6, <2>1
  <2>3. v <= z /\ z - v = T
    BY <2>2
  <2>4. \A p \in S \cup {z} : p \in 0 .. z
    BY <1>6
  <2>5. QED
    BY <2>1, <2>3, <2>4
<1>14. Taken' = T
  BY <1>5, <1>6, <1>13 DEF Taken
<1>15. state' = state /\ expected' = expected /\ messages' = ms
  BY <1>0, <1>2 DEF Write, codecVars
<1>16. QED
  BY <1>5, <1>6, <1>7, <1>8, <1>9, <1>12, <1>13, <1>14, <1>15 DEF InFrame

\* What the buffer holds is the start of what decode has not taken.
LEMMA ReadableStarts ==
  ASSUME TypeOK
  PROVE  /\ Unread \in Seq(Bytes) /\ Readable \in Seq(Bytes) /\ ReadableBytes \in Nat
         /\ Len(Unread) = ReadableBytes + Len(wire) /\ Len(wire) \in Nat
         /\ Len(Readable) = ReadableBytes
         /\ \A i \in 1 .. ReadableBytes : Readable[i] = Unread[i]
<1>1. PICK r \in Seq(Bytes), x \in Seq(Bytes), k \in Nat :
        r = Readable /\ x = wire /\ k = ReadableBytes /\ Len(r) = k
  BY ReadableType DEF TypeOK, ReadableFacts
<1>2. /\ r \o x \in Seq(Bytes) /\ Len(r \o x) = Len(r) + Len(x)
      /\ \A i \in 1 .. Len(r) : (r \o x)[i] = r[i]
  BY JoinedAt
<1>3. Unread = r \o x
  BY <1>1 DEF Unread
<1>4. QED
  BY <1>1, <1>2, <1>3

\* With a line break in the buffer, decode finds the first of what it is at.
LEMMA FoundFirst ==
  ASSUME TypeOK, NEW s \in Seq(Bytes), NEW c \in Nat, FirstBreak(s, c),
         NEW U \in Seq(Bytes), U = Unread, Lies(U, 0, s),
         c + 2 <= ReadableBytes \/ FindCRLF >= 0
  PROVE  FindCRLF = c /\ c + 2 <= ReadableBytes
<1>1. PICK r \in Seq(Bytes), k \in Nat :
        r = Readable /\ k = ReadableBytes /\ \A i \in 1 .. k : r[i] = U[i]
  BY ReadableStarts
<1>2. PICK n \in Nat : n = Len(s)
  OBVIOUS
<1>3. /\ c + 2 <= n /\ s[c + 1] = CR /\ s[c + 2] = LF
      /\ \A i \in 0 .. c - 1 : ~(s[i + 1] = CR /\ s[i + 2] = LF)
  BY <1>2 DEF FirstBreak, BreakAt
<1>4. \A i \in 1 .. n : U[i] = s[i]
  BY <1>2 DEF Lies
<1>5. PICK C \in SUBSET Nat : C = CRLFsAt
  <2>1. CRLFsAt \in SUBSET Nat
    BY <1>1 DEF CRLFsAt
  <2>2. QED
    BY <2>1
<1>6. C = {i \in 0 .. k - 2 : r[i + 1] = CR /\ r[i + 2] = LF}
  BY <1>1, <1>5 DEF CRLFsAt
<1>7. c + 2 <= k => c \in C
  <2>1. SUFFICES ASSUME c + 2 <= k PROVE c \in C
    OBVIOUS
  <2>2. c + 1 \in 1 .. n /\ c + 2 \in 1 .. n /\ c + 1 \in 1 .. k /\ c + 2 \in 1 .. k
    BY <1>3, <2>1
  <2>3. r[c + 1] = CR /\ r[c + 2] = LF
    BY <1>1, <1>3, <1>4, <2>2
  <2>4. c \in 0 .. k - 2
    BY <2>1
  <2>5. QED
    BY <1>6, <2>3, <2>4
<1>8. \A i \in C : c <= i
  <2>1. SUFFICES ASSUME NEW i \in C, i < c PROVE FALSE
    BY <1>5
  <2>2. i \in 0 .. k - 2 /\ r[i + 1] = CR /\ r[i + 2] = LF
    BY <1>6
  <2>3. /\ i + 1 \in 1 .. n /\ i + 2 \in 1 .. n /\ i + 1 \in 1 .. k /\ i + 2 \in 1 .. k
        /\ i \in 0 .. c - 1
    BY <1>3, <2>1, <2>2
  <2>4. s[i + 1] = CR /\ s[i + 2] = LF
    BY <1>1, <1>4, <2>2, <2>3
  <2>5. QED
    BY <1>3, <2>3, <2>4
<1>9. c \in C
  <2>1. CASE c + 2 <= k
    BY <1>7, <2>1
  <2>2. CASE ~(c + 2 <= k)
    <3>1. FindCRLF >= 0
      BY <1>1, <2>2
    <3>2. C # {}
      BY <1>5, <3>1 DEF FindCRLF
    <3>3. PICK i \in C : c <= i
      BY <1>8, <3>2
    <3>4. i \in 0 .. k - 2
      BY <1>6
    <3>5. c + 2 <= k
      BY <3>3, <3>4
    <3>6. QED
      BY <2>2, <3>5
  <2>3. QED
    BY <2>1, <2>2
<1>10. \A i \in C : (\A j \in C : i <= j) => i = c
  <2>1. SUFFICES ASSUME NEW i \in C, \A j \in C : i <= j PROVE i = c
    OBVIOUS
  <2>2. i <= c /\ c <= i /\ i \in Nat
    BY <1>5, <1>8, <1>9, <2>1
  <2>3. QED
    BY <2>2
<1>11. FindCRLF = CHOOSE i \in C : \A j \in C : i <= j
  BY <1>5, <1>9 DEF FindCRLF
<1>12. FindCRLF = c
  BY <1>8, <1>9, <1>10, <1>11
<1>13. c + 2 <= k
  <2>1. c \in 0 .. k - 2
    BY <1>6, <1>9
  <2>2. QED
    BY <2>1
<1>14. QED
  BY <1>1, <1>12, <1>13

\* The line decode looks at is what stands before that break.
LEMMA LineFound ==
  ASSUME TypeOK, NEW s \in Seq(Bytes), NEW c \in Nat, c <= Len(s),
         NEW U \in Seq(Bytes), U = Unread, Lies(U, 0, s),
         FindCRLF = c, c <= ReadableBytes
  PROVE  /\ HeaderLine \in Seq(Bytes) /\ Len(HeaderLine) = c
         /\ \A i \in 1 .. c : HeaderLine[i] = s[i]
<1>1. PICK r \in Seq(Bytes), k \in Nat :
        /\ r = Readable /\ k = ReadableBytes /\ k = Len(r)
        /\ \A i \in 1 .. k : r[i] = U[i]
  BY ReadableStarts
<1>2. PICK n \in Nat : n = Len(s)
  OBVIOUS
<1>3. \A i \in 1 .. n : U[i] = s[i]
  BY <1>2 DEF Lies
<1>4. \A i \in 1 .. c : i \in 1 .. k /\ i \in 1 .. n /\ r[i] = s[i]
  BY <1>1, <1>2, <1>3
<1>5. \A i \in 1 .. c : r[i] \in Bytes
  BY <1>1, <1>4
<1>6. PICK l : l = SubSeq(r, 1, c)
  OBVIOUS
<1>7. l \in Seq(Bytes) /\ Len(l) = c /\ \A i \in 1 .. c : l[i] = r[i]
  <2>1. c <= k
    BY <1>1
  <2>2. QED
    BY <1>1, <1>6, <2>1
<1>8. HeaderLine = l
  BY <1>1, <1>6 DEF HeaderLine
<1>9. QED
  BY <1>4, <1>7, <1>8

\* A sequence of bytes in the buffer starts with a separator or does not.
LEMMA SeparatorIs ==
  ASSUME TypeOK, NEW U \in Seq(Bytes), U = Unread
  PROVE  /\ Separator = 0 \/ (Separator = 2 /\ 2 <= ReadableBytes /\ BreakAt(U, 0))
         /\ 2 <= ReadableBytes /\ BreakAt(U, 0) => Separator = 2
<1>1. PICK r \in Seq(Bytes), k \in Nat :
        /\ r = Readable /\ k = ReadableBytes /\ k = Len(r)
        /\ \A i \in 1 .. k : r[i] = U[i]
  BY ReadableStarts
<1>2. CASE ~(2 <= k)
  BY <1>1, <1>2 DEF Separator
<1>3. CASE 2 <= k
  <2>1. 1 \in 1 .. k /\ 2 \in 1 .. k /\ r[1] \in Bytes /\ r[2] \in Bytes
    BY <1>1, <1>3
  <2>2. PICK h : h = SubSeq(r, 1, 2)
    OBVIOUS
  <2>3. h \in Seq(Bytes) /\ Len(h) = 2 /\ h[1] = r[1] /\ h[2] = r[2]
    BY <1>1, <1>3, <2>2
  <2>4. h = CRLF <=> h[1] = CR /\ h[2] = LF
    <3>1. PICK e \in Seq(Bytes) : e = CRLF /\ Len(e) = 2 /\ e[1] = CR /\ e[2] = LF
      BY BreakDef
    <3>2. h[1] = CR /\ h[2] = LF => h = e
      <4>1. SUFFICES ASSUME h[1] = CR, h[2] = LF PROVE h = e
        OBVIOUS
      <4>2. \A i \in 1 .. 2 : i = 1 \/ i = 2
        OBVIOUS
      <4>3. \A i \in 1 .. 2 : h[i] = e[i]
        BY <3>1, <4>1, <4>2
      <4>4. Len(h) = Len(e) /\ \A i \in 1 .. Len(h) : h[i] = e[i]
        BY <2>3, <3>1, <4>3
      <4>5. QED
        BY <2>3, <4>4, SeqEqual
    <3>3. QED
      BY <3>1, <3>2
  <2>5. BreakAt(U, 0) <=> r[1] = CR /\ r[2] = LF
    <3>1. 0 + 1 = 1 /\ 0 + 2 = 2 /\ r[1] = U[1] /\ r[2] = U[2]
      BY <1>1, <2>1
    <3>2. QED
      BY <3>1 DEF BreakAt
  <2>6. Separator = IF h = CRLF THEN 2 ELSE 0
    BY <1>1, <1>3, <2>2 DEF Separator
  <2>7. QED
    BY <1>1, <1>3, <2>3, <2>4, <2>5, <2>6
<1>4. QED
  BY <1>2, <1>3

\* Right before a body, with its separator or without: what Separator says.
LEMMA BodyAheadIs ==
  ASSUME WellFramed, TypeOK, NEW U \in Seq(Bytes), U = Unread, NEW b \in Bodies
  PROVE  /\ Lies(U, 0, CRLF \o b) /\ 2 <= ReadableBytes => Separator = 2
         /\ Lies(U, 0, b) => Separator = 0
         /\ Lies(U, 0, CRLF \o b) => BreakAt(U, 0)
<1>1. PICK n \in Nat, x \in Seq(Bytes), y \in Seq(Bytes), e \in Seq(Bytes) :
        /\ n = Len(b) /\ x = b /\ e = CRLF /\ y = CRLF \o b /\ Len(e) = 2
        /\ e[1] = CR /\ e[2] = LF
  BY FrameBytes, BreakDef
<1>2. /\ Len(e \o x) = Len(e) + Len(x)
      /\ \A i \in 1 .. Len(e) : (e \o x)[i] = e[i]
  BY JoinedAt
<1>3. Len(y) = 2 + n /\ y[1] = CR /\ y[2] = LF
  BY <1>1, <1>2
<1>4. n >= 2 /\ ~BreakAt(x, 0)
  BY <1>1 DEF WellFramed
<1>5. Lies(U, 0, y) => BreakAt(U, 0)
  <2>1. SUFFICES ASSUME Lies(U, 0, y) PROVE BreakAt(U, 0)
    OBVIOUS
  <2>2. \A i \in 1 .. 2 + n : U[0 + i] = y[i]
    BY <1>3, <2>1 DEF Lies
  <2>3. 1 \in 1 .. 2 + n /\ 2 \in 1 .. 2 + n
    OBVIOUS
  <2>4. U[0 + 1] = CR /\ U[0 + 2] = LF
    BY <1>3, <2>2, <2>3
  <2>5. QED
    BY <2>4 DEF BreakAt
<1>6. Lies(U, 0, x) => ~BreakAt(U, 0)
  <2>1. SUFFICES ASSUME Lies(U, 0, x) PROVE ~BreakAt(U, 0)
    OBVIOUS
  <2>2. \A i \in 1 .. n : U[0 + i] = x[i]
    BY <1>1, <2>1 DEF Lies
  <2>3. 1 \in 1 .. n /\ 2 \in 1 .. n
    BY <1>4
  <2>4. U[0 + 1] = x[0 + 1] /\ U[0 + 2] = x[0 + 2]
    BY <2>2, <2>3
  <2>5. QED
    BY <1>4, <2>4 DEF BreakAt
<1>7. QED
  BY <1>1, <1>5, <1>6, SeparatorIs

\* The body decode takes from behind n bytes is the one that lies there.
LEMMA BodyTaken ==
  ASSUME TypeOK, NEW U \in Seq(Bytes), U = Unread, NEW b \in Seq(Bytes),
         NEW n \in Nat, NEW l \in Nat, l = Len(b), n + l <= ReadableBytes,
         Lies(U, n, b)
  PROVE  SubSeq(Readable, n + 1, n + l) = b
<1>1. PICK r \in Seq(Bytes), k \in Nat :
        /\ r = Readable /\ k = ReadableBytes /\ k = Len(r)
        /\ \A i \in 1 .. k : r[i] = U[i]
  BY ReadableStarts
<1>2. \A i \in 1 .. l : U[n + i] = b[i]
  BY DEF Lies
<1>3. PICK t : t = SubSeq(r, n + 1, n + l)
  OBVIOUS
<1>4. n + l <= k
  BY <1>1
<1>5. t \in Seq(Bytes) /\ Len(t) = l /\ \A i \in 1 .. l : t[i] = r[n + i]
  BY <1>1, <1>3, <1>4
<1>6. \A i \in 1 .. l : t[i] = b[i]
  <2>1. SUFFICES ASSUME NEW i \in 1 .. l PROVE t[i] = b[i]
    OBVIOUS
  <2>2. n + i \in 1 .. k
    BY <1>4
  <2>3. QED
    BY <1>1, <1>2, <1>5, <2>2
<1>7. t = b
  BY <1>5, <1>6, SeqEqual
<1>8. QED
  BY <1>1, <1>3, <1>7

\* Taking n bytes from the front keeps the decoder in its frame, when what is
\* answered and what it expects go with them.
LEMMA TakingFramed ==
  ASSUME WellFramed, Inv, TypeOK', InFrame, NEW n \in 0 .. ReadableBytes, Retrieve(n),
         UNCHANGED <<wire, peerVars>>,
         NEW U \in Seq(Bytes), NEW T \in Nat, U = Unread, T = Taken,
         NEW S \in SUBSET (0 .. written), Cuts(U, T, due, S),
         Answered(due, messages', T + n),
         state' = "header" => T + n \in S,
         ASSUME NEW V \in Seq(Bytes), state' = "body",
                Len(V) = Len(U) - n, \A i \in 1 .. Len(U) - n : V[i] = U[n + i]
         PROVE  BodyAhead(V, T + n, due, S, expected')
  PROVE  InFrame'
<1>1. Takes(n)
  BY DEF Takes, TypeOK
<1>2. PICK w \in Nat, m \in Nat, d \in Seq(Owing) :
        w = written /\ m = Len(U) /\ d = due /\ w = T + m
  <2>1. written \in Nat /\ Len(Unread) <= written
    BY DEF Inv, TypeOK, InFrame
  <2>2. PICK w \in Nat, m \in Nat : w = written /\ m = Len(U)
    <3>1. Len(U) \in Nat
      OBVIOUS
    <3>2. QED
      BY ONLY <2>1, <3>1
  <2>3. T = w - m
    BY <2>2 DEF Taken
  <2>4. w = T + m
    BY <2>3
  <2>5. due \in Seq(Owing)
    BY DEF Inv, TypeOK, Owing
  <2>6. QED
    BY <2>2, <2>4, <2>5
<1>3. n \in 0 .. Len(U) /\ Unread' = SubSeq(U, n + 1, Len(U))
  BY <1>1, TakesFromStream DEF Inv
<1>4. PICK V \in Seq(Bytes) :
        /\ V = Unread'
        /\ Len(V) = Len(U) - n /\ \A i \in 1 .. Len(U) - n : V[i] = U[n + i]
  BY <1>3, Dropped
<1>5. written' = w /\ due' = d
  BY <1>2 DEF peerVars
<1>6. Taken' = T + n /\ Len(V) <= w
  <2>0. PICK v \in Nat : v = Len(V)
    OBVIOUS
  <2>1. v = Len(V) /\ v = m - n /\ n \in 0 .. m
    BY <1>2, <1>3, <1>4, <2>0
  <2>2. w - v = T + n /\ v <= w
    BY <1>2, <2>1
  <2>3. QED
    BY <1>4, <1>5, <2>1, <2>2 DEF Taken
<1>7. Cuts(V, T + n, d, S)
  <2>1. S \in SUBSET Nat
    BY <1>2
  <2>2. QED
    BY <1>2, <1>3, <1>4, <2>1, CutsDropped
<1>8. FramedBy(V, T + n, d, S, state', expected')
  BY <1>2, <1>4, <1>7 DEF FramedBy
<1>9. Ordered(d, w) /\ S \in SUBSET (0 .. w)
  BY <1>2 DEF InFrame
<1>10. QED
  BY <1>2, <1>4, <1>5, <1>6, <1>8, <1>9 DEF InFrame

\* What decode knows of the stream before a step, by names that do not change.
Placed(U, T, w, d, ms, S) ==
  /\ U = Unread /\ T = Taken /\ w = written /\ d = due /\ ms = messages
  /\ w = T + Len(U) /\ Ordered(d, w) /\ Answered(d, ms, T)
  /\ FramedBy(U, T, d, S, state, expected)

LEMMA IsPlaced ==
  ASSUME TypeOK, InFrame
  PROVE  \E U \in Seq(Bytes), T \in Nat, w \in Nat, d \in Seq(Owing), ms \in Seq(Messages) :
           \E S \in SUBSET (0 .. w) : Placed(U, T, w, d, ms, S)
<1>1. PICK U \in Seq(Bytes), w \in Nat, m \in Nat, d \in Seq(Owing), ms \in Seq(Messages) :
        /\ U = Unread /\ w = written /\ m = Len(U) /\ m <= w
        /\ d = due /\ ms = messages
  <2>1. /\ Unread \in Seq(Bytes) /\ Len(Unread) \in Nat /\ written \in Nat
        /\ Len(Unread) <= written
        /\ due \in Seq(Owing) /\ messages \in Seq(Messages)
    BY ReadableStarts DEF TypeOK, InFrame, Owing
  <2>2. QED
    BY <2>1
<1>2. PICK T \in Nat : T = w - m /\ w = T + m
  <2>1. w - m \in Nat /\ w = (w - m) + m
    BY <1>1
  <2>2. QED
    BY <2>1
<1>3. T = Taken
  BY <1>1, <1>2 DEF Taken
<1>4. PICK S \in SUBSET (0 .. w) : FramedBy(U, T, d, S, state, expected)
  BY <1>1, <1>3 DEF InFrame
<1>5. Ordered(d, w) /\ Answered(d, ms, T)
  BY <1>1, <1>3 DEF InFrame
<1>6. Placed(U, T, w, d, ms, S)
  BY <1>1, <1>2, <1>3, <1>4, <1>5 DEF Placed
<1>7. QED
  BY <1>6

\* Where a unit of the peer's starts, bytes that are not taken belong to one.
LEMMA UnitAhead ==
  ASSUME WellFramed, NEW U \in Seq(Bytes), NEW T \in Nat, NEW d, NEW S \in SUBSET Nat,
         Cuts(U, T, d, S), T \in S, Len(U) > 0
  PROVE  \E s \in Seq(Bytes), o \in Seq(Messages), c \in Nat, l \in Nat, e \in S :
           /\ Lies(U, 0, s) /\ Owes(d, T, e, o)
           /\ e = T + l /\ l = Len(s) /\ c + 2 <= l
           /\ FirstBreak(s, c) /\ UnitIs(s, o, c)
           /\ Len(o) = 0 \/ Len(o) = 1
<1>1. PICK u \in Units :
        /\ Lies(U, T - T, u.bytes)
        /\ T + Len(u.bytes) \in S
        /\ Owes(d, T, T + Len(u.bytes), u.owed)
  <2>1. PICK m \in Nat : m = Len(U) /\ m > 0
    OBVIOUS
  <2>2. T # T + m
    BY ONLY <2>1, T \in Nat
  <2>3. QED
    BY <2>1, <2>2 DEF Cuts
<1>2. /\ u.bytes \in Seq(Bytes) /\ u.owed \in Seq(Messages)
      /\ Len(u.bytes) \in Nat /\ Len(u.owed) \in 0 .. 1
      /\ \E c \in Nat : FirstBreak(u.bytes, c) /\ UnitIs(u.bytes, u.owed, c)
  BY UnitFacts
<1>3. PICK s \in Seq(Bytes), o \in Seq(Messages), l \in Nat :
        s = u.bytes /\ o = u.owed /\ l = Len(s)
  BY <1>2
<1>4. PICK c \in Nat : FirstBreak(s, c) /\ UnitIs(s, o, c)
  BY <1>2, <1>3
<1>5. T - T = 0
  OBVIOUS
<1>6. PICK e \in S : e = T + l
  BY <1>1, <1>3
<1>7. Lies(U, 0, s) /\ Owes(d, T, e, o)
  BY <1>1, <1>3, <1>5, <1>6
<1>8. c + 2 <= l
  BY <1>3, <1>4 DEF FirstBreak
<1>9. Len(o) = 0 \/ Len(o) = 1
  BY <1>2, <1>3
<1>10. QED
  BY <1>3, <1>4, <1>6, <1>7, <1>8, <1>9

\* The header of a frame, of a line, of neither.
LEMMA HeaderIs ==
  ASSUME WellFramed, NEW s \in Seq(Bytes), NEW c \in Nat, NEW h \in Seq(Bytes),
         Len(h) = c, \A i \in 1 .. c : h[i] = s[i]
  PROVE  /\ \A b \in Bodies : s = Encode(b) /\ c = 1 =>
              IsHeader(h) /\ Head(h) # BadLength /\ Head(h).of = Len(b)
         /\ \A l \in Lines : s = l \o CRLF /\ c = Len(l) => ~IsHeader(h)
         /\ s = <<BadLength>> \o CRLF /\ c = 1 => IsHeader(h) /\ Head(h) = BadLength
<1>1. ASSUME c = 1 PROVE h # <<>> /\ Head(h) = s[1]
  <2>1. h # <<>> /\ Head(h) = h[1]
    <3>1. Len(h) = 1
      BY <1>1
    <3>2. h # <<>>
      <4>1. Len(h) # Len(<<>>)
        BY <3>1
      <4>2. QED
        BY <4>1, Zenon
    <3>3. QED
      BY <3>2, HeadTailProperties
  <2>2. h[1] = s[1]
    BY <1>1
  <2>3. QED
    BY <2>1, <2>2
<1>2. ASSUME NEW b \in Bodies, s = Encode(b), c = 1
      PROVE  IsHeader(h) /\ Head(h) # BadLength /\ Head(h).of = Len(b)
  <2>1. h # <<>> /\ Head(h) = ContentLength(Len(b))
    BY <1>1, <1>2, FrameBytes
  <2>2. ContentLength(Len(b)).is = "length" /\ ContentLength(Len(b)).of = Len(b)
    BY DEF ContentLength
  <2>3. ContentLength(Len(b)) # BadLength
    <3>1. "of" \in DOMAIN ContentLength(Len(b))
      BY DEF ContentLength
    <3>2. DOMAIN BadLength = {"is"}
      BY DEF BadLength
    <3>3. "of" \notin {"is"}
      OBVIOUS
    <3>4. QED
      BY <3>1, <3>2, <3>3
  <2>4. QED
    BY <2>1, <2>2, <2>3 DEF IsHeader
<1>3. ASSUME NEW l \in Lines, s = l \o CRLF, c = Len(l) PROVE ~IsHeader(h)
  <2>1. l \in Seq(Bytes) /\ ~IsHeader(l) /\ \A i \in 1 .. c : s[i] = l[i]
    BY <1>3, LineBytes
  <2>2. h = l
    BY <1>3, <2>1, SeqEqual
  <2>3. QED
    BY <2>1, <2>2
<1>4. ASSUME s = <<BadLength>> \o CRLF, c = 1 PROVE IsHeader(h) /\ Head(h) = BadLength
  <2>1. h # <<>> /\ Head(h) = BadLength
    BY <1>1, <1>4, BadBytes
  <2>2. BadLength.is = "length"
    BY DEF BadLength
  <2>3. QED
    BY <2>1, <2>2 DEF IsHeader
<1>5. QED
  BY <1>2, <1>3, <1>4

\* A header read leaves the decoder before the frame's separator, a line or a
\* bad header before what comes next.
LEMMA HeaderFramed ==
  ASSUME WellFramed, Inv, TypeOK', InFrame, ReadHeader
  PROVE  InFrame'
<1>1. PICK U \in Seq(Bytes), T \in Nat, w \in Nat, d \in Seq(Owing), ms \in Seq(Messages) :
        \E S \in SUBSET (0 .. w) : Placed(U, T, w, d, ms, S)
  BY IsPlaced DEF Inv
<1>2. PICK S \in SUBSET (0 .. w) : Placed(U, T, w, d, ms, S)
  BY <1>1
<1>3. PICK k \in Nat, x \in Nat, m \in Nat :
        k = ReadableBytes /\ x = Len(wire) /\ m = Len(U) /\ m = k + x
  BY <1>2, ReadableStarts DEF Inv, Placed
<1>4. /\ state = "header" /\ FindCRLF >= 0 /\ Retrieve(FindCRLF + 2)
      /\ UNCHANGED <<wire, peerVars>>
      /\ FindCRLF + 2 \in 0 .. k
  BY <1>3, FoundIsCRLF DEF ReadHeader, HeaderIsHere, Inv, TypeOK
<1>5. m > 0
  <2>1. k > 0
    BY <1>3, <1>4, FoundIsCRLF DEF Inv, TypeOK
  <2>2. QED
    BY <1>3, <2>1
<1>6. Cuts(U, T, d, S) /\ T \in S /\ S \in SUBSET Nat
  BY <1>2, <1>4 DEF Placed, FramedBy
<1>7. PICK s \in Seq(Bytes), o \in Seq(Messages), c \in Nat, l \in Nat, e \in S :
        /\ Lies(U, 0, s) /\ Owes(d, T, e, o)
        /\ e = T + l /\ l = Len(s) /\ c + 2 <= l
        /\ FirstBreak(s, c) /\ UnitIs(s, o, c)
        /\ Len(o) = 0 \/ Len(o) = 1
  <2>1. Len(U) > 0
    BY <1>3, <1>5
  <2>2. QED
    BY <1>6, <2>1, UnitAhead
<1>8. FindCRLF = c /\ c + 2 <= k
  BY <1>2, <1>3, <1>4, <1>7, FoundFirst DEF Inv, Placed
<1>9. PICK h \in Seq(Bytes) :
        h = HeaderLine /\ Len(h) = c /\ \A i \in 1 .. c : h[i] = s[i]
  <2>1. c <= Len(s) /\ c <= ReadableBytes
    BY <1>3, <1>7, <1>8
  <2>2. QED
    BY <1>2, <1>7, <1>8, <2>1, LineFound DEF Inv, Placed
<1>10. PICK n \in 0 .. k : n = c + 2 /\ Retrieve(n) /\ n \in Nat
  BY <1>4, <1>8
<1>11. /\ ~IsHeader(h) => state' = state /\ expected' = expected /\ messages' = ms
       /\ IsHeader(h) /\ Head(h) = BadLength =>
            state' = state /\ expected' = expected /\ messages' = Append(ms, Error)
       /\ IsHeader(h) /\ Head(h) # BadLength =>
            state' = "body" /\ expected' = Head(h).of /\ messages' = ms
  BY <1>2, <1>9 DEF ReadHeader, codecVars, Placed
<1>12. /\ Ordered(d, w) /\ Answered(d, ms, T)
       /\ U = Unread /\ T = Taken /\ w = written /\ d = due
  BY <1>2 DEF Placed
\* What has no body is taken whole.
<1>13. ASSUME n = l, state' = "header", messages' = ms \o o PROVE InFrame'
  <2>0. e \in S /\ e = T + n /\ n = c + 2 /\ c \in Nat
    BY <1>7, <1>10, <1>13
  <2>1. T < e /\ e \in Nat /\ e = T + n /\ T + n \in S
    <3>1. T < e /\ e \in Nat
      BY ONLY <2>0, T \in Nat
    <3>2. QED
      BY <2>0, <3>1
  <2>2. Len(o) \in 0 .. 1
    BY <1>7
  <2>3. Answered(d, ms \o o, e)
    BY <1>7, <1>12, <2>1, <2>2, AnsweredNext
  <2>4. Answered(due, messages', T + n)
    BY <1>12, <1>13, <2>1, <2>3
  <2>5. state' # "body"
    BY <1>13
  <2>6. n \in 0 .. ReadableBytes /\ S \in SUBSET (0 .. written) /\ Cuts(U, T, due, S)
    BY <1>3, <1>6, <1>12
  <2>7. QED
    BY <1>4, <1>10, <1>12, <2>1, <2>4, <2>5, <2>6, TakingFramed
<1>14. CASE \E b \in Bodies : s = Encode(b) /\ o = <<Parse(b)>> /\ c = 1
  <2>1. PICK b \in Bodies : s = Encode(b) /\ o = <<Parse(b)>> /\ c = 1
    BY <1>14
  <2>2. PICK j \in Nat, y \in Seq(Bytes) :
          /\ j = Len(b) /\ y = CRLF \o b /\ Len(y) = 2 + j /\ l = 5 + j
          /\ \A i \in 1 .. 2 + j : s[3 + i] = y[i]
    BY <1>7, <2>1, FrameBytes
  <2>3. IsHeader(h) /\ Head(h) # BadLength /\ Head(h).of = j
    <3>1. IsHeader(h) /\ Head(h) # BadLength /\ Head(h).of = Len(b)
      BY <1>9, <2>1, HeaderIs, Zenon
    <3>2. QED
      BY <2>2, <3>1
  <2>4. state' = "body" /\ expected' = j /\ messages' = ms
    BY <1>11, <2>3
  <2>5. n = 3 /\ e = T + 5 + j /\ 5 + j <= m
    <3>1. l <= m /\ n = 3
      BY <1>3, <1>7, <1>10, <2>1 DEF Lies
    <3>2. QED
      BY <1>7, <2>2, <3>1
  <2>6. PICK t \in Nat : t = T + 3 /\ T <= t /\ t < e /\ e \in Nat
    <3>1. T + 3 \in Nat /\ T <= T + 3 /\ T + 3 < e /\ e \in Nat
      BY <2>5
    <3>2. QED
      BY <3>1
  <2>7. Answered(d, ms, t) /\ Owes(d, t, e, o)
    BY <1>7, <1>12, <2>6, AnsweredWithin
  <2>8. ASSUME NEW V \in Seq(Bytes),
               Len(V) = Len(U) - n, \A i \in 1 .. Len(U) - n : V[i] = U[n + i]
        PROVE  BodyAhead(V, t, d, S, j)
    <3>0. PICK v \in Nat : v = Len(V)
      OBVIOUS
    <3>1. v = Len(V) /\ v = m - 3 /\ \A i \in 1 .. v : V[i] = U[3 + i]
      BY <1>3, <2>5, <2>8, <3>0
    <3>2. \A i \in 1 .. l : U[0 + i] = s[i]
      BY <1>7 DEF Lies
    <3>3. ASSUME NEW i \in 1 .. 2 + j PROVE V[0 + i] = y[i]
      <4>1. 3 + i \in 1 .. l /\ i \in 1 .. v /\ 0 + (3 + i) = 3 + i /\ 0 + i = i
        <5>1. l = 5 + j /\ 5 + j <= m /\ v = m - 3
          BY <2>2, <2>5, <3>1
        <5>2. QED
          BY ONLY <5>1, i \in 1 .. 2 + j, j \in Nat, m \in Nat
      <4>2. V[i] = U[3 + i] /\ U[3 + i] = s[3 + i]
        BY <3>1, <3>2, <4>1
      <4>3. QED
        BY <2>2, <4>1, <4>2
    <3>4. Lies(V, 0, y)
      <4>1. 0 + (2 + j) <= v
        BY <2>5, <3>1
      <4>2. QED
        BY <2>2, <3>1, <3>3, <4>1 DEF Lies
    <3>5. e = t + 2 + j
      BY <2>5, <2>6
    <3>6. QED
      BY <2>1, <2>2, <2>7, <3>4, <3>5 DEF BodyAhead
  <2>9. n \in 0 .. ReadableBytes /\ S \in SUBSET (0 .. written) /\ Cuts(U, T, due, S)
    BY <1>3, <1>6, <1>12
  <2>10. Answered(due, messages', T + n)
    BY <1>12, <2>4, <2>5, <2>6, <2>7
  <2>11. state' # "header"
    BY <2>4
  <2>12. ASSUME NEW V \in Seq(Bytes),
                Len(V) = Len(U) - n, \A i \in 1 .. Len(U) - n : V[i] = U[n + i]
         PROVE  BodyAhead(V, T + n, due, S, expected')
    BY <1>12, <2>4, <2>5, <2>6, <2>8, <2>12
  <2>13. QED
    BY <1>4, <1>10, <1>12, <2>9, <2>10, <2>11, <2>12, TakingFramed
<1>15. CASE (\E b \in Lines : s = b \o CRLF /\ c = Len(b)) /\ o = <<>>
  <2>1. PICK b \in Lines : s = b \o CRLF /\ c = Len(b)
    BY <1>15
  <2>2. ~IsHeader(h)
    BY <1>9, <2>1, HeaderIs
  <2>3. l = c + 2
    BY <1>7, <2>1, LineBytes
  <2>4. messages' = ms \o o
    BY <1>11, <1>15, <2>2
  <2>5. QED
    BY <1>4, <1>10, <1>11, <1>13, <2>2, <2>3, <2>4
<1>16. CASE s = <<BadLength>> \o CRLF /\ o = <<Error>> /\ c = 1
  <2>1. IsHeader(h) /\ Head(h) = BadLength
    BY <1>9, <1>16, HeaderIs
  <2>2. l = c + 2
    BY <1>7, <1>16, BadBytes
  <2>3. messages' = ms \o o
    <3>1. Error \in Messages
      BY DEF Messages
    <3>2. Append(ms, Error) = ms \o <<Error>>
      BY <3>1, AppendIsConcat
    <3>3. QED
      BY <1>11, <1>16, <2>1, <3>2
  <2>4. QED
    BY <1>4, <1>10, <1>11, <1>13, <2>1, <2>2, <2>3
<1>17. QED
  BY <1>7, <1>14, <1>15, <1>16 DEF UnitIs

\* A body taken is the body of the frame, and ends where the frame ends.
LEMMA BodyFramed ==
  ASSUME WellFramed, Inv, TypeOK', InFrame, TakeBody
  PROVE  InFrame'
<1>1. PICK U \in Seq(Bytes), T \in Nat, w \in Nat, d \in Seq(Owing), ms \in Seq(Messages) :
        \E S \in SUBSET (0 .. w) : Placed(U, T, w, d, ms, S)
  BY IsPlaced DEF Inv
<1>2. PICK S \in SUBSET (0 .. w) : Placed(U, T, w, d, ms, S)
  BY <1>1
<1>3. PICK k \in Nat : k = ReadableBytes
  BY ReadableStarts DEF Inv
<1>4. /\ state = "body" /\ k - Separator >= expected /\ Retrieve(Separator + expected)
      /\ UNCHANGED <<wire, peerVars>>
      /\ state' = "header"
  BY <1>3 DEF TakeBody, BodyIsHere
<1>5. /\ Ordered(d, w) /\ Answered(d, ms, T) /\ Cuts(U, T, d, S)
      /\ U = Unread /\ T = Taken /\ w = written /\ d = due /\ ms = messages
      /\ BodyAhead(U, T, d, S, expected)
  BY <1>2, <1>4 DEF Placed, FramedBy
<1>6. PICK b \in Bodies, e \in S :
        /\ expected = Len(b)
        /\ \/ Lies(U, 0, CRLF \o b) /\ e = T + 2 + Len(b)
           \/ Lies(U, 0, b) /\ e = T + Len(b)
        /\ Owes(d, T, e, <<Parse(b)>>)
  BY <1>5 DEF BodyAhead
<1>7. PICK j \in Nat, x \in Seq(Bytes), y \in Seq(Bytes), o \in Seq(Messages) :
        /\ j = Len(b) /\ x = b /\ y = CRLF \o b /\ o = <<Parse(b)>>
        /\ Len(y) = 2 + j /\ Len(o) \in 0 .. 1
  <2>1. Parse(b) \in Messages
    BY DEF Parse, Messages
  <2>2. <<Parse(b)>> \in Seq(Messages) /\ Len(<<Parse(b)>>) = 1
    BY <2>1
  <2>3. PICK j \in Nat, x \in Seq(Bytes), y \in Seq(Bytes) :
          j = Len(b) /\ x = b /\ y = CRLF \o b /\ Len(y) = 2 + j
    BY FrameBytes
  <2>4. PICK o \in Seq(Messages) : o = <<Parse(b)>> /\ Len(o) = 1
    BY <2>2
  <2>5. Len(o) \in 0 .. 1
    BY <2>4
  <2>6. QED
    BY <2>3, <2>4, <2>5
<1>8. j >= 2
  BY <1>7 DEF WellFramed
<1>9. \A i \in 1 .. j : y[2 + i] = x[i]
  <2>1. PICK r \in Seq(Bytes) : r = CRLF /\ Len(r) = 2
    BY BreakDef
  <2>2. \A i \in 1 .. Len(x) : (r \o x)[Len(r) + i] = x[i]
    BY JoinedAt
  <2>3. QED
    BY <1>7, <2>1, <2>2
<1>10. PICK q \in Nat, n \in Nat :
         /\ q = Separator /\ n = q + j /\ n <= k /\ e = T + n /\ Lies(U, q, x)
  <2>1. CASE Lies(U, 0, y) /\ e = T + 2 + j
    <3>1. Separator = 0 \/ Separator = 2
      BY <1>5, SeparatorIs DEF Inv
    <3>2. 2 <= k
      BY <1>4, <1>6, <1>7, <1>8, <3>1
    <3>3. Separator = 2
      BY <1>3, <1>5, <1>7, <2>1, <3>2, BodyAheadIs DEF Inv
    <3>4. 2 + j <= k
      BY <1>4, <1>6, <1>7, <3>3
    <3>5. PICK m \in Nat : m = Len(U)
      OBVIOUS
    <3>6. 2 + j <= m /\ \A i \in 1 .. 2 + j : U[0 + i] = y[i]
      BY <1>7, <2>1, <3>5 DEF Lies
    <3>7. ASSUME NEW i \in 1 .. j PROVE U[2 + i] = x[i]
      <4>1. 2 + i \in 1 .. 2 + j /\ 0 + (2 + i) = 2 + i
        OBVIOUS
      <4>2. U[2 + i] = y[2 + i]
        BY <3>6, <4>1
      <4>3. QED
        BY <1>9, <4>2
    <3>8. Lies(U, 2, x)
      BY <1>7, <3>5, <3>6, <3>7 DEF Lies
    <3>9. PICK n \in Nat : n = 2 + j
      OBVIOUS
    <3>10. e = T + n
      BY <2>1, <3>9
    <3>11. QED
      BY <3>3, <3>4, <3>8, <3>9, <3>10
  <2>2. CASE Lies(U, 0, x) /\ e = T + j
    <3>1. Separator = 0
      BY <1>5, <1>7, <2>2, BodyAheadIs DEF Inv
    <3>2. j <= k /\ j = 0 + j
      BY <1>4, <1>6, <1>7, <3>1
    <3>3. QED
      BY <2>2, <3>1, <3>2
  <2>3. QED
    BY <1>6, <1>7, <2>1, <2>2
<1>11. messages' = ms \o o
  <2>1. SubSeq(Readable, q + 1, q + j) = x
    <3>1. q + j <= ReadableBytes /\ TypeOK /\ j = Len(x)
      BY <1>3, <1>7, <1>10 DEF Inv
    <3>2. x \in Seq(Bytes) /\ q \in Nat /\ j \in Nat /\ U \in Seq(Bytes)
      BY <1>7, <1>10
    <3>3. U = Unread /\ Lies(U, q, x)
      BY <1>5, <1>10
    <3>4. QED
      BY <3>1, <3>2, <3>3, BodyTaken, Zenon
  <2>2. messages' = Append(ms, Parse(b))
    BY <1>5, <1>6, <1>7, <1>10, <2>1 DEF TakeBody
  <2>3. Parse(b) \in Messages
    BY DEF Parse, Messages
  <2>4. QED
    BY <1>7, <2>2, <2>3, AppendIsConcat
<1>12. T < e /\ e \in Nat /\ e = T + n
  BY ONLY <1>8, <1>10, T \in Nat, j \in Nat
<1>13. Answered(d, ms \o o, e)
  BY <1>5, <1>6, <1>7, <1>12, AnsweredNext
<1>14. Answered(due, messages', T + n)
  BY <1>5, <1>11, <1>12, <1>13
<1>15. state' # "body" /\ T + n \in S
  BY <1>4, <1>12
<1>16. n \in 0 .. ReadableBytes /\ Retrieve(n)
  BY <1>3, <1>4, <1>6, <1>7, <1>10
<1>17. S \in SUBSET (0 .. written) /\ Cuts(U, T, due, S)
  BY <1>5
<1>18. QED
  BY <1>4, <1>5, <1>14, <1>15, <1>16, <1>17, TakingFramed

\* A separator taken on its own leaves the decoder right before its body.
LEMMA SeparatorFramed ==
  ASSUME WellFramed, Inv, TypeOK', InFrame, BodyIncomplete, Separator # 0
  PROVE  InFrame'
<1>1. PICK U \in Seq(Bytes), T \in Nat, w \in Nat, d \in Seq(Owing), ms \in Seq(Messages) :
        \E S \in SUBSET (0 .. w) : Placed(U, T, w, d, ms, S)
  BY IsPlaced DEF Inv
<1>2. PICK S \in SUBSET (0 .. w) : Placed(U, T, w, d, ms, S)
  BY <1>1
<1>3. /\ state = "body" /\ Retrieve(Separator) /\ UNCHANGED <<wire, peerVars>>
      /\ state' = "body" /\ expected' = expected /\ messages' = messages
  BY DEF BodyIncomplete, codecVars
<1>4. /\ Ordered(d, w) /\ Answered(d, ms, T) /\ Cuts(U, T, d, S)
      /\ U = Unread /\ T = Taken /\ w = written /\ d = due /\ ms = messages
      /\ BodyAhead(U, T, d, S, expected)
  BY <1>2, <1>3 DEF Placed, FramedBy
<1>5. Separator = 2 /\ 2 <= ReadableBytes
  BY <1>4, SeparatorIs DEF Inv
<1>6. PICK b \in Bodies, e \in S :
        /\ expected = Len(b)
        /\ \/ Lies(U, 0, CRLF \o b) /\ e = T + 2 + Len(b)
           \/ Lies(U, 0, b) /\ e = T + Len(b)
        /\ Owes(d, T, e, <<Parse(b)>>)
  BY <1>4 DEF BodyAhead
<1>7. PICK j \in Nat, x \in Seq(Bytes), y \in Seq(Bytes) :
        /\ j = Len(b) /\ x = b /\ y = CRLF \o b /\ Len(y) = 2 + j
  BY FrameBytes
<1>8. j >= 2
  BY <1>7 DEF WellFramed
<1>9. \A i \in 1 .. j : y[2 + i] = x[i]
  <2>1. PICK r \in Seq(Bytes) : r = CRLF /\ Len(r) = 2
    BY BreakDef
  <2>2. \A i \in 1 .. Len(x) : (r \o x)[Len(r) + i] = x[i]
    BY JoinedAt
  <2>3. QED
    BY <1>7, <2>1, <2>2
<1>10. Lies(U, 0, y) /\ e = T + 2 + j
  <2>1. ~Lies(U, 0, x)
    BY <1>4, <1>5, <1>7, BodyAheadIs DEF Inv
  <2>2. QED
    BY <1>6, <1>7, <2>1
<1>11. PICK t \in Nat : t = T + 2 /\ T <= t /\ t < e /\ e \in Nat /\ e = t + j
  <2>1. PICK t \in Nat : t = T + 2
    OBVIOUS
  <2>2. T <= t /\ t < e /\ e \in Nat /\ e = t + j
    BY ONLY <1>8, <1>10, <2>1, T \in Nat, j \in Nat
  <2>3. QED
    BY <2>1, <2>2
<1>12. Answered(d, ms, t) /\ Owes(d, t, e, <<Parse(b)>>)
  BY <1>4, <1>6, <1>11, AnsweredWithin
<1>13. ASSUME NEW V \in Seq(Bytes),
              Len(V) = Len(U) - 2, \A i \in 1 .. Len(U) - 2 : V[i] = U[2 + i]
       PROVE  BodyAhead(V, t, d, S, expected)
  <2>1. PICK v \in Nat, m \in Nat : v = Len(V) /\ m = Len(U)
    OBVIOUS
  <2>2. v = m - 2 /\ \A i \in 1 .. v : V[i] = U[2 + i]
    BY <1>13, <2>1
  <2>3. 0 + (2 + j) <= m /\ \A i \in 1 .. 2 + j : U[0 + i] = y[i]
    BY <1>7, <1>10, <2>1 DEF Lies
  <2>4. ASSUME NEW i \in 1 .. j PROVE V[0 + i] = x[i]
    <3>1. 2 + i \in 1 .. 2 + j /\ i \in 1 .. v /\ 0 + (2 + i) = 2 + i /\ 0 + i = i
      <4>1. 2 + j <= m
        BY <2>3
      <4>2. QED
        BY ONLY <2>1, <2>2, <4>1, i \in 1 .. j, j \in Nat
    <3>2. V[i] = U[2 + i] /\ U[2 + i] = y[2 + i]
      BY <2>2, <2>3, <3>1
    <3>3. QED
      BY <1>9, <3>1, <3>2
  <2>5. 0 + j <= v
    BY <2>2, <2>3
  <2>6. Lies(V, 0, x)
    BY <1>7, <2>1, <2>4, <2>5 DEF Lies
  <2>7. QED
    BY <1>6, <1>7, <1>11, <1>12, <2>6 DEF BodyAhead
<1>14. 2 \in 0 .. ReadableBytes /\ Retrieve(2)
  <2>1. ReadableBytes \in Nat
    BY ReadableStarts DEF Inv
  <2>2. QED
    BY <1>3, <1>5, <2>1
<1>15. Answered(due, messages', T + 2)
  BY <1>3, <1>4, <1>11, <1>12
<1>16. state' # "header"
  BY <1>3
<1>17. S \in SUBSET (0 .. written) /\ Cuts(U, T, due, S)
  BY <1>4
<1>18. ASSUME NEW V \in Seq(Bytes),
              Len(V) = Len(U) - 2, \A i \in 1 .. Len(U) - 2 : V[i] = U[2 + i]
       PROVE  BodyAhead(V, T + 2, due, S, expected')
  BY <1>3, <1>4, <1>11, <1>13, <1>18
<1>19. QED
  BY <1>3, <1>4, <1>14, <1>15, <1>16, <1>17, <1>18, TakingFramed

\* The peer's writes are its units.
LEMMA WritesFramed ==
  ASSUME WellFramed, TypeOK, InFrame, WriteFrame \/ WriteLine \/ WriteBadHeader
  PROVE  InFrame'
<1>1. PICK u \in Units : Write(u.bytes, u.owed)
  <2>1. CASE WriteFrame
    <3>1. PICK b \in Bodies : Write(Encode(b), <<Parse(b)>>)
      BY <2>1 DEF WriteFrame, Bodies
    <3>2. PICK u \in Units : u = [bytes |-> Encode(b), owed |-> <<Parse(b)>>]
      BY DEF Units
    <3>3. u.bytes = Encode(b) /\ u.owed = <<Parse(b)>>
      BY <3>2
    <3>4. QED
      BY <3>1, <3>3
  <2>2. CASE WriteLine
    <3>1. PICK l \in Lines : Write(l \o CRLF, <<>>)
      BY <2>2 DEF WriteLine
    <3>2. PICK u \in Units : u = [bytes |-> l \o CRLF, owed |-> <<>>]
      BY DEF Units
    <3>3. u.bytes = l \o CRLF /\ u.owed = <<>>
      BY <3>2
    <3>4. QED
      BY <3>1, <3>3
  <2>3. CASE WriteBadHeader
    <3>1. Write(<<BadLength>> \o CRLF, <<Error>>)
      BY <2>3 DEF WriteBadHeader
    <3>2. PICK u \in Units : u = [bytes |-> <<BadLength>> \o CRLF, owed |-> <<Error>>]
      BY DEF Units
    <3>3. u.bytes = <<BadLength>> \o CRLF /\ u.owed = <<Error>>
      BY <3>2
    <3>4. QED
      BY <3>1, <3>3
  <2>4. QED
    BY <2>1, <2>2, <2>3
<1>2. QED
  BY <1>1, WriteFramed

LEMMA InFrameStep ==
  ASSUME WellFramed
  PROVE  Inv /\ InFrame /\ [Next]_vars => InFrame'
<1> SUFFICES ASSUME Inv, InFrame, [Next]_vars PROVE InFrame'
  OBVIOUS
<1>1. Inv' /\ TypeOK /\ TypeOK'
  <2>1. Inv'
    BY Step
  <2>2. QED
    BY <2>1 DEF Inv
<1>2. ASSUME Unread' = Unread, UNCHANGED <<peerVars, codecVars, messages>>
      PROVE  InFrame'
  <2>1. Taken' = Taken
    BY <1>2 DEF Taken, peerVars
  <2>2. /\ written' = written /\ due' = due /\ state' = state /\ expected' = expected
        /\ messages' = messages
    BY <1>2 DEF peerVars, codecVars
  <2>3. QED
    BY <1>2, <2>1, <2>2 DEF InFrame
<1>3. CASE WriteFrame \/ WriteLine \/ WriteBadHeader
  BY <1>1, <1>3, WritesFramed
<1>4. CASE Read
  BY <1>1, <1>2, <1>4, ReadMoves DEF Read
<1>5. CASE ReadHeader
  BY <1>1, <1>5, HeaderFramed
<1>6. CASE TakeBody
  BY <1>1, <1>6, BodyFramed
<1>7. CASE BodyIncomplete /\ Separator # 0
  BY <1>1, <1>7, SeparatorFramed
<1>8. CASE ReadNothing \/ NoHeaderYet \/ (BodyIncomplete /\ Separator = 0) \/ UNCHANGED vars
  <2>1. UNCHANGED <<bufferVars, wire, peerVars, codecVars, messages>>
    BY <1>8 DEF ReadNothing, NoHeaderYet, BodyIncomplete, vars
  <2>2. Unread' = Unread
    BY <2>1 DEF Unread, Readable, bufferVars
  <2>3. QED
    BY <1>2, <2>1, <2>2
<1>9. QED
  BY <1>3, <1>4, <1>5, <1>6, <1>7, <1>8 DEF Next

LEMMA InitInFrame == Init => InFrame
<1> SUFFICES ASSUME Init PROVE InFrame
  OBVIOUS
<1>1. Unread = <<>>
  <2>1. writeIdx < readIdx + 1 /\ writeIdx \in Int /\ readIdx + 1 \in Int
    BY SizesAreNat DEF Init, BufferInit
  <2>2. Readable = <<>>
    BY <2>1, SubSeqEmpty DEF Readable
  <2>3. QED
    BY <2>2 DEF Unread, Init
<1>2. written = 0 /\ due = <<>> /\ messages = <<>> /\ state = "header"
  BY DEF Init
<1>3. Len(Unread) = 0 /\ Taken = 0
  <2>1. Len(Unread) = 0
    BY <1>1, Len(<<>>) = 0
  <2>2. QED
    BY <1>2, <2>1 DEF Taken
<1>4. Len(due) = 0 /\ Len(messages) = 0
  BY <1>2
<1>5. Ordered(due, written) /\ Answered(due, messages, Taken)
  BY <1>4 DEF Ordered, Answered
<1>6. PICK S \in SUBSET (0 .. written) : S = {0}
  BY <1>2
<1>7. Cuts(Unread, Taken, due, S)
  <2>1. Taken + Len(Unread) = 0
    BY <1>3
  <2>2. 0 \in S /\ \A p \in S : p = 0 /\ p <= 0
    BY <1>6
  <2>3. QED
    BY <2>1, <2>2 DEF Cuts
<1>8. FramedBy(Unread, Taken, due, S, state, expected)
  <2>1. state # "body" /\ Taken \in S
    BY <1>2, <1>3, <1>6
  <2>2. QED
    BY <1>7, <2>1 DEF FramedBy
<1>9. Len(Unread) <= written
  BY <1>2, <1>3
<1>10. QED
  BY <1>5, <1>6, <1>8, <1>9 DEF InFrame

\* The messages that have arrived are the first ones owed.
LEMMA ArrivedFirst ==
  ASSUME NEW d \in Seq(Owing), NEW t \in Nat, NEW w, Ordered(d, w)
  PROVE  \E a \in Nat : /\ a <= Len(d)
                        /\ {i \in 1 .. Len(d) : d[i].end <= t} = 1 .. a
<1>1. PICK n \in Nat : n = Len(d)
  BY EndsAreNat
<1>2. \A i \in 1 .. n : d[i].end \in Nat
  BY <1>1, EndsAreNat
<1>3. PICK L \in SUBSET Nat : L = {i \in 1 .. n : ~(d[i].end <= t)}
  <2>1. {i \in 1 .. n : ~(d[i].end <= t)} \in SUBSET Nat
    OBVIOUS
  <2>2. QED
    BY <2>1
<1>4. CASE L = {}
  <2>1. {i \in 1 .. n : d[i].end <= t} = 1 .. n
    BY <1>3, <1>4
  <2>2. QED
    BY <1>1, <2>1
<1>5. CASE L # {}
  <2>1. PICK k \in L : \A j \in L : k <= j
    BY <1>5, LeastExists
  <2>2. k \in 1 .. n /\ d[k].end \in Nat /\ d[k].end > t
    <3>1. k \in 1 .. n /\ ~(d[k].end <= t)
      BY <1>3
    <3>2. QED
      BY <1>2, <3>1
  <2>3. PICK a \in Nat : a = k - 1 /\ a <= n
    BY <2>2
  <2>4. ASSUME NEW i \in 1 .. n PROVE d[i].end <= t <=> i <= a
    <3>1. CASE i <= a
      <4>1. i \notin L
        BY <2>1, <2>2, <2>3, <3>1
      <4>2. QED
        BY <1>3, <3>1, <4>1
    <3>2. CASE i = k
      BY <1>2, <2>2, <2>3, <3>2
    <3>3. CASE i > k
      <4>1. d[k].end < d[i].end
        BY <1>1, <2>2, <3>3 DEF Ordered
      <4>2. d[i].end \in Nat
        BY <1>2
      <4>3. ~(d[i].end <= t)
        BY <2>2, <4>1, <4>2
      <4>4. ~(i <= a)
        BY <2>2, <2>3, <3>3
      <4>5. QED
        BY <4>3, <4>4
    <3>4. QED
      BY <2>2, <2>3, <3>1, <3>2, <3>3
  <2>5. {i \in 1 .. n : d[i].end <= t} = 1 .. a
    <3>1. \A i \in 1 .. a : i \in 1 .. n
      BY <2>3
    <3>2. \A i \in 1 .. n : i <= a <=> i \in 1 .. a
      BY <2>3
    <3>3. QED
      BY <2>4, <3>1, <3>2
  <2>6. QED
    BY <1>1, <2>3, <2>5
<1>6. QED
  BY <1>4, <1>5

\* When decode finds nothing more, all that has arrived is answered.
LEMMA NothingLeft ==
  ASSUME WellFramed, Inv, NEW U \in Seq(Bytes), NEW T \in Nat, NEW w \in Nat,
         NEW d \in Seq(Owing), NEW ms \in Seq(Messages), NEW S \in SUBSET (0 .. w),
         Placed(U, T, w, d, ms, S), ~HeaderIsHere, ~BodyIsHere,
         NEW k \in Nat, k = ReadableBytes
  PROVE  \A i \in 1 .. Len(d) : d[i].end <= T + k => i <= Len(ms)
<1>1. PICK n \in Nat, m \in Nat, x \in Nat, g \in Nat :
        n = Len(d) /\ m = Len(ms) /\ x = Len(wire) /\ g = Len(U) /\ g = k + x
  <2>1. PICK n \in Nat, m \in Nat, x \in Nat, g \in Nat :
          n = Len(d) /\ m = Len(ms) /\ x = Len(wire) /\ g = Len(U)
    <3>1. Len(wire) \in Nat
      BY ReadableStarts DEF Inv
    <3>2. Len(d) \in Nat /\ Len(ms) \in Nat /\ Len(U) \in Nat
      OBVIOUS
    <3>3. QED
      BY <3>1, <3>2
  <2>2. g = k + x
    BY <2>1, ReadableStarts DEF Inv, Placed
  <2>3. QED
    BY <2>1, <2>2
<1>2. /\ U = Unread /\ Ordered(d, w) /\ Answered(d, ms, T) /\ Cuts(U, T, d, S)
      /\ state = "header" => T \in S
      /\ state = "body" => BodyAhead(U, T, d, S, expected)
  BY DEF Placed, FramedBy
<1>3. SUFFICES ASSUME NEW i \in 1 .. n, d[i].end <= T + k, ~(i <= m) PROVE FALSE
  BY <1>1
<1>4. T < d[i].end /\ d[i].end \in Nat
  <2>1. d[i].end > T
    BY <1>1, <1>2, <1>3 DEF Answered
  <2>2. d[i].end \in Nat
    BY <1>1, <1>3, EndsAreNat
  <2>3. QED
    BY <2>1, <2>2
<1>5. ASSUME NEW e \in Nat, NEW o, Owes(d, T, e, o) PROVE e <= T + k
  <2>1. SUFFICES ASSUME T + k < e PROVE FALSE
    OBVIOUS
  <2>2. d[i].end <= e
    BY <1>3, <1>4, <2>1
  <2>3. d[i].end = e
    BY <1>1, <1>3, <1>4, <1>5, <2>2 DEF Owes
  <2>4. QED
    BY <1>3, <2>1, <2>3
<1>6. CASE state = "header"
  <2>1. S \in SUBSET Nat /\ T \in S /\ Len(U) > 0
    <3>1. k > 0
      BY <1>3, <1>4
    <3>2. g > 0
      BY <1>1, <3>1
    <3>3. QED
      BY <1>1, <1>2, <1>6, <3>2
  <2>2. PICK s \in Seq(Bytes), o \in Seq(Messages), c \in Nat, l \in Nat, e \in S :
          /\ Lies(U, 0, s) /\ Owes(d, T, e, o)
          /\ e = T + l /\ l = Len(s) /\ c + 2 <= l
          /\ FirstBreak(s, c) /\ UnitIs(s, o, c)
          /\ Len(o) = 0 \/ Len(o) = 1
    BY <1>2, <2>1, UnitAhead
  <2>3. e \in Nat
    BY <2>1
  <2>4. e <= T + k
    BY <1>5, <2>2, <2>3
  <2>5. c + 2 <= k
    BY <2>2, <2>4
  <2>6. FindCRLF = c
    BY <1>2, <2>2, <2>5, FoundFirst DEF Inv
  <2>7. QED
    BY <1>6, <2>2, <2>6 DEF HeaderIsHere
<1>7. CASE state = "body"
  <2>1. PICK b \in Bodies, e \in S :
          /\ expected = Len(b)
          /\ \/ Lies(U, 0, CRLF \o b) /\ e = T + 2 + Len(b)
             \/ Lies(U, 0, b) /\ e = T + Len(b)
          /\ Owes(d, T, e, <<Parse(b)>>)
    BY <1>2, <1>7 DEF BodyAhead
  <2>2. PICK j \in Nat : j = Len(b)
    BY FrameBytes
  <2>3. e \in Nat /\ e <= T + k
    <3>1. e \in Nat
      OBVIOUS
    <3>2. QED
      BY <1>5, <2>1, <3>1
  <2>4. ~(k - Separator >= j)
    BY <1>7, <2>1, <2>2 DEF BodyIsHere
  <2>5. CASE Lies(U, 0, CRLF \o b) /\ e = T + 2 + Len(b)
    <3>1. 2 + j <= k
      BY <2>2, <2>3, <2>5
    <3>2. Separator = 2
      <4>1. 2 <= ReadableBytes
        BY <3>1
      <4>2. QED
        BY <1>2, <2>5, <4>1, BodyAheadIs DEF Inv
    <3>3. QED
      BY <2>4, <3>1, <3>2
  <2>6. CASE Lies(U, 0, b) /\ e = T + Len(b)
    <3>1. j <= k
      BY <2>2, <2>3, <2>6
    <3>2. Separator = 0
      BY <1>2, <2>6, BodyAheadIs DEF Inv
    <3>3. QED
      BY <2>4, <3>1, <3>2
  <2>7. QED
    BY <2>1, <2>5, <2>6
<1>8. QED
  BY <1>6, <1>7 DEF Inv, TypeOK

LEMMA FramedIsWhole ==
  ASSUME WellFramed, Inv, InFrame
  PROVE  FramesComeOutWhole
<1>1. PICK U \in Seq(Bytes), T \in Nat, w \in Nat, d \in Seq(Owing), ms \in Seq(Messages) :
        \E S \in SUBSET (0 .. w) : Placed(U, T, w, d, ms, S)
  BY IsPlaced DEF Inv
<1>2. PICK S \in SUBSET (0 .. w) : Placed(U, T, w, d, ms, S)
  BY <1>1
<1>3. /\ Ordered(d, w) /\ Answered(d, ms, T)
      /\ U = Unread /\ w = written /\ d = due /\ ms = messages /\ w = T + Len(U)
  BY <1>2 DEF Placed
<1>4. PICK k \in Nat, x \in Nat, n \in Nat, m \in Nat, g \in Nat :
        k = ReadableBytes /\ x = Len(wire) /\ n = Len(d) /\ m = Len(ms) /\ g = Len(U)
  <2>1. ReadableBytes \in Nat /\ Len(wire) \in Nat
    BY ReadableStarts DEF Inv
  <2>2. Len(d) \in Nat /\ Len(ms) \in Nat /\ Len(U) \in Nat
    OBVIOUS
  <2>3. QED
    BY <2>1, <2>2
<1>5. PICK t \in Nat : t = T + k /\ t = w - x
  <2>1. g = k + x
    BY <1>3, <1>4, ReadableStarts DEF Inv
  <2>2. w = T + g
    BY <1>3, <1>4
  <2>3. T + k = w - x /\ T + k \in Nat
    BY <2>1, <2>2
  <2>4. QED
    BY <2>3
<1>6. PICK a \in Nat : a <= n /\ {i \in 1 .. n : d[i].end <= t} = 1 .. a
  <2>1. \E a \in Nat : /\ a <= Len(d)
                       /\ {i \in 1 .. Len(d) : d[i].end <= t} = 1 .. a
    BY <1>3, <1>5, ArrivedFirst, Zenon
  <2>2. QED
    BY <1>4, <2>1
<1>7. Arrived = 1 .. a
  BY <1>3, <1>4, <1>5, <1>6 DEF Arrived
<1>8. Cardinality(1 .. a) = a
  <2>1. Cardinality(1 .. a) = IF 1 > a THEN 0 ELSE a - 1 + 1
    BY FS_Interval
  <2>2. QED
    BY <2>1
<1>9. Whole = [i \in 1 .. a |-> d[i].message]
  BY <1>3, <1>7, <1>8 DEF Whole
<1>10. PICK W \in Seq(Messages) :
         W = Whole /\ Len(W) = a /\ \A i \in 1 .. a : W[i] = d[i].message
  <2>1. \A i \in 1 .. a : d[i].message \in Messages
    <3>1. \A i \in 1 .. n : d[i] \in Owing
      BY <1>4
    <3>2. \A o \in Owing : o.message \in Messages
      BY DEF Owing
    <3>3. \A i \in 1 .. a : i \in 1 .. n
      BY <1>6
    <3>4. QED
      BY <3>1, <3>2, <3>3
  <2>2. PICK W : W = [i \in 1 .. a |-> d[i].message]
    OBVIOUS
  <2>3. W \in Seq(Messages) /\ Len(W) = a /\ \A i \in 1 .. a : W[i] = d[i].message
    BY <2>1, <2>2
  <2>4. QED
    BY <1>9, <2>2, <2>3
<1>11. /\ m <= n
       /\ \A i \in 1 .. n :
            IF i <= m THEN d[i].message = ms[i] /\ d[i].end <= T ELSE d[i].end > T
  BY <1>3, <1>4 DEF Answered
<1>12. m <= a
  <2>1. SUFFICES ASSUME a < m PROVE FALSE
    OBVIOUS
  <2>2. m \in 1 .. n /\ d[m].end <= T /\ d[m].end \in Nat
    <3>1. m \in 1 .. n /\ d[m].end <= T
      BY <1>11, <2>1
    <3>2. QED
      BY <1>4, <3>1, EndsAreNat
  <2>3. d[m].end <= t
    BY <1>5, <2>2
  <2>4. m \in 1 .. a
    BY <1>6, <2>2, <2>3
  <2>5. QED
    BY <2>1, <2>4
<1>13. \A i \in 1 .. m : ms[i] = W[i]
  <2>1. \A i \in 1 .. m : i \in 1 .. n /\ i \in 1 .. a /\ i <= m
    BY <1>6, <1>12
  <2>2. QED
    BY <1>10, <1>11, <2>1
<1>14. ms = SubSeq(W, 1, m)
  <2>1. PICK s : s = SubSeq(W, 1, m)
    OBVIOUS
  <2>2. s \in Seq(Messages) /\ Len(s) = m /\ \A i \in 1 .. m : s[i] = W[i]
    BY <1>10, <1>12, <2>1
  <2>3. Len(s) = Len(ms) /\ \A i \in 1 .. Len(s) : s[i] = ms[i]
    BY <1>4, <1>13, <2>2
  <2>4. s = ms
    BY <2>2, <2>3, SeqEqual
  <2>5. QED
    BY <2>1, <2>4
<1>15. ASSUME ~HeaderIsHere, ~BodyIsHere PROVE ms = W
  <2>1. \A i \in 1 .. n : d[i].end <= t => i <= m
    <3>1. \A i \in 1 .. Len(d) : d[i].end <= T + k => i <= Len(ms)
      BY <1>2, <1>4, <1>15, NothingLeft
    <3>2. QED
      BY <1>4, <1>5, <3>1
  <2>2. a <= m
    <3>1. SUFFICES ASSUME m < a PROVE FALSE
      OBVIOUS
    <3>2. a \in 1 .. a /\ a \in 1 .. n
      BY <1>6, <3>1
    <3>3. d[a].end <= t
      BY <1>6, <3>2
    <3>4. a <= m
      BY <2>1, <3>2, <3>3
    <3>5. QED
      BY <3>1, <3>4
  <2>3. m = a
    BY <1>12, <2>2
  <2>4. Len(ms) = Len(W) /\ \A i \in 1 .. Len(ms) : ms[i] = W[i]
    BY <1>4, <1>10, <1>13, <2>3
  <2>5. QED
    BY <2>4, SeqEqual
<1>16. Len(ms) <= Len(W)
  BY <1>4, <1>10, <1>12
<1>17. ms = SubSeq(W, 1, Len(ms))
  BY <1>4, <1>14
<1>18. QED
  BY <1>3, <1>10, <1>15, <1>16, <1>17 DEF FramesComeOutWhole

(* However the stream is cut, decode returns the message of every frame once  *)
(* and in order, none before its frame is whole, and processInput does not    *)
(* stop while a whole frame is in the buffer: for any bodies no shorter than  *)
(* a separator that do not start with one, and any lines of one line each     *)
(* between the frames, it never loses its place in the stream.                *)
THEOREM FramesAreWhole == ASSUME WellFramed PROVE Spec => []FramesComeOutWhole
<1>1. Inv /\ InFrame /\ [Next]_vars => InFrame'
  BY InFrameStep
<1>2. Inv /\ InFrame => FramesComeOutWhole
  BY FramedIsWhole
<1>3. QED
  BY Invariance, InitInFrame, <1>1, <1>2, PTL DEF Spec

=============================================================================

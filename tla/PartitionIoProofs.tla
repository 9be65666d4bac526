-------------------------- MODULE PartitionIoProofs -------------------------
(***************************************************************************)
(* Proofs about PartitionIo, for every disk, partition and set of buffers. *)
(***************************************************************************)
EXTENDS PartitionIo, SequenceTheorems, TLAPS

\* A short transfer stays inside the buffer and inside the partition.
LEMMA CountBounds ==
  ASSUME TypeOK, ~AtEnd, NEW buf \in Buffers, NEW n \in 0 .. Count(buf)
  PROVE  /\ buf \in Seq(Byte) /\ Len(buf) \in Nat
         /\ n \in Nat /\ n <= Len(buf) /\ pos + n <= LEN
         /\ pos \in Nat /\ BASE \in Nat /\ LEN \in Nat /\ DISK_SIZE \in Nat
         /\ BASE + LEN <= DISK_SIZE
<1>1. buf \in Seq(Byte) /\ Len(buf) \in Nat
  BY PartitionAssumption, LenProperties
<1> QED
  BY <1>1, PartitionAssumption DEF TypeOK, AtEnd, Count

\* The results a call can have are results.
LEMMA Replies ==
  /\ Done(0) \in [kind : {"error", "ok", "read"}, data : Seq(Byte), n : Nat]
  /\ Error \in [kind : {"error", "ok", "read"}, data : Seq(Byte), n : Nat]
  /\ \A n \in Nat : Done(n) \in [kind : {"error", "ok", "read"}, data : Seq(Byte), n : Nat]
  /\ \A s \in Seq(Byte) : Got(s) \in [kind : {"error", "ok", "read"}, data : Seq(Byte), n : Nat]
<1>1. <<>> \in Seq(Byte) /\ \A s \in Seq(Byte) : Len(s) \in Nat
  BY EmptySeq, LenProperties
<1> QED
  BY <1>1 DEF Error, Done, Got

\* Every call keeps the types, and with them the position in the partition.
LEMMA TypeStep == TypeOK /\ [Next]_vars => TypeOK'
<1> SUFFICES ASSUME TypeOK, [Next]_vars PROVE TypeOK'
  OBVIOUS
<1> USE DEF TypeOK
<1>1. CASE ReadAtEnd
  <2>1. <<>> \in Seq(Byte)
    BY EmptySeq
  <2> QED
    BY <1>1, <2>1, Replies DEF ReadAtEnd
<1>2. CASE WriteAtEnd
  BY <1>2, Replies DEF WriteAtEnd
<1>3. CASE TransferFails
  <2>1. reply' \in [kind : {"error", "ok", "read"}, data : Seq(Byte), n : Nat]
    BY <1>3, Replies DEF TransferFails
  <2>2. cursor' \in 0 .. DISK_SIZE
    BY <1>3, PartitionAssumption DEF TransferFails, AtEnd
  <2> QED
    BY <1>3, <2>1, <2>2 DEF TransferFails
<1>4. CASE Flush
  BY <1>4, Replies DEF Flush
<1>5. ASSUME NEW buf \in Buffers, Read(buf) PROVE TypeOK'
  <2>1. PICK n \in 0 .. Count(buf) :
          /\ reply' = Got([i \in 1 .. n |-> disk[BASE + pos + i - 1]])
          /\ Advance(buf, n)
    BY <1>5 DEF Read
  <2>2. n \in Nat /\ pos + n <= LEN /\ BASE + LEN <= DISK_SIZE
        /\ pos \in Nat /\ BASE \in Nat /\ LEN \in Nat /\ DISK_SIZE \in Nat
    BY <1>5, CountBounds DEF Read
  <2>3. \A i \in 1 .. n : disk[BASE + pos + i - 1] \in Byte
    BY <2>2
  <2>4. [i \in 1 .. n |-> disk[BASE + pos + i - 1]] \in Seq(Byte)
    BY <2>2, <2>3, IsASeq
  <2>5. reply' \in [kind : {"error", "ok", "read"}, data : Seq(Byte), n : Nat]
    BY <2>1, <2>4, Replies
  <2> QED
    BY <1>5, <2>1, <2>2, <2>5 DEF Read, Advance
<1>6. ASSUME NEW buf \in Buffers, Write(buf) PROVE TypeOK'
  <2>1. PICK n \in 0 .. Count(buf) :
          /\ disk' = [a \in 0 .. DISK_SIZE - 1 |->
                        IF a \in WriteStart .. WriteStart + n - 1
                          THEN buf[a - WriteStart + 1] ELSE disk[a]]
          /\ reply' = Done(n)
          /\ Advance(buf, n)
    BY <1>6 DEF Write
  <2>2. /\ n \in Nat /\ n <= Len(buf) /\ pos + n <= LEN /\ BASE + LEN <= DISK_SIZE
        /\ pos \in Nat /\ BASE \in Nat /\ LEN \in Nat /\ DISK_SIZE \in Nat
        /\ buf \in Seq(Byte) /\ Len(buf) \in Nat
    BY <1>6, CountBounds DEF Write
  <2>3. \A a \in 0 .. DISK_SIZE - 1 :
          a \in WriteStart .. WriteStart + n - 1 => buf[a - WriteStart + 1] \in Byte
    <3>1. \A k \in 1 .. Len(buf) : buf[k] \in Byte
      BY <2>2, ElementOfSeq
    <3> QED
      BY <2>2, <3>1 DEF WriteStart
  <2>4. disk' \in [0 .. DISK_SIZE - 1 -> Byte]
    BY <2>1, <2>3
  <2>5. reply' \in [kind : {"error", "ok", "read"}, data : Seq(Byte), n : Nat]
    BY <2>1, <2>2, Replies
  <2>6. pos' \in 0 .. LEN /\ cursor' \in 0 .. DISK_SIZE
    BY <2>1, <2>2 DEF Advance
  <2> QED
    BY <2>4, <2>5, <2>6
<1>7. ASSUME NEW from \in {"start", "current", "end"}, NEW off \in Offsets, Seek(from, off)
      PROVE  TypeOK'
  <2>1. Target(from, off) \in Int
    BY PartitionAssumption DEF Target
  <2>2. pos' \in 0 .. LEN
    BY <1>7, <2>1, PartitionAssumption DEF Seek, SeekAccepted
  <2>3. reply' = Error \/ reply' = Done(pos')
    BY <1>7 DEF Seek
  <2>4. pos' \in Nat
    BY <2>2, PartitionAssumption
  <2>5. reply' \in [kind : {"error", "ok", "read"}, data : Seq(Byte), n : Nat]
    <3>1. Done(pos') \in [kind : {"error", "ok", "read"}, data : Seq(Byte), n : Nat]
      BY <2>4, Replies
    <3> QED
      BY <2>3, <3>1, Replies
  <2> QED
    BY <1>7, <2>2, <2>5 DEF Seek
<1>8. CASE UNCHANGED vars
  BY <1>8 DEF vars
<1> QED
  BY <1>1, <1>2, <1>3, <1>4, <1>5, <1>6, <1>7, <1>8 DEF Next

\* The position stays in the partition in every reachable state.
THEOREM TypeCorrect == Spec => []TypeOK
<1>1. Init => TypeOK
  <2>1. Init => reply \in [kind : {"error", "ok", "read"}, data : Seq(Byte), n : Nat]
    BY Replies DEF Init
  <2> QED
    BY <2>1, PartitionAssumption DEF Init, TypeOK
<1> QED
  BY <1>1, TypeStep, PTL DEF Spec

\* Nothing outside the partition is ever written.
THEOREM PartitionIsContained == Spec => OutsideUntouched
<1>1. ASSUME TypeOK, [Next]_vars
      PROVE  [\A a \in 0 .. DISK_SIZE - 1 :
                a < BASE \/ a >= BASE + LEN => disk'[a] = disk[a]]_vars
  <2>1. ASSUME NEW buf \in Buffers, Write(buf), NEW a \in 0 .. DISK_SIZE - 1,
               a < BASE \/ a >= BASE + LEN
        PROVE  disk'[a] = disk[a]
    <3>1. PICK n \in 0 .. Count(buf) :
            disk' = [b \in 0 .. DISK_SIZE - 1 |->
                       IF b \in WriteStart .. WriteStart + n - 1
                         THEN buf[b - WriteStart + 1] ELSE disk[b]]
      BY <2>1 DEF Write
    <3>2. /\ n \in Nat /\ pos + n <= LEN
          /\ pos \in Nat /\ BASE \in Nat /\ LEN \in Nat /\ DISK_SIZE \in Nat
      BY <1>1, <2>1, CountBounds DEF Write
    <3>3. a \notin WriteStart .. WriteStart + n - 1
      BY <2>1, <3>2 DEF WriteStart
    <3> QED
      BY <3>1, <3>3
  <2>2. disk' = disk \/ \E buf \in Buffers : Write(buf)
    BY <1>1 DEF Next, vars, ReadAtEnd, WriteAtEnd, TransferFails, Flush, Read, Seek
  <2> QED
    BY <2>1, <2>2
<1> QED
  BY <1>1, TypeCorrect, PTL DEF Spec, OutsideUntouched

\* Reading nothing yields the empty sequence.
LEMMA EmptyRead == ASSUME NEW f PROVE [i \in 1 .. 0 |-> f[pos + i - 1]] = <<>>
  OBVIOUS

\* Every call is a step of the fixed-length file, or changes nothing of it.
LEMMA StepRefines == TypeOK /\ TypeOK' /\ [Next]_vars => [File!FileNext]_(File!fileVars)
<1> SUFFICES ASSUME TypeOK, TypeOK', [Next]_vars
             PROVE  File!FileNext \/ UNCHANGED File!fileVars
  OBVIOUS
<1> USE DEF File!Error, File!Done, File!Got, Error, Done, Got
<1>0. disk' = disk => Content' = Content
  BY DEF Content
<1>1. CASE ReadAtEnd
  <2>1. 0 \in 0 .. LEN
    BY PartitionAssumption
  <2>2. pos + 0 = pos /\ pos + 0 <= LEN
    BY PartitionAssumption DEF TypeOK
  <2>3. reply' = File!Got([i \in 1 .. 0 |-> Content[pos + i - 1]])
    BY <1>1, EmptyRead DEF ReadAtEnd
  <2>4. File!ReadSome(0)
    BY <1>0, <1>1, <2>2, <2>3 DEF ReadAtEnd, File!ReadSome
  <2> QED
    BY <2>1, <2>4 DEF File!FileNext
<1>2. CASE WriteAtEnd
  BY <1>0, <1>2 DEF WriteAtEnd, File!FileNext, File!Synced
<1>3. CASE TransferFails
  BY <1>0, <1>3 DEF TransferFails, File!FileNext, File!Fail
<1>4. CASE Flush
  BY <1>0, <1>4 DEF Flush, File!FileNext, File!Fail, File!Synced
<1>5. ASSUME NEW buf \in Buffers, Read(buf) PROVE File!FileNext
  <2>1. PICK n \in 0 .. Count(buf) :
          /\ reply' = Got([i \in 1 .. n |-> disk[BASE + pos + i - 1]])
          /\ Advance(buf, n)
    BY <1>5 DEF Read
  <2>2. n \in Nat /\ pos + n <= LEN /\ pos \in Nat /\ BASE \in Nat /\ LEN \in Nat
    BY <1>5, CountBounds DEF Read
  <2>3. \A i \in 1 .. n : Content[pos + i - 1] = disk[BASE + pos + i - 1]
    <3> SUFFICES ASSUME NEW i \in 1 .. n
                 PROVE  Content[pos + i - 1] = disk[BASE + pos + i - 1]
      OBVIOUS
    <3>1. pos + i - 1 \in 0 .. LEN - 1 /\ BASE + (pos + i - 1) = BASE + pos + i - 1
      BY <2>2
    <3> QED
      BY <3>1 DEF Content
  <2>4. [i \in 1 .. n |-> Content[pos + i - 1]] = [i \in 1 .. n |-> disk[BASE + pos + i - 1]]
    BY <2>3
  <2>5. File!ReadSome(n)
    <3>1. reply' = File!Got([i \in 1 .. n |-> Content[pos + i - 1]])
      BY <2>1, <2>4 DEF Got, File!Got
    <3>2. pos' = pos + n /\ Content' = Content
      BY <1>0, <1>5, <2>1 DEF Read, Advance
    <3> QED
      BY <2>2, <3>1, <3>2 DEF File!ReadSome
  <2>6. n \in 0 .. LEN
    BY <2>2
  <2> QED
    BY <2>5, <2>6 DEF File!FileNext
<1>6. ASSUME NEW buf \in Buffers, Write(buf) PROVE File!FileNext
  <2>1. PICK n \in 0 .. Count(buf) :
          /\ disk' = [a \in 0 .. DISK_SIZE - 1 |->
                        IF a \in WriteStart .. WriteStart + n - 1
                          THEN buf[a - WriteStart + 1] ELSE disk[a]]
          /\ reply' = Done(n)
          /\ Advance(buf, n)
    BY <1>6 DEF Write
  <2>2. /\ n \in Nat /\ n <= Len(buf) /\ pos + n <= LEN /\ BASE + LEN <= DISK_SIZE
        /\ pos \in Nat /\ BASE \in Nat /\ LEN \in Nat /\ DISK_SIZE \in Nat
    BY <1>6, CountBounds DEF Write
  <2>3. ASSUME NEW a \in 0 .. LEN - 1
        PROVE  disk'[BASE + a] = IF a \in pos .. pos + n - 1 THEN buf[a - pos + 1]
                                                             ELSE Content[a]
    <3>1. BASE + a \in 0 .. DISK_SIZE - 1 /\ (BASE + a) - (BASE + pos) + 1 = a - pos + 1
      BY <2>2
    <3>2. BASE + a \in WriteStart .. WriteStart + n - 1 <=> a \in pos .. pos + n - 1
      BY <2>2 DEF WriteStart
    <3> QED
      BY <2>1, <3>1, <3>2 DEF Content, WriteStart
  <2>4. Content' = [a \in 0 .. LEN - 1 |->
                      IF a \in pos .. pos + n - 1 THEN buf[a - pos + 1] ELSE Content[a]]
    BY <2>3 DEF Content
  <2>5. File!WriteSome(buf, n)
    BY <2>1, <2>2, <2>4 DEF Advance, File!WriteSome
  <2>6. n \in 0 .. LEN
    BY <2>2
  <2> QED
    BY <2>5, <2>6 DEF File!FileNext
<1>7. ASSUME NEW from \in {"start", "current", "end"}, NEW off \in Offsets, Seek(from, off)
      PROVE  File!FileNext
  <2>1. CASE SeekAccepted(Target(from, off))
    <3>1. pos' \in 0 .. LEN
      BY DEF TypeOK
    <3>2. File!SeekTo(pos')
      BY <1>0, <1>7, <2>1 DEF Seek, File!SeekTo
    <3> QED
      BY <3>1, <3>2 DEF File!FileNext
  <2>2. CASE ~SeekAccepted(Target(from, off))
    BY <1>0, <1>7, <2>2 DEF Seek, File!FileNext, File!Fail
  <2> QED
    BY <2>1, <2>2
<1>8. CASE UNCHANGED vars
  BY <1>0, <1>8 DEF vars, File!fileVars
<1> QED
  BY <1>1, <1>2, <1>3, <1>4, <1>5, <1>6, <1>7, <1>8 DEF Next

\* To its users the partition is a file of fixed length.
THEOREM PartitionIsAFile == Spec => ImplementsFixedFile
<1>1. Init => File!FileInit
  <2> SUFFICES ASSUME Init PROVE File!FileInit
    OBVIOUS
  <2>1. \A a \in 0 .. LEN - 1 : disk[BASE + a] \in Byte
    BY PartitionAssumption DEF Init
  <2>2. Content \in [0 .. LEN - 1 -> Byte]
    BY <2>1 DEF Content
  <2> QED
    BY <2>2 DEF Init, File!FileInit, Done, File!Done
<1> QED
  BY <1>1, StepRefines, TypeCorrect, PTL DEF Spec, ImplementsFixedFile, File!FileSpec
=============================================================================

----------------------------- MODULE PartitionIo ----------------------------
(***************************************************************************)
(* PartitionIo of xtask: the ESP inside the disk image, as the file that   *)
(* the FAT file system is formatted and populated on.  Every transfer      *)
(* seeks the image to base + pos first.  The image (std::fs::File) is      *)
(* external: each of its calls may fail and a transfer may be short.       *)
(***************************************************************************)
EXTENDS Integers, Sequences

CONSTANTS
  DISK_SIZE,   \* bytes of the image, IMAGE_SIZE
  BASE, LEN,   \* the partition, from the GPT entry
  Byte,        \* values of a byte
  Buffers,     \* buffers of the callers
  Offsets      \* offsets callers seek to or by

\* add_partition finds room for the partition inside the image.
ASSUME PartitionAssumption ==
  /\ DISK_SIZE \in Nat /\ BASE \in Nat /\ LEN \in Nat
  /\ BASE + LEN <= DISK_SIZE
  /\ Buffers \subseteq Seq(Byte)
  /\ Offsets \subseteq Int

VARIABLES
  disk,     \* the image
  cursor,   \* position of the image file
  pos,      \* PartitionIo::pos
  reply     \* result of the latest call

vars == <<disk, cursor, pos, reply>>

\* What a caller sees: a file that holds the bytes of the partition.
Content == [a \in 0 .. LEN - 1 |-> disk[BASE + a]]
File == INSTANCE FixedFile WITH content <- Content, position <- pos

Error     == [kind |-> "error", data |-> <<>>, n |-> 0]
Done(n)   == [kind |-> "ok", data |-> <<>>, n |-> n]
Got(data) == [kind |-> "read", data |-> data, n |-> Len(data)]

-----------------------------------------------------------------------------

Init ==
  /\ disk \in [0 .. DISK_SIZE - 1 -> Byte]
  /\ cursor \in 0 .. DISK_SIZE
  /\ pos = 0
  /\ reply = Done(0)

\* remaining.min(buf.len()).
Count(buf) == IF LEN - pos < Len(buf) THEN LEN - pos ELSE Len(buf)

AtEnd == pos >= LEN

\* At the end of the partition both transfers return Ok(0).
ReadAtEnd == AtEnd /\ reply' = Got(<<>>) /\ UNCHANGED <<disk, cursor, pos>>
WriteAtEnd == AtEnd /\ reply' = Done(0) /\ UNCHANGED <<disk, cursor, pos>>

\* The seek of the image fails, or the transfer after it.
TransferFails ==
  /\ ~AtEnd
  /\ cursor' \in {cursor, BASE + pos}
  /\ reply' = Error
  /\ UNCHANGED <<disk, pos>>

\* Mutant of Advance: the position moves by what was asked for.
AdvanceByCount(buf, n) == pos' = pos + Count(buf) /\ cursor' = BASE + pos + n

\* self.pos += transferred.
Advance(buf, n) == pos' = pos + n /\ cursor' = BASE + pos + n

Read(buf) ==
  /\ ~AtEnd
  /\ \E n \in 0 .. Count(buf) :
       /\ reply' = Got([i \in 1 .. n |-> disk[BASE + pos + i - 1]])
       /\ Advance(buf, n)
  /\ UNCHANGED disk

\* Mutant of WriteStart: the position is taken for one of the image.
WriteStartUnbased == pos

\* Where write seeks the image to.
WriteStart == BASE + pos

Write(buf) ==
  /\ ~AtEnd
  /\ \E n \in 0 .. Count(buf) :
       /\ disk' = [a \in 0 .. DISK_SIZE - 1 |->
                     IF a \in WriteStart .. WriteStart + n - 1 THEN buf[a - WriteStart + 1]
                                                               ELSE disk[a]]
       /\ reply' = Done(n)
       /\ Advance(buf, n)

Flush == reply' \in {Done(0), Error} /\ UNCHANGED <<disk, cursor, pos>>

\* SeekFrom::Start, Current and End, before the sums are checked.
Target(from, off) ==
  IF from = "start" THEN off ELSE IF from = "current" THEN pos + off ELSE LEN + off

\* Mutant of SeekAccepted: only the checked arithmetic refuses.
SeekAcceptedAbove(t) == t >= 0

\* checked_add and checked_sub refuse what is no u64, the test what is too large.
SeekAccepted(t) == t >= 0 /\ t <= LEN

Seek(from, off) ==
  LET t == Target(from, off)
  IN  /\ from = "start" => off >= 0
      /\ IF SeekAccepted(t) THEN pos' = t /\ reply' = Done(t)
                            ELSE pos' = pos /\ reply' = Error
      /\ UNCHANGED <<disk, cursor>>

Next ==
  \/ ReadAtEnd \/ WriteAtEnd \/ TransferFails \/ Flush
  \/ \E buf \in Buffers : Read(buf) \/ Write(buf)
  \/ \E from \in {"start", "current", "end"}, off \in Offsets : Seek(from, off)

Spec == Init /\ [][Next]_vars

-----------------------------------------------------------------------------

\* Types; the position never leaves the partition.
TypeOK ==
  /\ disk \in [0 .. DISK_SIZE - 1 -> Byte]
  /\ cursor \in 0 .. DISK_SIZE
  /\ pos \in 0 .. LEN
  /\ reply \in [kind : {"error", "ok", "read"}, data : Seq(Byte), n : Nat]

\* No sequence of seeks, writes and failures touches the MBR, the GPT headers
\* or anything else outside the partition.
OutsideUntouched ==
  [][\A a \in 0 .. DISK_SIZE - 1 :
       a < BASE \/ a >= BASE + LEN => disk'[a] = disk[a]]_vars

\* To its users the partition is a file of fixed length, whatever the position
\* of the image file and whichever of its calls fail or fall short.
ImplementsFixedFile == File!FileSpec
=============================================================================

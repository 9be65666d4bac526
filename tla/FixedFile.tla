----------------------------- MODULE FixedFile ------------------------------
(***************************************************************************)
(* A file that can neither grow nor shrink, as a file system that is made  *)
(* on it sees it through io::Read, io::Write and io::Seek: transfers may   *)
(* be short, stop at the end and move the position by what was             *)
(* transferred; an error changes nothing.                                  *)
(***************************************************************************)
EXTENDS Integers, Sequences

CONSTANTS
  LEN,       \* length of the file
  Byte,      \* values of a byte
  Buffers    \* sequences of bytes that are written, or read into

VARIABLES
  content,   \* content[i]: byte i
  position,
  reply      \* result of the latest call: [kind, data, n]

fileVars == <<content, position, reply>>

Error      == [kind |-> "error", data |-> <<>>, n |-> 0]
Done(n)    == [kind |-> "ok", data |-> <<>>, n |-> n]
Got(data)  == [kind |-> "read", data |-> data, n |-> Len(data)]

FileInit ==
  /\ content \in [0 .. LEN - 1 -> Byte]
  /\ position = 0
  /\ reply = Done(0)

Fail == reply' = Error /\ UNCHANGED <<content, position>>

ReadSome(n) ==
  /\ position + n <= LEN
  /\ reply' = Got([i \in 1 .. n |-> content[position + i - 1]])
  /\ position' = position + n
  /\ UNCHANGED content

WriteSome(buf, n) ==
  /\ n <= Len(buf)
  /\ position + n <= LEN
  /\ content' = [a \in 0 .. LEN - 1 |->
                   IF a \in position .. position + n - 1 THEN buf[a - position + 1]
                                                         ELSE content[a]]
  /\ position' = position + n
  /\ reply' = Done(n)

SeekTo(p) ==
  /\ position' = p
  /\ reply' = Done(p)
  /\ UNCHANGED content

Synced == reply' = Done(0) /\ UNCHANGED <<content, position>>

FileNext ==
  \/ Fail
  \/ Synced
  \/ \E n \in 0 .. LEN : ReadSome(n) \/ \E buf \in Buffers : WriteSome(buf, n)
  \/ \E p \in 0 .. LEN : SeekTo(p)

FileSpec == FileInit /\ [][FileNext]_fileVars
=============================================================================

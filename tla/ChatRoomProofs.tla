--------------------------- MODULE ChatRoomProofs ---------------------------
(***************************************************************************)
(* Proofs about the chat room for any number of readers and programs, any  *)
(* page size, and any number of messages and restarts: a reader that pages *)
(* with the token of the last answer misses nothing.                       *)
(***************************************************************************)
EXTENDS ChatRoom, SequenceTheorems, TLAPS

Places == {i \in Int : i >= NoToken}

Typed ==
  /\ messageBuffer_ \in Seq(Nat)
  /\ sends \in Nat /\ life \in Nat /\ lives \in Nat \ {0} /\ life <= lives
  /\ token \in [Clients -> Places]
  /\ born \in [Clients -> Nat]
  /\ answer \in [Clients -> [messages : Seq(Nat), token : Places]]
  /\ received \in [Clients -> Seq(Nat)]
  /\ last \in [Clients -> Nat]

(* The messages client c has read, if its token is of this life or it has  *)
(* none.                                                                   *)
Place(c) == IF token[c] = NoToken THEN 0 ELSE token[c]

Current(c) == token[c] = NoToken \/ born[c] = life

(* The answer on its way continues where the client is.                    *)
AnswerContinues(c) ==
  answer[c] # NoAnswer =>
    /\ answer[c].token \in Place(c) .. Len(messageBuffer_)
    /\ answer[c].messages = SubSeq(messageBuffer_, Place(c) + 1, answer[c].token)

ReadSoFar(c) ==
  /\ Place(c) \in 0 .. Len(messageBuffer_)
  /\ received[c] = SubSeq(messageBuffer_, 1, Place(c))
  /\ AnswerContinues(c)

ReaderInv(c) ==
  /\ born[c] <= lives
  /\ token[c] = NoToken <=> born[c] = 0
  /\ answer[c] # NoAnswer => Up /\ answer[c].token >= 0
  /\ Current(c) => ReadSoFar(c)

(* Before a restart the buffer holds every message in the order of the     *)
(* sends; after the server's end it is empty.                              *)
BufferInv ==
  /\ ~Up => messageBuffer_ = <<>>
  /\ Up /\ lives = 1 => /\ Len(messageBuffer_) = sends
                        /\ \A i \in 1 .. sends : messageBuffer_[i] = i
  /\ \A c \in Clients : last[c] <= sends

ChatInv == Typed /\ BufferInv /\ \A c \in Readers : ReaderInv(c)
-----------------------------------------------------------------------------
(* What is appended changes no part of what was there.                     *)
LEMMA SubSeqOfAppend ==
  ASSUME NEW b \in Seq(Nat), NEW x \in Nat, NEW m \in Nat \ {0}, NEW n \in 0 .. Len(b)
  PROVE  SubSeq(Append(b, x), m, n) = SubSeq(b, m, n)
<1>1. /\ Append(b, x) \in Seq(Nat) /\ Len(Append(b, x)) = Len(b) + 1 /\ Len(b) \in Nat
      /\ \A i \in 1 .. Len(b) : Append(b, x)[i] = b[i]
  BY AppendProperties, LenProperties
<1>2. \A i \in m .. n : b[i] \in Nat /\ Append(b, x)[i] = b[i]
  BY <1>1, ElementOfSeq
<1>3. /\ SubSeq(b, m, n) \in Seq(Nat)
      /\ Len(SubSeq(b, m, n)) = IF m <= n THEN n - m + 1 ELSE 0
      /\ \A i \in 1 .. n - m + 1 : SubSeq(b, m, n)[i] = b[m + i - 1]
  BY <1>1, <1>2, SubSeqProperties
<1>4. /\ SubSeq(Append(b, x), m, n) \in Seq(Nat)
      /\ Len(SubSeq(Append(b, x), m, n)) = IF m <= n THEN n - m + 1 ELSE 0
      /\ \A i \in 1 .. n - m + 1 : SubSeq(Append(b, x), m, n)[i] = Append(b, x)[m + i - 1]
  BY <1>1, <1>2, SubSeqProperties
<1>5. \A i \in 1 .. Len(SubSeq(b, m, n)) : SubSeq(Append(b, x), m, n)[i] = SubSeq(b, m, n)[i]
  <2> SUFFICES ASSUME NEW i \in 1 .. Len(SubSeq(b, m, n))
               PROVE  SubSeq(Append(b, x), m, n)[i] = SubSeq(b, m, n)[i]
    OBVIOUS
  <2>1. i \in 1 .. n - m + 1 /\ m + i - 1 \in m .. n
    BY <1>1, <1>3
  <2> QED BY <1>2, <1>3, <1>4, <2>1
<1> QED BY <1>3, <1>4, <1>5, SeqEqual

(* The answer to a client that is at an index of the buffer is the page    *)
(* that follows.                                                           *)
LEMMA PageContinues ==
  ASSUME Typed, NEW index \in Places
  PROVE  /\ Page(index) \in [messages : Seq(Nat), token : Places]
         /\ Page(index) # NoAnswer
         /\ Page(index).token >= 0
         /\ LET idx == IF index = NoToken THEN 0 ELSE index
            IN idx <= Len(messageBuffer_) =>
                 /\ Page(index).token \in idx .. Len(messageBuffer_)
                 /\ Page(index).messages = SubSeq(messageBuffer_, idx + 1, Page(index).token)
<1> DEFINE idx == IF index = NoToken THEN 0 ELSE index
           i == MinOf(idx + FLAGS_max_messages_per_get, Len(messageBuffer_))
           t == IF i > idx THEN i ELSE idx
<1>1. Page(index) = [messages |-> SubSeq(messageBuffer_, idx + 1, i), token |-> t]
  BY DEF Page
<1>2. messageBuffer_ \in Seq(Nat) /\ Len(messageBuffer_) \in Nat
  BY LenProperties DEF Typed
<1>3. idx \in Nat /\ i \in Nat /\ i <= Len(messageBuffer_) /\ t \in Nat
  BY <1>2, ChatAssumption DEF Places, NoToken, MinOf
<1>4. idx <= Len(messageBuffer_) => i = t
  BY <1>2, <1>3, ChatAssumption DEF MinOf
<1>5. SubSeq(messageBuffer_, idx + 1, i) \in Seq(Nat)
  <2>1. \A j \in idx + 1 .. i : messageBuffer_[j] \in Nat
    BY <1>2, <1>3, ElementOfSeq
  <2> QED BY <1>3, <2>1, SubSeqProperties
<1> HIDE DEF idx, i, t
<1>6. /\ Page(index).token = t /\ Page(index).messages = SubSeq(messageBuffer_, idx + 1, i)
      /\ Page(index) \in [messages : Seq(Nat), token : Places]
  BY <1>1, <1>3, <1>5 DEF Places, NoToken
<1>7. Page(index) # NoAnswer
  BY <1>3, <1>6 DEF NoAnswer, NoToken
<1>8. idx <= Len(messageBuffer_) => t \in idx .. Len(messageBuffer_)
  BY <1>2, <1>3, <1>4 DEF t
<1>9. Page(index).token >= 0
  BY <1>3, <1>6
<1>10. idx <= Len(messageBuffer_) =>
         /\ Page(index).token \in idx .. Len(messageBuffer_)
         /\ Page(index).messages = SubSeq(messageBuffer_, idx + 1, Page(index).token)
  BY <1>4, <1>6, <1>8
<1> QED BY <1>6, <1>7, <1>9, <1>10, Zenon DEF idx
-----------------------------------------------------------------------------
(* A step that concerns neither the buffer nor what reader c has.          *)
LEMMA SameReader ==
  ASSUME NEW c \in Readers, ReaderInv(c),
         UNCHANGED <<messageBuffer_, life, lives>>,
         token'[c] = token[c], born'[c] = born[c], received'[c] = received[c],
         answer'[c] = answer[c] \/ answer'[c] = NoAnswer
  PROVE  ReaderInv(c)'
<1>1. Place(c)' = Place(c) /\ (Current(c)' <=> Current(c)) /\ (Up' <=> Up)
  BY DEF Place, Current, Up
<1>2. ReadSoFar(c) => ReadSoFar(c)'
  BY <1>1 DEF ReadSoFar, AnswerContinues
<1> QED BY <1>1, <1>2 DEF ReaderInv

(* getMessages                                                             *)
LEMMA GetStep ==
  ASSUME ChatInv, NEW c \in Clients, getMessages(c)
  PROVE  ChatInv'
<1>1. /\ Up /\ answer[c] = NoAnswer /\ answer' = [answer EXCEPT ![c] = Page(token[c])]
      /\ UNCHANGED <<messageBuffer_, sends, life, lives, token, born, received, last>>
  BY DEF getMessages
<1>2. Typed /\ BufferInv /\ \A d \in Readers : ReaderInv(d)
  BY DEF ChatInv
<1>3. ASSUME NEW d \in Readers, d # c PROVE ReaderInv(d)'
  <2>1. answer'[d] = answer[d]
    BY <1>1, <1>2, <1>3 DEF Typed, Clients
  <2> QED BY <1>1, <1>2, <2>1, SameReader
<1>4. ASSUME c \in Readers PROVE ReaderInv(c)'
  <2>1. token[c] \in Places /\ ReaderInv(c)
    BY <1>2, <1>4 DEF Typed
  <2>2. answer'[c] = Page(token[c])
    BY <1>1, <1>2 DEF Typed
  <2>3. Place(c)' = Place(c) /\ (Current(c)' <=> Current(c)) /\ Up'
    BY <1>1 DEF Place, Current, Up
  <2>4. ReadSoFar(c) => ReadSoFar(c)'
    <3> SUFFICES ASSUME ReadSoFar(c) PROVE AnswerContinues(c)'
      BY <1>1, <2>3 DEF ReadSoFar
    <3>1. Place(c) <= Len(messageBuffer_) /\ Place(c) = IF token[c] = NoToken THEN 0 ELSE token[c]
      BY <1>2, LenProperties DEF ReadSoFar, Typed, Place
    <3>2. /\ Page(token[c]).token \in Place(c) .. Len(messageBuffer_)
          /\ Page(token[c]).messages = SubSeq(messageBuffer_, Place(c) + 1, Page(token[c]).token)
      BY <1>2, <2>1, <3>1, PageContinues
    <3> QED BY <1>1, <2>2, <2>3, <3>2 DEF AnswerContinues
  <2>5. Page(token[c]).token >= 0
    BY <1>2, <2>1, PageContinues
  <2> QED BY <1>1, <2>1, <2>2, <2>3, <2>4, <2>5 DEF ReaderInv
<1>5. Typed'
  <2>1. Page(token[c]) \in [messages : Seq(Nat), token : Places]
    BY <1>2, PageContinues DEF Typed
  <2> QED BY <1>1, <1>2, <2>1 DEF Typed
<1>6. BufferInv'
  BY <1>1, <1>2 DEF BufferInv, Up
<1> QED BY <1>3, <1>4, <1>5, <1>6 DEF ChatInv

(* sendMessage                                                             *)
LEMMA SendStep ==
  ASSUME ChatInv, NEW c \in Clients, NEW acked \in BOOLEAN, sendMessage(c, acked)
  PROVE  ChatInv'
<1>1. /\ Up /\ sends' = sends + 1 /\ messageBuffer_' = Append(messageBuffer_, sends + 1)
      /\ last' = last \/ last' = [last EXCEPT ![c] = sends + 1]
      /\ UNCHANGED <<life, lives, token, born, answer, received>>
  <2>1. last' = [last EXCEPT ![c] = IF acked THEN sends + 1 ELSE last[c]]
    BY DEF sendMessage
  <2>2. last' = last \/ last' = [last EXCEPT ![c] = sends + 1]
    BY <2>1 DEF ChatInv, Typed
  <2> QED BY <2>2 DEF sendMessage
<1>2. Typed /\ BufferInv /\ \A d \in Readers : ReaderInv(d)
  BY DEF ChatInv
<1>3. /\ messageBuffer_ \in Seq(Nat) /\ Len(messageBuffer_) \in Nat /\ sends \in Nat
      /\ messageBuffer_' \in Seq(Nat) /\ Len(messageBuffer_') = Len(messageBuffer_) + 1
      /\ \A i \in 1 .. Len(messageBuffer_) : messageBuffer_'[i] = messageBuffer_[i]
      /\ messageBuffer_'[Len(messageBuffer_) + 1] = sends + 1
  <2>1. messageBuffer_ \in Seq(Nat) /\ sends + 1 \in Nat /\ sends \in Nat
    BY <1>2 DEF Typed
  <2> QED BY <1>1, <2>1, AppendProperties, LenProperties
<1>4. Typed'
  BY <1>1, <1>2, <1>3 DEF Typed
<1>5. BufferInv'
  <2>1. Up' /\ lives' = lives
    BY <1>1 DEF Up
  <2>2. lives = 1 => \A i \in 1 .. sends + 1 : messageBuffer_'[i] = i
    <3> SUFFICES ASSUME lives = 1, NEW i \in 1 .. sends + 1 PROVE messageBuffer_'[i] = i
      OBVIOUS
    <3>1. Len(messageBuffer_) = sends /\ \A j \in 1 .. sends : messageBuffer_[j] = j
      BY <1>1, <1>2 DEF BufferInv
    <3>2. i \in 1 .. sends \/ i = sends + 1
      BY <1>3
    <3> QED BY <1>3, <3>1, <3>2
  <2>3. ASSUME NEW d \in Clients PROVE last'[d] <= sends + 1
    <3>1. last[d] \in Nat /\ last[d] <= sends /\ sends \in Nat
      BY <1>2 DEF BufferInv, Typed
    <3>2. last'[d] = last[d] \/ last'[d] = sends + 1
      BY <1>1, <1>2 DEF Typed
    <3> QED BY <3>1, <3>2
  <2> QED BY <1>1, <1>2, <1>3, <2>1, <2>2, <2>3 DEF BufferInv
<1>6. ASSUME NEW d \in Readers PROVE ReaderInv(d)'
  <2>1. Place(d)' = Place(d) /\ (Current(d)' <=> Current(d)) /\ Up'
    BY <1>1 DEF Place, Current, Up
  <2>2. ReadSoFar(d) => ReadSoFar(d)'
    <3> SUFFICES ASSUME ReadSoFar(d) PROVE ReadSoFar(d)'
      OBVIOUS
    <3>1. Place(d) \in 0 .. Len(messageBuffer_)
      BY DEF ReadSoFar
    <3>2. SubSeq(messageBuffer_', 1, Place(d)) = SubSeq(messageBuffer_, 1, Place(d))
      BY <1>1, <1>3, <3>1, SubSeqOfAppend
    <3>3. AnswerContinues(d)'
      <4> SUFFICES ASSUME answer[d] # NoAnswer
                   PROVE  /\ answer[d].token \in Place(d) .. Len(messageBuffer_')
                          /\ answer[d].messages
                               = SubSeq(messageBuffer_', Place(d) + 1, answer[d].token)
        BY <1>1, <2>1 DEF AnswerContinues
      <4>1. /\ answer[d].token \in Place(d) .. Len(messageBuffer_)
            /\ answer[d].messages = SubSeq(messageBuffer_, Place(d) + 1, answer[d].token)
        BY DEF ReadSoFar, AnswerContinues
      <4>2. PICK m \in Nat \ {0}, n \in 0 .. Len(messageBuffer_) :
              m = Place(d) + 1 /\ n = answer[d].token
        <5>1. Len(messageBuffer_) \in Nat
          BY <1>3
        <5>2. PICK p \in Nat : p = Place(d) /\ p <= Len(messageBuffer_)
          BY <3>1, <5>1
        <5>3. PICK n \in p .. Len(messageBuffer_) : n = answer[d].token
          BY <4>1, <5>2
        <5>4. p + 1 \in Nat \ {0} /\ n \in 0 .. Len(messageBuffer_)
          BY <5>1, <5>2, <5>3
        <5> QED BY <5>2, <5>3, <5>4
      <4>3. SubSeq(messageBuffer_', m, n) = SubSeq(messageBuffer_, m, n)
        BY <1>1, <1>3, SubSeqOfAppend
      <4>4. answer[d].token \in Place(d) .. Len(messageBuffer_')
        <5>1. /\ Len(messageBuffer_) \in Nat /\ Len(messageBuffer_') \in Nat
              /\ Len(messageBuffer_) <= Len(messageBuffer_')
          BY <1>3
        <5> QED BY <3>1, <4>1, <5>1
      <4> QED BY <4>1, <4>2, <4>3, <4>4
    <3>4. Place(d) \in 0 .. Len(messageBuffer_')
      BY <1>3, <3>1
    <3> QED BY <1>1, <2>1, <3>2, <3>3, <3>4 DEF ReadSoFar
  <2> QED BY <1>1, <1>2, <2>1, <2>2 DEF ReaderInv
<1> QED BY <1>4, <1>5, <1>6 DEF ChatInv

(* A reader takes an answer.                                               *)
LEMMA TakeStep ==
  ASSUME ChatInv, NEW c \in Clients, ReaderTake(c)
  PROVE  ChatInv'
<1>1. /\ c \in Readers /\ answer[c] # NoAnswer
      /\ received' = [received EXCEPT ![c] = @ \o answer[c].messages]
      /\ token' = [token EXCEPT ![c] = answer[c].token]
      /\ born' = [born EXCEPT ![c] = IF token[c] = NoToken THEN life ELSE @]
      /\ answer' = [answer EXCEPT ![c] = NoAnswer]
      /\ UNCHANGED <<messageBuffer_, sends, life, lives, last>>
  BY DEF ReaderTake
<1>2. Typed /\ BufferInv /\ ReaderInv(c) /\ \A d \in Readers : ReaderInv(d)
  BY <1>1 DEF ChatInv
<1>3. /\ answer[c].messages \in Seq(Nat) /\ answer[c].token \in Places
      /\ received[c] \in Seq(Nat) /\ received[c] \o answer[c].messages \in Seq(Nat)
      /\ life \in Nat /\ born[c] \in Nat
  <2>1. /\ answer[c].messages \in Seq(Nat) /\ answer[c].token \in Places
        /\ received[c] \in Seq(Nat) /\ life \in Nat /\ born[c] \in Nat
    BY <1>2 DEF Typed
  <2> QED BY <2>1, ConcatProperties
<1>4. Typed'
  <2>1. NoAnswer \in [messages : Seq(Nat), token : Places]
    BY EmptySeq DEF NoAnswer, Places, NoToken
  <2> QED BY <1>1, <1>2, <1>3, <2>1 DEF Typed
<1>5. BufferInv'
  BY <1>1, <1>2 DEF BufferInv, Up
<1>6. ASSUME NEW d \in Readers, d # c PROVE ReaderInv(d)'
  <2>1. /\ token'[d] = token[d] /\ born'[d] = born[d] /\ received'[d] = received[d]
        /\ answer'[d] = answer[d]
    BY <1>1, <1>2, <1>6 DEF Typed, Clients
  <2> QED BY <1>1, <1>2, <2>1, SameReader
<1>7. ReaderInv(c)'
  <2>1. /\ token'[c] = answer[c].token /\ answer'[c] = NoAnswer
        /\ received'[c] = received[c] \o answer[c].messages
        /\ born'[c] = IF token[c] = NoToken THEN life ELSE born[c]
    BY <1>1, <1>2 DEF Typed
  <2>2. Up /\ answer[c].token >= 0 /\ token'[c] # NoToken
    BY <1>1, <1>2, <1>3, <2>1 DEF ReaderInv, NoToken
  <2>3. /\ token'[c] = NoToken <=> born'[c] = 0
        /\ born'[c] <= lives'
    BY <1>1, <1>2, <1>3, <2>1, <2>2 DEF ReaderInv, Up, Typed
  <2>4. Current(c)' => ReadSoFar(c)'
    <3> SUFFICES ASSUME Current(c)' PROVE ReadSoFar(c)'
      OBVIOUS
    <3>1. Current(c)
      BY <1>1, <2>1, <2>2 DEF Current
    <3>2. /\ Place(c) \in 0 .. Len(messageBuffer_)
          /\ received[c] = SubSeq(messageBuffer_, 1, Place(c))
          /\ answer[c].token \in Place(c) .. Len(messageBuffer_)
          /\ answer[c].messages = SubSeq(messageBuffer_, Place(c) + 1, answer[c].token)
      BY <1>1, <1>2, <3>1 DEF ReaderInv, ReadSoFar, AnswerContinues
    <3>3. Place(c)' = answer[c].token
      BY <2>1, <2>2 DEF Place
    <3>4. messageBuffer_ \in Seq(Nat) /\ Len(messageBuffer_) \in Nat
      BY <1>2, LenProperties DEF Typed
    <3>5. received'[c] = SubSeq(messageBuffer_, 1, answer[c].token)
      <4>1. /\ 1 \in 1 .. Len(messageBuffer_) + 1
            /\ Place(c) \in 1 - 1 .. Len(messageBuffer_)
        BY <3>2, <3>4
      <4>2. SubSeq(messageBuffer_, 1, Place(c)) \o SubSeq(messageBuffer_, Place(c) + 1, answer[c].token)
              = SubSeq(messageBuffer_, 1, answer[c].token)
        BY <3>2, <3>4, <4>1, ConcatAdjacentSubSeq
      <4> QED BY <2>1, <3>2, <4>2
    <3>6. answer[c].token \in 0 .. Len(messageBuffer_)
      BY <3>2, <3>4
    <3> QED BY <1>1, <2>1, <3>3, <3>5, <3>6 DEF ReadSoFar, AnswerContinues
  <2> QED BY <2>1, <2>3, <2>4 DEF ReaderInv
<1> QED BY <1>4, <1>5, <1>6, <1>7 DEF ChatInv

(* The answer is lost.                                                     *)
LEMMA LoseStep ==
  ASSUME ChatInv, NEW c \in Clients, Lose(c)
  PROVE  ChatInv'
<1>1. /\ answer' = [answer EXCEPT ![c] = NoAnswer]
      /\ UNCHANGED <<messageBuffer_, sends, life, lives, token, born, received, last>>
  BY DEF Lose
<1>2. Typed /\ BufferInv /\ \A d \in Readers : ReaderInv(d)
  BY DEF ChatInv
<1>3. Typed'
  <2>1. NoAnswer \in [messages : Seq(Nat), token : Places]
    BY EmptySeq DEF NoAnswer, Places, NoToken
  <2> QED BY <1>1, <1>2, <2>1 DEF Typed
<1>4. ASSUME NEW d \in Readers PROVE ReaderInv(d)'
  <2>1. answer'[d] = answer[d] \/ answer'[d] = NoAnswer
    BY <1>1, <1>2 DEF Typed, Clients
  <2> QED BY <1>1, <1>2, <2>1, SameReader
<1> QED BY <1>1, <1>2, <1>3, <1>4 DEF ChatInv, BufferInv, Up

(* A program prints what it got: it is no reader.                          *)
LEMMA PrintStep ==
  ASSUME ChatInv, NEW p \in Programs, ProgramPrint(p)
  PROVE  ChatInv'
<1>1. /\ received' = [received EXCEPT ![p] = answer[p].messages]
      /\ answer' = [answer EXCEPT ![p] = NoAnswer]
      /\ UNCHANGED <<messageBuffer_, sends, life, lives, token, born, last>>
  BY DEF ProgramPrint
<1>2. Typed /\ BufferInv /\ (\A d \in Readers : ReaderInv(d)) /\ p \in Clients
  BY DEF ChatInv, Clients
<1>3. Typed'
  <2>1. /\ NoAnswer \in [messages : Seq(Nat), token : Places]
        /\ answer[p].messages \in Seq(Nat)
    BY <1>2, EmptySeq DEF NoAnswer, Places, NoToken, Typed
  <2> QED BY <1>1, <1>2, <2>1 DEF Typed
<1>4. ASSUME NEW d \in Readers PROVE ReaderInv(d)'
  <2>1. answer'[d] = answer[d] /\ received'[d] = received[d]
    BY <1>1, <1>2, ChatAssumption DEF Typed, Clients
  <2> QED BY <1>1, <1>2, <2>1, SameReader
<1> QED BY <1>1, <1>2, <1>3, <1>4 DEF ChatInv, BufferInv, Up

(* The end of the server takes the buffer and the answers with it.         *)
LEMMA EndStep ==
  ASSUME ChatInv, ServerEnds
  PROVE  ChatInv'
<1>1. /\ life' = 0 /\ messageBuffer_' = <<>> /\ answer' = [c \in Clients |-> NoAnswer]
      /\ UNCHANGED <<sends, lives, token, born, received, last>>
  BY DEF ServerEnds
<1>2. Typed /\ BufferInv /\ \A d \in Readers : ReaderInv(d)
  BY DEF ChatInv
<1>3. Typed' /\ messageBuffer_' \in Seq(Nat) /\ Len(messageBuffer_') = 0
  <2>1. <<>> \in Seq(Nat) /\ Len(<<>>) = 0 /\ NoAnswer \in [messages : Seq(Nat), token : Places]
    BY EmptySeq DEF NoAnswer, Places, NoToken
  <2> QED BY <1>1, <1>2, <2>1 DEF Typed
<1>4. BufferInv'
  BY <1>1, <1>2 DEF BufferInv, Up
<1>5. ASSUME NEW d \in Readers PROVE ReaderInv(d)'
  <2>1. answer'[d] = NoAnswer /\ d \in Clients
    BY <1>1 DEF Clients
  <2>2. /\ token'[d] = NoToken <=> born'[d] = 0
        /\ born'[d] <= lives'
    BY <1>1, <1>2 DEF ReaderInv
  <2>3. Current(d)' => ReadSoFar(d)'
    <3> SUFFICES ASSUME Current(d)' PROVE ReadSoFar(d)'
      OBVIOUS
    <3>1. token[d] = NoToken
      BY <1>1, <2>2 DEF Current
    <3>2. received[d] = SubSeq(messageBuffer_, 1, 0)
      BY <1>2, <3>1 DEF ReaderInv, Current, ReadSoFar, Place
    <3>3. SubSeq(messageBuffer_, 1, 0) = <<>> /\ SubSeq(messageBuffer_', 1, 0) = <<>>
      BY SubSeqEmpty
    <3> QED BY <1>1, <1>3, <2>1, <3>1, <3>2, <3>3 DEF ReadSoFar, Place, AnswerContinues
  <2> QED BY <2>1, <2>2, <2>3 DEF ReaderInv
<1> QED BY <1>3, <1>4, <1>5 DEF ChatInv

(* After a restart no token is of the new life.                            *)
LEMMA StartStep ==
  ASSUME ChatInv, ServerStarts
  PROVE  ChatInv'
<1>1. /\ ~Up /\ lives' = lives + 1 /\ life' = lives + 1
      /\ UNCHANGED <<messageBuffer_, sends, token, born, answer, received, last>>
  BY DEF ServerStarts
<1>2. Typed /\ BufferInv /\ (\A d \in Readers : ReaderInv(d)) /\ lives \in Nat \ {0}
  BY DEF ChatInv, Typed
<1>3. Typed'
  BY <1>1, <1>2 DEF Typed
<1>4. BufferInv'
  BY <1>1, <1>2 DEF BufferInv, Up
<1>5. ASSUME NEW d \in Readers PROVE ReaderInv(d)'
  <2>1. ReaderInv(d) /\ answer[d] = NoAnswer /\ born[d] \in Nat
    BY <1>1, <1>2 DEF ReaderInv, Typed, Clients
  <2>2. Current(d)' => Current(d)
    BY <1>1, <1>2, <2>1 DEF Current, ReaderInv
  <2>3. ReadSoFar(d) => ReadSoFar(d)'
    BY <1>1, <2>1 DEF ReadSoFar, AnswerContinues, Place
  <2> QED BY <1>1, <1>2, <2>1, <2>2, <2>3 DEF ReaderInv
<1> QED BY <1>3, <1>4, <1>5 DEF ChatInv

LEMMA ChatInit == Init => ChatInv
<1> SUFFICES ASSUME Init PROVE ChatInv
  OBVIOUS
<1> USE DEF Init
<1>1. <<>> \in Seq(Nat) /\ Len(<<>>) = 0 /\ NoAnswer \in [messages : Seq(Nat), token : Places]
  BY EmptySeq DEF NoAnswer, Places, NoToken
<1>2. Typed
  BY <1>1 DEF Typed, Places, NoToken
<1>3. BufferInv
  BY <1>1 DEF BufferInv, Up
<1>4. ASSUME NEW d \in Readers PROVE ReaderInv(d)
  <2>1. /\ token[d] = NoToken /\ born[d] = 0 /\ received[d] = <<>> /\ answer[d] = NoAnswer
    BY DEF Clients
  <2>2. SubSeq(messageBuffer_, 1, 0) = <<>>
    BY SubSeqEmpty
  <2>3. ReadSoFar(d)
    <3>1. Place(d) = 0 /\ AnswerContinues(d)
      BY <2>1 DEF Place, AnswerContinues
    <3>2. 0 \in 0 .. Len(messageBuffer_)
      BY <1>1
    <3> QED BY <2>1, <2>2, <3>1, <3>2, Zenon DEF ReadSoFar
  <2> QED BY <2>1, <2>3 DEF ReaderInv
<1> QED BY <1>2, <1>3, <1>4 DEF ChatInv

LEMMA ChatStep == ChatInv /\ [Next]_vars => ChatInv'
<1> SUFFICES ASSUME ChatInv, [Next]_vars PROVE ChatInv'
  OBVIOUS
<1>1. ASSUME UNCHANGED <<messageBuffer_, sends, life, lives, token, born, answer, received, last>>
      PROVE  ChatInv'
  <2>1. Typed' /\ BufferInv'
    BY <1>1 DEF ChatInv, Typed, BufferInv, Up
  <2>2. \A d \in Readers : ReaderInv(d)'
    BY <1>1, SameReader DEF ChatInv
  <2> QED BY <2>1, <2>2 DEF ChatInv
<1>2. CASE UNCHANGED vars
  BY <1>1, <1>2 DEF vars
<1>3. ASSUME NEW c \in Clients, ReaderGet(c) \/ ReaderSend(c) \/ ReaderTake(c) \/ Lose(c)
      PROVE  ChatInv'
  BY <1>3, GetStep, SendStep, TakeStep, LoseStep DEF ReaderGet, ReaderSend
<1>4. ASSUME NEW p \in Programs, ProgramSend(p) \/ ProgramGet(p) \/ ProgramPrint(p) \/ ProgramFails(p)
      PROVE  ChatInv'
  <2>1. p \in Clients
    BY DEF Clients
  <2> QED BY <1>1, <1>4, <2>1, SendStep, GetStep, PrintStep
          DEF ProgramSend, ProgramGet, ProgramFails
<1> QED BY <1>2, <1>3, <1>4, EndStep, StartStep DEF Next

(* A reader that passes the token it was last given gets each message once *)
(* and in order, whatever is sent between its calls, whichever answers are *)
(* lost, and with pages of any size (server/ChatRoomService.cpp:26-46).    *)
THEOREM NoneMissedCorrect == Spec => []NoneMissed
<1>1. ChatInv => NoneMissed
  <2> SUFFICES ASSUME ChatInv, NEW c \in Readers, Up
               PROVE  /\ born[c] = life =>
                           /\ token[c] <= Len(messageBuffer_)
                           /\ received[c] = SubSeq(messageBuffer_, 1, token[c])
                      /\ lives = 1 /\ token[c] = Len(messageBuffer_) /\ last[c] # 0 =>
                           \E i \in DOMAIN received[c] : received[c][i] = last[c]
    BY DEF NoneMissed
  <2>1. Typed /\ BufferInv /\ ReaderInv(c) /\ c \in Clients
    BY DEF ChatInv, Clients
  <2>2. /\ messageBuffer_ \in Seq(Nat) /\ Len(messageBuffer_) \in Nat
        /\ SubSeq(messageBuffer_, 1, Len(messageBuffer_)) = messageBuffer_
        /\ DOMAIN messageBuffer_ = 1 .. Len(messageBuffer_)
    BY <2>1, LenProperties, SubSeqFull DEF Typed
  <2>3. ASSUME born[c] = life
        PROVE  /\ token[c] <= Len(messageBuffer_)
               /\ received[c] = SubSeq(messageBuffer_, 1, token[c])
    <3>1. token[c] # NoToken
      BY <2>1, <2>3 DEF ReaderInv, Up
    <3> QED BY <2>1, <2>2, <2>3, <3>1 DEF ReaderInv, Current, ReadSoFar, Place
  <2>4. ASSUME lives = 1, token[c] = Len(messageBuffer_), last[c] # 0
        PROVE  \E i \in DOMAIN received[c] : received[c][i] = last[c]
    <3>1. token[c] # NoToken
      BY <2>2, <2>4 DEF NoToken
    <3>2. born[c] = life
      BY <2>1, <2>4, <3>1 DEF ReaderInv, Typed, Up
    <3>3. received[c] = messageBuffer_
      BY <2>2, <2>3, <2>4, <3>2
    <3>4. last[c] \in 1 .. sends
      BY <2>1, <2>4 DEF BufferInv, Typed
    <3> QED BY <2>1, <2>2, <2>4, <3>3, <3>4 DEF BufferInv
  <2> QED BY <2>3, <2>4
<1> QED BY <1>1, ChatInit, ChatStep, PTL DEF Spec
=============================================================================

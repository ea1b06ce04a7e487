------------------------------ MODULE ChatRoom ------------------------------
(***************************************************************************)
(* The chat room example (src/old/example): ChatRoomServiceHandler, the    *)
(* processes of ExampleServer.cpp and the clients.  messageBuffer_ is      *)
(* behind a lock, so each handler call is atomic; what is not atomic is a  *)
(* client's call: the answer, with the token that marks the client's       *)
(* place, may be lost, the client then asks again with the token it has,   *)
(* other clients send meanwhile, and the server may end and be started     *)
(* again with an empty buffer.  A client is either a reader, which passes  *)
(* the token of the last answer, or the program of                         *)
(* client/ChatRoomClient.cpp, which sends, asks once without a token and   *)
(* ends.  A message is the number of the send it comes from. Bounds:       *)
(* MaxMessages, MaxLives.                                                  *)
(***************************************************************************)
EXTENDS Integers, Sequences

CONSTANTS
  Readers,
  Programs,      \* runs of ChatRoomClient
  FLAGS_max_messages_per_get,
  MaxMessages,
  MaxLives

ASSUME ChatAssumption ==
  /\ Readers \cap Programs = {}
  /\ FLAGS_max_messages_per_get \in Nat \ {0}
  /\ MaxMessages \in Nat /\ MaxLives \in Nat \ {0}

NoToken == -1
Clients == Readers \cup Programs

VARIABLES
  messageBuffer_,
  sends,         \* messages sent so far
  life,          \* how often the server was started; 0 after its end
  lives,
  token,         \* token[c]
  born,          \* history: born[c], the life token[c] is from
  answer,        \* answer[c]: an answer on its way, or NoAnswer
  received,      \* history: received[c], what c has got since it has no token
  last,          \* history: last[c], the last message c sent and was told of
  pc             \* pc[p] of a program: "send", "get", "wait", "done" or "failed"

vars == <<messageBuffer_, sends, life, lives, token, born, answer, received, last, pc>>

NoAnswer == [messages |-> <<>>, token |-> NoToken]

Init ==
  /\ messageBuffer_ = <<>>
  /\ sends = 0
  /\ life = 1 /\ lives = 1
  /\ token = [c \in Clients |-> NoToken]
  /\ born = [c \in Clients |-> 0]
  /\ answer = [c \in Clients |-> NoAnswer]
  /\ received = [c \in Clients |-> <<>>]
  /\ last = [c \in Clients |-> 0]
  /\ pc = [p \in Programs |-> "send"]

Up == life # 0
-----------------------------------------------------------------------------
(* ChatRoomServiceHandler                                                  *)

MinOf(a, b) == IF a <= b THEN a ELSE b

(* The messages from idx on, at most a page, and the index to go on from:  *)
(* idx itself when the buffer is shorter.                                  *)
Page(index) ==
  LET idx == IF index = NoToken THEN 0 ELSE index
      i   == MinOf(idx + FLAGS_max_messages_per_get, Len(messageBuffer_))
  IN  [messages |-> SubSeq(messageBuffer_, idx + 1, i),
       token |-> IF i > idx THEN i ELSE idx]

getMessages(c) ==
  /\ Up
  /\ answer[c] = NoAnswer
  /\ answer' = [answer EXCEPT ![c] = Page(token[c])]
  /\ UNCHANGED <<messageBuffer_, sends, life, lives, token, born, received, last>>

(* acked: the caller hears that its message was taken.                     *)
sendMessage(c, acked) ==
  /\ Up
  /\ sends < MaxMessages
  /\ sends' = sends + 1
  /\ messageBuffer_' = Append(messageBuffer_, sends')
  /\ last' = [last EXCEPT ![c] = IF acked THEN sends' ELSE @]
  /\ UNCHANGED <<life, lives, token, born, answer, received>>
-----------------------------------------------------------------------------
(* Readers                                                                 *)

ReaderGet(c) == c \in Readers /\ getMessages(c) /\ UNCHANGED pc

ReaderSend(c) == c \in Readers /\ (\E b \in BOOLEAN : sendMessage(c, b)) /\ UNCHANGED pc

(* Mutant: the client takes the messages but keeps its old token.          *)
ReaderTakeKept(c) ==
  /\ c \in Readers
  /\ answer[c] # NoAnswer
  /\ received' = [received EXCEPT ![c] = @ \o answer[c].messages]
  /\ token' = [token EXCEPT ![c] = IF @ = NoToken THEN answer[c].token ELSE @]
  /\ born' = [born EXCEPT ![c] = life]
  /\ answer' = [answer EXCEPT ![c] = NoAnswer]
  /\ UNCHANGED <<messageBuffer_, sends, life, lives, last, pc>>

ReaderTake(c) ==
  /\ c \in Readers
  /\ answer[c] # NoAnswer
  /\ received' = [received EXCEPT ![c] = @ \o answer[c].messages]
  /\ token' = [token EXCEPT ![c] = answer[c].token]
  /\ born' = [born EXCEPT ![c] = IF token[c] = NoToken THEN life ELSE @]
  /\ answer' = [answer EXCEPT ![c] = NoAnswer]
  /\ UNCHANGED <<messageBuffer_, sends, life, lives, last, pc>>

(* The connection breaks: the call ends with a TTransportException.        *)
Lose(c) ==
  /\ answer[c] # NoAnswer
  /\ answer' = [answer EXCEPT ![c] = NoAnswer]
  /\ pc' = [p \in Programs |-> IF p = c THEN "failed" ELSE pc[p]]
  /\ UNCHANGED <<messageBuffer_, sends, life, lives, token, born, received, last>>
-----------------------------------------------------------------------------
(* main of ChatRoomClient                                                  *)

ProgramSend(p) ==
  /\ pc[p] = "send"
  /\ \/ sendMessage(p, TRUE) /\ pc' = [pc EXCEPT ![p] = "get"]
     \/ sendMessage(p, FALSE) /\ pc' = [pc EXCEPT ![p] = "failed"]

ProgramGet(p) ==
  /\ pc[p] = "get"
  /\ getMessages(p)
  /\ pc' = [pc EXCEPT ![p] = "wait"]

ProgramPrint(p) ==
  /\ pc[p] = "wait"
  /\ answer[p] # NoAnswer
  /\ received' = [received EXCEPT ![p] = answer[p].messages]
  /\ answer' = [answer EXCEPT ![p] = NoAnswer]
  /\ pc' = [pc EXCEPT ![p] = "done"]
  /\ UNCHANGED <<messageBuffer_, sends, life, lives, token, born, last>>

ProgramFails(p) ==
  /\ ~Up
  /\ pc[p] \in {"send", "get"}
  /\ pc' = [pc EXCEPT ![p] = "failed"]
  /\ UNCHANGED <<messageBuffer_, sends, life, lives, token, born, answer, received, last>>
-----------------------------------------------------------------------------
(* ExampleServer: the chat room serves on a thread that is never joined;   *)
(* when the echo server on the main thread is stopped, main returns and    *)
(* the process ends with the chat room in it.                              *)
ServerEnds ==
  /\ Up
  /\ life' = 0
  /\ messageBuffer_' = <<>>
  /\ answer' = [c \in Clients |-> NoAnswer]
  /\ pc' = [p \in Programs |-> IF pc[p] = "wait" THEN "failed" ELSE pc[p]]
  /\ UNCHANGED <<sends, lives, token, born, received, last>>

ServerStarts ==
  /\ ~Up
  /\ lives < MaxLives
  /\ lives' = lives + 1
  /\ life' = lives'
  /\ UNCHANGED <<messageBuffer_, sends, token, born, answer, received, last, pc>>

Next ==
  \/ \E c \in Clients : ReaderGet(c) \/ ReaderSend(c) \/ ReaderTake(c) \/ Lose(c)
  \/ \E p \in Programs : ProgramSend(p) \/ ProgramGet(p) \/ ProgramPrint(p) \/ ProgramFails(p)
  \/ ServerEnds \/ ServerStarts

Spec == Init /\ [][Next]_vars
-----------------------------------------------------------------------------
(* The token getMessages answers with (server/ChatRoomService.cpp:26-46)   *)
(* pages through the buffer: as long as the server is the one that gave    *)
(* it, a reader has exactly the messages before the token's index, none    *)
(* twice and none missed, whatever is sent between its calls and whichever *)
(* answers are lost.  A client that has read to the end has every message  *)
(* it was told was taken, its own included (:48-59), unless the server was *)
(* started again.                                                          *)
NoneMissed ==
  \A c \in Readers : Up =>
    /\ born[c] = life =>
         /\ token[c] <= Len(messageBuffer_)
         /\ received[c] = SubSeq(messageBuffer_, 1, token[c])
    /\ lives = 1 /\ token[c] = Len(messageBuffer_) /\ last[c] # 0 =>
         \E i \in DOMAIN received[c] : received[c][i] = last[c]

(* What dep/if/chatroom.thrift:32-34 says of the token: "if you have 10    *)
(* messages in the queue, and the token's index is 5, then the client has  *)
(* already received messages 0-5".  The code does not: the index is that   *)
(* of the first message the client has not received.                       *)
TokenAsDocumented ==
  \A c \in Readers :
    Up /\ born[c] = life /\ 0 < token[c] /\ token[c] < Len(messageBuffer_) =>
    \A i \in 0..token[c] : \E j \in DOMAIN received[c] : received[c][j] = messageBuffer_[i + 1]
=============================================================================

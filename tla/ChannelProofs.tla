---------------------------- MODULE ChannelProofs ----------------------------
(***************************************************************************)
(* Proofs about Channel, for any number of connections, servers, requests, *)
(* records and network faults.                                             *)
(***************************************************************************)
EXTENDS Channel, FiniteSetTheorems, SequenceTheorems, TLAPS

-----------------------------------------------------------------------------
(* What the two ends can hold.                                             *)

Damaged == [kind |-> "damaged"]
NoHello == [e_c |-> None, ek |-> None]
NoReply == [e_s |-> None, ct |-> Encapsulate(None, None)]

Hellos(c) == {client_start(c), NoHello}
Replies(c) == {server_hello(c, h) : h \in Hellos(c)} \cup {NoReply}

ClientSecrets(c) == {client_finish(c, r, p) : r \in Replies(c), p \in Servers}
ServerSecrets(c) == {server_respond(c, s, h) : s \in Servers, h \in Hellos(c)}
Secrets == UNION {ClientSecrets(c) \cup ServerSecrets(c) : c \in Conns}
Keys == {None} \cup (Secrets \X {"c2s", "s2c"})
Chans == [send_key : Keys, recv_key : Keys, send_ctr : Nat, recv_ctr : Nat]

Ids == Conns \X Nat
Ops == {"read", "write", "subscribe", "ok", "err", "record"}
Frames == [kind : {"sealed"}, key : Keys, ctr : Nat, body : [op : Ops, id : Ids], big : BOOLEAN]
HelloOf(c) == {Hello(h) : h \in Hellos(c)}
ReplyOf(c) == {Reply(p, r) : p \in Servers, r \in Replies(c)}
Greetings == UNION {HelloOf(c) \cup ReplyOf(c) : c \in Conns}
Messages == Frames \cup {Damaged} \cup Greetings

Clients == [st : {"new", "hello", "ready", "waiting", "following", "closed"},
            pin : Servers \cup {NoPin}, chan : Chans, aligned : BOOLEAN]
Threads == [st : {"new", "accepted", "serving", "pushing", "closed"},
            id : Servers \cup {None}, chan : Chans]

Types ==
  /\ client \in [Conns -> Clients] /\ server \in [Conns -> Threads]
  /\ toServer \in [Conns -> Seq(Messages)] /\ toClient \in [Conns -> Seq(Messages)]
  /\ sealed \subseteq Frames
  /\ served \in [Conns -> Seq([id : Ids, status : {"ok", "err"}])]
  /\ outcome \in [Conns -> Seq([status : Ops \cup {"io"}, answer : Ids \cup {<<>>}])]
  /\ applied \in [Conns -> Seq(Ids)]

-----------------------------------------------------------------------------
(* The inductive invariant.                                                *)

(* The keys an end holds were derived from its own halves, the client's    *)
(* with the key it pinned.                                                 *)
ClientKey(c) ==
  \E r \in Replies(c), p \in Servers :
    /\ client[c].chan.send_key = <<client_finish(c, r, p), "c2s">>
    /\ client[c].chan.recv_key = <<client_finish(c, r, p), "s2c">>
    /\ client[c].pin \in {NoPin, p}

ServerKey(c) ==
  \E h \in Hellos(c) :
    /\ server[c].id \in Servers
    /\ server[c].chan.send_key = <<server_respond(c, server[c].id, h), "s2c">>
    /\ server[c].chan.recv_key = <<server_respond(c, server[c].id, h), "c2s">>

KeyInv(c) ==
  /\ client[c].chan = NoChannel \/ ClientKey(c)
  /\ server[c].chan = NoChannel \/ ServerKey(c)
  /\ client[c].st \in {"ready", "waiting", "following"} => ClientKey(c)
  /\ client[c].st \in {"new", "hello"} => client[c].chan = NoChannel
  /\ server[c].st \in {"serving", "pushing"} => ServerKey(c)
  /\ server[c].st \in {"new", "accepted"} => server[c].chan = NoChannel
  /\ server[c].st # "new" => server[c].id \in Servers

(* Only frames that were sealed, and damaged ones, travel after the        *)
(* handshake.                                                              *)
QueueInv(c) ==
  /\ (client[c].st = "new" \/ server[c].st = "new") =>
       client[c].st = "new" /\ server[c].st = "new" /\ toServer[c] = <<>> /\ toClient[c] = <<>>
  /\ server[c].st = "accepted" =>
       /\ client[c].st = "hello" /\ toClient[c] = <<>>
       /\ \E h \in Hellos(c) : toServer[c] = <<Hello(h)>>
  /\ client[c].st = "hello" =>
       toClient[c] = <<>> \/ \E p \in Servers, r \in Replies(c) : toClient[c] = <<Reply(p, r)>>
  /\ server[c].st \notin {"new", "accepted"} =>
       \A i \in 1..Len(toServer[c]) : toServer[c][i] \in sealed \cup {Damaged}
  /\ client[c].st \notin {"new", "hello"} =>
       \A i \in 1..Len(toClient[c]) : toClient[c][i] \in sealed \cup {Damaged}

(* A frame comes from the end whose key sealed it, and tells which request *)
(* it makes or answers, or which record it carries, by its counter.        *)
FromClient(f, c) ==
  /\ f.key = client[c].chan.send_key /\ f.ctr < client[c].chan.send_ctr
  /\ f.body.id = <<c, f.ctr + 1>>
  /\ f.body.op = "subscribe" => f.ctr = 0 /\ client[c].st \in {"following", "closed"}

FromServer(f, c) ==
  /\ f.key = server[c].chan.send_key /\ f.ctr < server[c].chan.send_ctr
  /\ f.body.id = <<c, f.ctr + 1>>
  /\ f.body.op = "record" => client[c].st \in {"following", "closed"}
  /\ f.body.op # "record" =>
       /\ f.ctr + 1 <= Len(served[c])
       /\ served[c][f.ctr + 1] = [id |-> f.body.id, status |-> f.body.op]

SealedInv == \A f \in sealed : \E c \in Conns : FromClient(f, c) \/ FromServer(f, c)

Records(c) == {f \in sealed : f.key = server[c].chan.send_key /\ f.body.op = "record"}

(* The server thread counts what it carried out; a stream counts its       *)
(* records.                                                                *)
ServeInv(c) ==
  /\ client[c].chan.recv_ctr <= server[c].chan.send_ctr
  /\ server[c].chan.recv_ctr <= client[c].chan.send_ctr
  /\ Len(served[c]) <= server[c].chan.recv_ctr
  /\ \A i \in 1..Len(served[c]) : served[c][i].id = <<c, i>>
  /\ server[c].st = "serving" =>
       Len(served[c]) = server[c].chan.recv_ctr /\ Len(served[c]) = server[c].chan.send_ctr
  /\ server[c].st = "pushing" =>
       /\ client[c].st \in {"following", "closed"}
       /\ IsFiniteSet(Records(c)) /\ Cardinality(Records(c)) = server[c].chan.send_ctr

StreamInv(c) ==
  /\ client[c].st = "following" => Len(applied[c]) = client[c].chan.recv_ctr
  /\ client[c].st \notin {"following", "closed"} => applied[c] = <<>>
  /\ \A i \in 1..Len(applied[c]) : applied[c][i] = <<c, i>>

(* What travels to a client that makes requests is the tail of what its    *)
(* server sent, in order, unless the network has put a frame before it.    *)
FlightInv(c) ==
  (client[c].st \in {"ready", "waiting"} /\ c \notin inserted) =>
    /\ client[c].chan.recv_ctr + Len(toClient[c]) <= server[c].chan.send_ctr
    /\ \A i \in 1..Len(toClient[c]) : toClient[c][i] # Damaged =>
         /\ toClient[c][i].key = server[c].chan.send_key
         /\ toClient[c][i].ctr + Len(toClient[c]) + 1 = server[c].chan.send_ctr + i

(* Nothing the client can still receive opens: it is off the frame         *)
(* boundary, or an answer it waits for has been used up, or no answer will *)
(* come any more.                                                          *)
Doomed(c) ==
  \/ ~client[c].aligned
  \/ client[c].chan.recv_ctr + Len(toClient[c]) < server[c].chan.send_ctr
  \/ server[c].st = "closed" /\ toClient[c] = <<>>

OutcomeInv(c) ==
  /\ client[c].st \notin {"ready", "waiting"} => outcome[c] = <<>>
  /\ client[c].st = "ready" => Len(outcome[c]) = client[c].chan.send_ctr
  /\ client[c].st = "waiting" => Len(outcome[c]) + 1 = client[c].chan.send_ctr
  /\ client[c].st \in {"ready", "waiting"} => client[c].chan.recv_ctr <= Len(outcome[c])
  /\ \A i \in 1..Len(outcome[c]) : outcome[c][i].status = "io" => Doomed(c) \/ c \in inserted
  /\ (client[c].st \in {"ready", "waiting"} /\ c \notin inserted
        /\ \A i \in 1..Len(outcome[c]) : outcome[c][i].status # "io") =>
       client[c].chan.recv_ctr = Len(outcome[c])
  /\ \A i, j \in 1..Len(outcome[c]) :
       (i < j /\ outcome[c][i].status = "io") => outcome[c][j].status = "io" \/ c \in inserted

(* The i-th request got the k-th answer: not before the k-th answer was    *)
(* received, for the first time, and after all the earlier answers.        *)
Answered(c, i, k) ==
  /\ outcome[c][i].answer = <<c, k>>
  /\ k <= client[c].chan.recv_ctr /\ k <= Len(served[c])
  /\ served[c][k] = [id |-> <<c, k>>, status |-> outcome[c][i].status]
  /\ k = i \/ c \in inserted
  /\ \A j \in 1..(i - 1) : outcome[c][j].answer # <<c, k>>
  /\ \A l \in 1..(k - 1) : \E j \in 1..(i - 1) : outcome[c][j].answer = <<c, l>>
  /\ \A j \in 1..(i - 1) : outcome[c][j].status = "io" => k < i

(* The answers received are the answers handed out; a failed request has   *)
(* put the client behind for good.                                         *)
AnswerInv(c) ==
  /\ \A i \in 1..Len(outcome[c]) :
       IF outcome[c][i].status = "io" THEN outcome[c][i].answer = <<>>
       ELSE \E k \in 1..i : Answered(c, i, k)
  /\ client[c].st \in {"ready", "waiting"} =>
       /\ \A l \in 1..client[c].chan.recv_ctr :
            \E j \in 1..Len(outcome[c]) : outcome[c][j].answer = <<c, l>>
       /\ \A i \in 1..Len(outcome[c]) :
            outcome[c][i].status = "io" => client[c].chan.recv_ctr < Len(outcome[c])

PinInv(c) ==
  (client[c].pin # NoPin /\ client[c].pin # server[c].id) =>
    /\ served[c] = <<>> /\ applied[c] = <<>>
    /\ \A i \in 1..Len(outcome[c]) : outcome[c][i].status = "io"

ConnOK(c) ==
  /\ KeyInv(c) /\ QueueInv(c) /\ ServeInv(c) /\ StreamInv(c)
  /\ FlightInv(c) /\ OutcomeInv(c) /\ AnswerInv(c) /\ PinInv(c)

IInv == Types /\ SealedInv /\ NonceNeverReused /\ \A c \in Conns : ConnOK(c)

-----------------------------------------------------------------------------
(* Keys tell their owners.                                                 *)

(* The halves of different connections differ, and None is no half.        *)
LEMMA Halves ==
  ASSUME NEW c \in Conns, NEW d \in Conns
  PROVE  /\ EphC(c) = EphC(d) => c = d
         /\ EphS(c) = EphS(d) => c = d
         /\ EphC(c) # None /\ EphS(c) # None
<1>1. EphC(c) # None /\ EphS(c) # None
  BY NoneIsNoKey
<1>2. EphC(c)[2] = c /\ EphC(d)[2] = d /\ EphS(c)[2] = c /\ EphS(d)[2] = d
  BY DEF EphC, EphS
<1> QED BY <1>1, <1>2

(* What the client derives holds its own half and its view of the server's. *)
LEMMA ClientSecret ==
  ASSUME NEW c \in Conns, NEW r \in Replies(c), NEW p
  PROVE  /\ client_finish(c, r, p)[4] = EphC(c)
         /\ client_finish(c, r, p)[6] \in {EphS(c), None}
         /\ client_finish(c, r, p)[2] = {EphC(c), Static(p)}
<1>1. r.e_s \in {EphS(c), None}
  BY DEF Replies, NoReply, server_hello
<1> QED BY <1>1 DEF client_finish, derive_key, client_start, DiffieHellman

(* What the server derives holds its own half and its view of the client's. *)
LEMMA ServerSecret ==
  ASSUME NEW c \in Conns, NEW h \in Hellos(c), NEW s
  PROVE  /\ server_respond(c, s, h)[4] \in {EphC(c), None}
         /\ server_respond(c, s, h)[6] = EphS(c)
         /\ server_respond(c, s, h)[2] = {Static(s), server_respond(c, s, h)[4]}
<1>1. h.e_c \in {EphC(c), None}
  BY DEF Hellos, NoHello, client_start
<1> QED BY <1>1 DEF server_respond, derive_key, server_hello, DiffieHellman

(* The keys a client holds, by what is in them.                            *)
LEMMA ClientKeyHas ==
  ASSUME NEW c \in Conns, ClientKey(c)
  PROVE  /\ client[c].chan.send_key[2] = "c2s" /\ client[c].chan.send_key[1][4] = EphC(c)
         /\ client[c].chan.recv_key[2] = "s2c" /\ client[c].chan.recv_key[1][6] \in {EphS(c), None}
<1>1. PICK r \in Replies(c), p \in Servers :
        /\ client[c].chan.send_key = <<client_finish(c, r, p), "c2s">>
        /\ client[c].chan.recv_key = <<client_finish(c, r, p), "s2c">>
  BY DEF ClientKey
<1> DEFINE S == client_finish(c, r, p)
<1>2. S[4] = EphC(c) /\ S[6] \in {EphS(c), None}
  BY ClientSecret
<1> HIDE DEF S
<1>3. client[c].chan.send_key = <<S, "c2s">> /\ client[c].chan.recv_key = <<S, "s2c">>
  BY <1>1 DEF S
<1> QED BY <1>2, <1>3

(* The keys a server thread holds, by what is in them.                     *)
LEMMA ServerKeyHas ==
  ASSUME NEW c \in Conns, ServerKey(c)
  PROVE  /\ server[c].chan.send_key[2] = "s2c" /\ server[c].chan.send_key[1][6] = EphS(c)
         /\ server[c].chan.recv_key[2] = "c2s" /\ server[c].chan.recv_key[1][4] \in {EphC(c), None}
<1>1. PICK h \in Hellos(c) :
        /\ server[c].chan.send_key = <<server_respond(c, server[c].id, h), "s2c">>
        /\ server[c].chan.recv_key = <<server_respond(c, server[c].id, h), "c2s">>
  BY DEF ServerKey
<1> DEFINE S == server_respond(c, server[c].id, h)
<1>2. S[6] = EphS(c) /\ S[4] \in {EphC(c), None}
  BY ServerSecret
<1> HIDE DEF S
<1>3. server[c].chan.send_key = <<S, "s2c">> /\ server[c].chan.recv_key = <<S, "c2s">>
  BY <1>1 DEF S
<1> QED BY <1>2, <1>3

(* Two ends that share a key: the server has the secret of the public key  *)
(* the client computed with, which is the pinned one.                      *)
LEMMA SharedKey ==
  ASSUME NEW c \in Conns, ClientKey(c), ServerKey(c),
         \/ client[c].chan.send_key = server[c].chan.recv_key
         \/ client[c].chan.recv_key = server[c].chan.send_key
  PROVE  client[c].pin \in {NoPin, server[c].id}
<1>1. PICK r \in Replies(c), p \in Servers :
        /\ client[c].chan.send_key = <<client_finish(c, r, p), "c2s">>
        /\ client[c].chan.recv_key = <<client_finish(c, r, p), "s2c">>
        /\ client[c].pin \in {NoPin, p}
  BY DEF ClientKey
<1>2. PICK h \in Hellos(c) :
        /\ server[c].chan.send_key = <<server_respond(c, server[c].id, h), "s2c">>
        /\ server[c].chan.recv_key = <<server_respond(c, server[c].id, h), "c2s">>
  BY DEF ServerKey
<1> DEFINE S == client_finish(c, r, p)
           T == server_respond(c, server[c].id, h)
<1>3. S[4] = EphC(c) /\ S[2] = {EphC(c), Static(p)}
  BY ClientSecret
<1>4. T[2] = {Static(server[c].id), T[4]}
  BY ServerSecret
<1>5. /\ client[c].chan.send_key = <<S, "c2s">> /\ client[c].chan.recv_key = <<S, "s2c">>
      /\ server[c].chan.send_key = <<T, "s2c">> /\ server[c].chan.recv_key = <<T, "c2s">>
  BY <1>1, <1>2
<1> HIDE DEF S, T
<1>6. S = T
  BY <1>5
<1>7. {EphC(c), Static(p)} = {Static(server[c].id), EphC(c)}
  BY <1>3, <1>4, <1>6
<1>8. Static(p) # EphC(c) /\ Static(p)[2] = p /\ Static(server[c].id)[2] = server[c].id
  BY DEF Static, EphC
<1>9. Static(p) = Static(server[c].id)
  BY <1>7, <1>8
<1> QED BY <1>1, <1>8, <1>9

(* A frame's counter is below its sender's, so the sender has its keys.    *)
LEMMA SenderHasKeys ==
  ASSUME IInv, NEW f \in sealed, NEW d \in Conns
  PROVE  /\ FromClient(f, d) => ClientKey(d)
         /\ FromServer(f, d) => ServerKey(d)
<1>1. f.ctr \in Nat
  BY DEF IInv, Types, Frames
<1>2. KeyInv(d)
  BY DEF IInv, ConnOK
<1>3. NoChannel.send_ctr = 0
  BY DEF NoChannel
<1>4. ASSUME FromClient(f, d) PROVE client[d].chan # NoChannel
  BY <1>1, <1>3, <1>4 DEF FromClient
<1>5. ASSUME FromServer(f, d) PROVE server[d].chan # NoChannel
  BY <1>1, <1>3, <1>5 DEF FromServer
<1> QED BY <1>2, <1>4, <1>5 DEF KeyInv

(* What a server thread opens was sealed by the client of its connection,  *)
(* and under keys that both ends share.                                    *)
LEMMA OpenedByServer ==
  ASSUME IInv, NEW c \in Conns, NEW f \in sealed, ServerKey(c), f.key = server[c].chan.recv_key
  PROVE  FromClient(f, c) /\ ClientKey(c)
<1>1. PICK d \in Conns : FromClient(f, d) \/ FromServer(f, d)
  BY DEF IInv, SealedInv
<1>2. f.key[2] = "c2s" /\ f.key[1][4] \in {EphC(c), None}
  BY ServerKeyHas
<1>3. ~FromServer(f, d)
  <2> SUFFICES ASSUME FromServer(f, d) PROVE FALSE
    OBVIOUS
  <2>1. f.key[2] = "s2c"
    BY SenderHasKeys, ServerKeyHas DEF FromServer
  <2> QED BY <2>1, <1>2
<1>4. FromClient(f, d) /\ ClientKey(d)
  BY <1>1, <1>3, SenderHasKeys
<1>5. f.key[1][4] = EphC(d)
  BY <1>4, ClientKeyHas DEF FromClient
<1>6. d = c
  BY <1>2, <1>5, Halves
<1> QED BY <1>4, <1>6

(* What a client opens was sealed by the server thread of its connection.  *)
LEMMA OpenedByClient ==
  ASSUME IInv, NEW c \in Conns, NEW f \in sealed, ClientKey(c), f.key = client[c].chan.recv_key
  PROVE  FromServer(f, c) /\ ServerKey(c)
<1>1. PICK d \in Conns : FromClient(f, d) \/ FromServer(f, d)
  BY DEF IInv, SealedInv
<1>2. f.key[2] = "s2c" /\ f.key[1][6] \in {EphS(c), None}
  BY ClientKeyHas
<1>3. ~FromClient(f, d)
  <2> SUFFICES ASSUME FromClient(f, d) PROVE FALSE
    OBVIOUS
  <2>1. f.key[2] = "c2s"
    BY SenderHasKeys, ClientKeyHas DEF FromClient
  <2> QED BY <2>1, <1>2
<1>4. FromServer(f, d) /\ ServerKey(d)
  BY <1>1, <1>3, SenderHasKeys
<1>5. f.key[1][6] = EphS(d)
  BY <1>4, ServerKeyHas DEF FromServer
<1>6. d = c
  BY <1>2, <1>5, Halves
<1> QED BY <1>4, <1>6

(* Everything sealed under an end's key was sealed by that end: the next   *)
(* counter is fresh.                                                       *)
LEMMA OwnFrames ==
  ASSUME IInv, NEW c \in Conns, NEW f \in sealed
  PROVE  /\ (ClientKey(c) /\ f.key = client[c].chan.send_key) => FromClient(f, c)
         /\ (ServerKey(c) /\ f.key = server[c].chan.send_key) => FromServer(f, c)
<1>1. PICK d \in Conns : FromClient(f, d) \/ FromServer(f, d)
  BY DEF IInv, SealedInv
<1>2. FromClient(f, d) => f.key[2] = "c2s" /\ f.key[1][4] = EphC(d)
  BY SenderHasKeys, ClientKeyHas DEF FromClient
<1>3. FromServer(f, d) => f.key[2] = "s2c" /\ f.key[1][6] = EphS(d)
  BY SenderHasKeys, ServerKeyHas DEF FromServer
<1>4. ASSUME ClientKey(c), f.key = client[c].chan.send_key PROVE FromClient(f, c)
  <2>1. f.key[2] = "c2s" /\ f.key[1][4] = EphC(c)
    BY <1>4, ClientKeyHas
  <2> QED BY <2>1, <1>1, <1>2, <1>3, Halves
<1>5. ASSUME ServerKey(c), f.key = server[c].chan.send_key PROVE FromServer(f, c)
  <2>1. f.key[2] = "s2c" /\ f.key[1][6] = EphS(c)
    BY <1>5, ServerKeyHas
  <2> QED BY <2>1, <1>1, <1>2, <1>3, Halves
<1> QED BY <1>4, <1>5

-----------------------------------------------------------------------------
(* A step of one connection leaves the others alone.                       *)

Others(c) ==
  \A d \in Conns \ {c} :
    /\ client'[d] = client[d] /\ server'[d] = server[d]
    /\ toServer'[d] = toServer[d] /\ toClient'[d] = toClient[d]
    /\ served'[d] = served[d] /\ outcome'[d] = outcome[d] /\ applied'[d] = applied[d]
    /\ d \in inserted' <=> d \in inserted

(* What was answered stays answered.                                       *)
LEMMA AnswersStay ==
  ASSUME NEW c \in Conns, AnswerInv(c), outcome'[c] = outcome[c], served'[c] = served[c],
         client'[c].chan.recv_ctr = client[c].chan.recv_ctr, c \in inserted => c \in inserted',
         client'[c].st \in {"ready", "waiting"} => client[c].st \in {"ready", "waiting"}
  PROVE  AnswerInv(c)'
<1>1. \A i, k : Answered(c, i, k) => Answered(c, i, k)'
  BY DEF Answered
<1> QED BY <1>1 DEF AnswerInv

Fresh(f, c) ==
  \/ ClientKey(c) /\ f.key = client[c].chan.send_key /\ FromClient(f, c)'
  \/ ServerKey(c) /\ f.key = server[c].chan.send_key /\ FromServer(f, c)'

(* What a step of connection c has to show.                                *)
LEMMA LocalStep ==
  ASSUME IInv, NEW c \in Conns, Types', NonceNeverReused', ConnOK(c)', Others(c),
         sealed \subseteq sealed',
         \A f \in sealed : FromClient(f, c) => FromClient(f, c)',
         \A f \in sealed : FromServer(f, c) => FromServer(f, c)',
         \A f \in sealed' : f \in sealed \/ Fresh(f, c)
  PROVE  IInv'
<1>1. SealedInv'
  <2> SUFFICES ASSUME NEW f \in sealed' PROVE \E d \in Conns : FromClient(f, d)' \/ FromServer(f, d)'
    BY DEF SealedInv
  <2>1. CASE f \in sealed
    <3>1. PICK d \in Conns : FromClient(f, d) \/ FromServer(f, d)
      BY <2>1 DEF IInv, SealedInv
    <3>2. CASE d = c
      BY <2>1, <3>1, <3>2
    <3>3. CASE d # c
      <4>1. FromClient(f, d)' \/ FromServer(f, d)'
        BY <3>1, <3>3 DEF Others, FromClient, FromServer
      <4> QED BY <4>1
    <3> QED BY <3>2, <3>3
  <2>2. CASE Fresh(f, c)
    BY <2>2 DEF Fresh
  <2> QED BY <2>1, <2>2
<1>2. ASSUME NEW d \in Conns, d # c PROVE ConnOK(d)'
  <2>0. /\ client'[d] = client[d] /\ server'[d] = server[d]
        /\ toServer'[d] = toServer[d] /\ toClient'[d] = toClient[d]
        /\ served'[d] = served[d] /\ outcome'[d] = outcome[d] /\ applied'[d] = applied[d]
        /\ d \in inserted' <=> d \in inserted
    BY <1>2 DEF Others
  <2>1. ConnOK(d)
    BY DEF IInv
  <2>2. /\ KeyInv(d)' /\ StreamInv(d)' /\ FlightInv(d)' /\ OutcomeInv(d)' /\ AnswerInv(d)' /\ PinInv(d)'
    <3>1. KeyInv(d)'
      BY <2>0, <2>1 DEF ConnOK, KeyInv, ClientKey, ServerKey
    <3>2. StreamInv(d)' /\ PinInv(d)'
      BY <2>0, <2>1 DEF ConnOK, StreamInv, PinInv
    <3>3. FlightInv(d)'
      BY <2>0, <2>1 DEF ConnOK, FlightInv
    <3>4. OutcomeInv(d)'
      BY <2>0, <2>1 DEF ConnOK, OutcomeInv, Doomed
    <3>5. AnswerInv(d)'
      BY <2>0, <2>1, AnswersStay DEF ConnOK
    <3> QED BY <3>1, <3>2, <3>3, <3>4, <3>5
  <2>3. QueueInv(d)'
    BY <2>0, <2>1 DEF ConnOK, QueueInv
  <2>4. ServeInv(d)'
    <3>1. ServerKey(d) => Records(d)' = Records(d)
      <4> SUFFICES ASSUME ServerKey(d), NEW f \in sealed', f \notin sealed
                   PROVE  f.key # server[d].chan.send_key
        BY <2>0 DEF Records
      <4>1. Fresh(f, c)
        OBVIOUS
      <4>2. server[d].chan.send_key[2] = "s2c" /\ server[d].chan.send_key[1][6] = EphS(d)
        BY ServerKeyHas
      <4>3. CASE ClientKey(c) /\ f.key = client[c].chan.send_key
        BY <4>2, <4>3, ClientKeyHas
      <4>4. CASE ServerKey(c) /\ f.key = server[c].chan.send_key
        BY <4>2, <4>4, <1>2, ServerKeyHas, Halves
      <4> QED BY <4>1, <4>3, <4>4 DEF Fresh
    <3>2. server[d].st = "pushing" => ServerKey(d)
      BY <2>1 DEF ConnOK, KeyInv
    <3> QED BY <2>0, <2>1, <3>1, <3>2 DEF ConnOK, ServeInv
  <2> QED BY <2>2, <2>3, <2>4 DEF ConnOK
<1> QED BY <1>1, <1>2 DEF IInv

(* The same when the step seals nothing.                                   *)
LEMMA QuietStep ==
  ASSUME IInv, NEW c \in Conns, Types', ConnOK(c)', Others(c), UNCHANGED sealed,
         \A f \in sealed : FromClient(f, c) => FromClient(f, c)',
         \A f \in sealed : FromServer(f, c) => FromServer(f, c)'
  PROVE  IInv'
<1>1. NonceNeverReused'
  BY DEF IInv, NonceNeverReused
<1> QED BY <1>1, LocalStep

(* The hellos of either side, damaged or not, are messages.                *)
LEMMA HandshakeMessages ==
  ASSUME NEW c \in Conns
  PROVE  /\ \A h \in Hellos(c) : Hello(h) \in Messages
         /\ \A p \in Servers, r \in Replies(c) : Reply(p, r) \in Messages
<1>1. \A h \in Hellos(c) : Hello(h) \in HelloOf(c)
  BY DEF HelloOf
<1>2. \A p \in Servers, r \in Replies(c) : Reply(p, r) \in ReplyOf(c)
  BY DEF ReplyOf
<1>3. HelloOf(c) \cup ReplyOf(c) \subseteq Greetings
  BY Zenon DEF Greetings
<1> QED BY <1>1, <1>2, <1>3 DEF Messages

(* What every step starts from.                                            *)
LEMMA ConnHas ==
  ASSUME IInv, NEW c \in Conns
  PROVE  /\ Types /\ ConnOK(c)
         /\ client[c] \in Clients /\ server[c] \in Threads
         /\ client[c].chan \in Chans /\ server[c].chan \in Chans
         /\ client[c].chan.send_ctr \in Nat /\ client[c].chan.recv_ctr \in Nat
         /\ server[c].chan.send_ctr \in Nat /\ server[c].chan.recv_ctr \in Nat
         /\ toServer[c] \in Seq(Messages) /\ toClient[c] \in Seq(Messages)
         /\ Len(served[c]) \in Nat /\ Len(outcome[c]) \in Nat /\ Len(applied[c]) \in Nat
<1>1. Types /\ ConnOK(c)
  BY DEF IInv
<1>2. client[c] \in Clients /\ server[c] \in Threads
  BY <1>1 DEF Types
<1>3. client[c].chan \in Chans /\ server[c].chan \in Chans
  BY <1>2 DEF Clients, Threads
<1>4. /\ toServer[c] \in Seq(Messages) /\ toClient[c] \in Seq(Messages)
      /\ served[c] \in Seq([id : Ids, status : {"ok", "err"}])
      /\ outcome[c] \in Seq([status : Ops \cup {"io"}, answer : Ids \cup {<<>>}])
      /\ applied[c] \in Seq(Ids)
  BY <1>1 DEF Types
<1> QED BY <1>1, <1>2, <1>3, <1>4 DEF Chans

-----------------------------------------------------------------------------
(* Connecting.                                                             *)

(* Nobody is connected and nothing is sealed.                              *)
LEMMA InitInv == Init => IInv
<1> SUFFICES ASSUME Init PROVE IInv
  OBVIOUS
<1>1. NoChannel \in Chans /\ NoChannel.send_ctr = 0 /\ NoChannel.recv_ctr = 0
  BY DEF NoChannel, Chans, Keys
<1>2. Types
  <2>2. client \in [Conns -> Clients] /\ server \in [Conns -> Threads]
    BY <1>1 DEF Init, Clients, Threads
  <2>3. \A S : [c \in Conns |-> <<>>] \in [Conns -> Seq(S)]
    OBVIOUS
  <2> QED BY <2>2, <2>3 DEF Init, Types
<1>3. SealedInv /\ NonceNeverReused
  BY DEF Init, SealedInv, NonceNeverReused
<1>4. ASSUME NEW c \in Conns PROVE ConnOK(c)
  <2>1. /\ client[c].st = "new" /\ client[c].pin = NoPin /\ client[c].chan = NoChannel
        /\ server[c].st = "new" /\ server[c].chan = NoChannel
        /\ toServer[c] = <<>> /\ toClient[c] = <<>>
        /\ served[c] = <<>> /\ outcome[c] = <<>> /\ applied[c] = <<>>
    BY DEF Init
  <2>2. Len(<<>>) = 0 /\ \A i : i \notin 1..0
    OBVIOUS
  <2>3. KeyInv(c) /\ QueueInv(c)
    BY <2>1, <2>2 DEF KeyInv, QueueInv
  <2>4. ServeInv(c) /\ StreamInv(c) /\ FlightInv(c) /\ PinInv(c)
    BY <1>1, <2>1, <2>2 DEF ServeInv, StreamInv, FlightInv, PinInv
  <2>5. OutcomeInv(c) /\ AnswerInv(c)
    BY <1>1, <2>1, <2>2 DEF OutcomeInv, AnswerInv
  <2> QED BY <2>3, <2>4, <2>5 DEF ConnOK
<1> QED BY <1>2, <1>3, <1>4 DEF IInv

(* Connect sends the client's hello.                                       *)
LEMMA ConnectInv ==
  ASSUME IInv, NEW c \in Conns, NEW s \in Servers, NEW pin \in Servers \cup {NoPin}, Connect(c, s, pin)
  PROVE  IInv'
<1>0. /\ Types /\ ConnOK(c) /\ client[c] \in Clients /\ server[c] \in Threads
      /\ client[c].st = "new" /\ client[c].chan \in Chans /\ server[c].chan \in Chans
  BY ConnHas DEF Connect
<1>1. /\ client'[c] = [client[c] EXCEPT !.st = "hello", !.pin = pin]
      /\ server'[c] = [server[c] EXCEPT !.st = "accepted", !.id = s]
      /\ toServer'[c] = <<Hello(client_start(c))>>
      /\ UNCHANGED <<toClient, faults, inserted, sealed, served, outcome, applied>>
      /\ Others(c)
  BY <1>0 DEF Connect, Types, Others
<1>2. /\ client'[c].st = "hello" /\ client'[c].pin = pin /\ client'[c].chan = client[c].chan
      /\ client'[c] \in Clients
  BY <1>0, <1>1 DEF Clients
<1>3. /\ server'[c].st = "accepted" /\ server'[c].id = s /\ server'[c].chan = server[c].chan
      /\ server'[c] \in Threads
  BY <1>0, <1>1 DEF Threads
<1>4. Types'
  <2>1. toServer'[c] \in Seq(Messages)
    <3>1. Hello(client_start(c)) \in Messages
      BY HandshakeMessages DEF Hellos
    <3> QED BY <3>1, <1>1
  <2> QED BY <2>1, <1>0, <1>1, <1>2, <1>3 DEF Types, Connect
<1>5. /\ client[c].chan = NoChannel /\ server[c].chan = NoChannel /\ server[c].st = "new"
      /\ toClient[c] = <<>> /\ served[c] = <<>> /\ outcome[c] = <<>> /\ applied[c] = <<>>
      /\ NoChannel.recv_ctr = 0 /\ NoChannel.send_ctr = 0
  <2>1. client[c].chan = NoChannel /\ server[c].st = "new" /\ toClient[c] = <<>>
    BY <1>0 DEF ConnOK, KeyInv, QueueInv
  <2>2. server[c].chan = NoChannel /\ outcome[c] = <<>> /\ applied[c] = <<>>
    BY <1>0, <2>1 DEF ConnOK, KeyInv, OutcomeInv, StreamInv
  <2>3. NoChannel.recv_ctr = 0 /\ NoChannel.send_ctr = 0
    BY DEF NoChannel
  <2>4. Len(served[c]) = 0 /\ served[c] \in Seq([id : Ids, status : {"ok", "err"}])
    BY <1>0, <2>2, <2>3 DEF ConnOK, ServeInv, Types
  <2> QED BY <2>1, <2>2, <2>3, <2>4
<1>6. ConnOK(c)'
  <2>1. KeyInv(c)'
    BY <1>2, <1>3, <1>5 DEF KeyInv
  <2>2. QueueInv(c)'
    BY <1>1, <1>2, <1>3, <1>5 DEF QueueInv, Hellos
  <2>3. Len(<<>>) = 0 /\ \A i : i \notin 1..0
    OBVIOUS
  <2>4. ServeInv(c)' /\ StreamInv(c)' /\ FlightInv(c)' /\ PinInv(c)'
    BY <1>1, <1>2, <1>3, <1>5, <2>3 DEF ServeInv, StreamInv, FlightInv, PinInv
  <2>5. OutcomeInv(c)'
    BY <1>1, <1>2, <1>3, <1>5, <2>3 DEF OutcomeInv
  <2>6. AnswerInv(c)'
    BY <1>0, <1>1, <1>2, <1>3, <1>5, AnswersStay DEF ConnOK
  <2> QED BY <2>1, <2>2, <2>4, <2>5, <2>6 DEF ConnOK
<1>7. \A f \in sealed : ~FromClient(f, c) /\ ~FromServer(f, c)
  BY <1>0, <1>5 DEF FromClient, FromServer, Types, Frames
<1> QED BY <1>1, <1>4, <1>6, <1>7, QuietStep

(* Channel::new gives each direction its key and starts both counters.     *)
LEMMA NewChannel ==
  ASSUME NEW c \in Conns, NEW S \in ClientSecrets(c) \cup ServerSecrets(c), NEW b \in BOOLEAN
  PROVE  /\ Channel(S, b) \in Chans
         /\ Channel(S, b).send_ctr = 0 /\ Channel(S, b).recv_ctr = 0
         /\ Channel(S, TRUE).send_key = <<S, "c2s">> /\ Channel(S, TRUE).recv_key = <<S, "s2c">>
         /\ Channel(S, FALSE).send_key = <<S, "s2c">> /\ Channel(S, FALSE).recv_key = <<S, "c2s">>
<1>1. S \in Secrets
  <2>1. ClientSecrets(c) \cup ServerSecrets(c) \subseteq Secrets
    BY Zenon DEF Secrets
  <2> QED BY <2>1
<1>2. <<S, "c2s">> \in Keys /\ <<S, "s2c">> \in Keys
  BY <1>1 DEF Keys
<1> QED BY <1>2 DEF Channel, Chans

(* The server thread answers the hello and derives its keys.               *)
LEMMA ServerRespondInv ==
  ASSUME IInv, NEW c \in Conns, NEW public \in Servers, ServerRespond(c, public)
  PROVE  IInv'
<1>0. /\ Types /\ ConnOK(c) /\ client[c] \in Clients /\ server[c] \in Threads
      /\ server[c].st = "accepted" /\ client[c].chan \in Chans /\ server[c].chan \in Chans
  BY ConnHas DEF ServerRespond
<1>1. PICK h \in Hellos(c) : toServer[c] = <<Hello(h)>>
  BY <1>0 DEF ConnOK, QueueInv
<1>2. /\ client[c].st = "hello" /\ toClient[c] = <<>> /\ client[c].chan = NoChannel
      /\ server[c].chan = NoChannel /\ server[c].id \in Servers
      /\ outcome[c] = <<>> /\ applied[c] = <<>> /\ served[c] = <<>>
      /\ NoChannel.recv_ctr = 0 /\ NoChannel.send_ctr = 0
  <2>1. client[c].st = "hello" /\ toClient[c] = <<>> /\ server[c].chan = NoChannel /\ server[c].id \in Servers
    BY <1>0 DEF ConnOK, KeyInv, QueueInv
  <2>2. client[c].chan = NoChannel /\ outcome[c] = <<>> /\ applied[c] = <<>>
    BY <1>0, <2>1 DEF ConnOK, KeyInv, OutcomeInv, StreamInv
  <2>3. NoChannel.recv_ctr = 0 /\ NoChannel.send_ctr = 0
    BY DEF NoChannel
  <2>4. Len(served[c]) = 0 /\ served[c] \in Seq([id : Ids, status : {"ok", "err"}])
    BY <1>0, <2>1, <2>3 DEF ConnOK, ServeInv, Types
  <2> QED BY <2>1, <2>2, <2>3, <2>4
<1> DEFINE S == server_respond(c, server[c].id, h)
           rep == server_hello(c, h)
<1>3. /\ Head(toServer[c]).hello = h /\ Tail(toServer[c]) = <<>>
      /\ Append(toClient[c], Reply(public, rep)) = <<Reply(public, rep)>>
  <2>1. Hello(h).hello = h
    BY DEF Hello
  <2>2. Head(toServer[c]) = Hello(h) /\ Tail(toServer[c]) = <<>>
    BY <1>1
  <2> HIDE DEF rep
  <2>3. Append(toClient[c], Reply(public, rep)) = <<Reply(public, rep)>>
    BY <1>2
  <2> QED BY <2>1, <2>2, <2>3
<1>4. S \in ServerSecrets(c) /\ rep \in Replies(c)
  BY <1>2 DEF ServerSecrets, Replies
<1>5. /\ server'[c] = [server[c] EXCEPT !.st = "serving", !.chan = Channel(S, FALSE)]
      /\ toServer'[c] = <<>> /\ toClient'[c] = <<Reply(public, rep)>>
      /\ UNCHANGED <<client, faults, inserted, sealed, served, outcome, applied>> /\ Others(c)
  BY <1>0, <1>3 DEF ServerRespond, Types, Others
<1> HIDE DEF S, rep
<1>6. Channel(S, FALSE) \in Chans /\ Channel(S, FALSE).send_ctr = 0 /\ Channel(S, FALSE).recv_ctr = 0
  BY <1>4, NewChannel
<1>7. /\ server'[c].st = "serving" /\ server'[c].id = server[c].id /\ server'[c].chan = Channel(S, FALSE)
      /\ server'[c] \in Threads
  BY <1>0, <1>5, <1>6 DEF Threads
<1>8. Types'
  <2>1. Reply(public, rep) \in Messages
    BY <1>4, HandshakeMessages
  <2>2. toServer'[c] \in Seq(Messages) /\ toClient'[c] \in Seq(Messages)
    BY <1>5, <2>1
  <2> QED BY <2>2, <1>0, <1>5, <1>7 DEF Types, ServerRespond
<1>9. ConnOK(c)'
  <2>1. ServerKey(c)'
    BY <1>2, <1>4, <1>7, NewChannel DEF ServerKey, S
  <2>2. KeyInv(c)'
    BY <1>2, <1>5, <1>7, <2>1 DEF KeyInv
  <2>3. Len(<<>>) = 0 /\ \A i : i \notin 1..0
    OBVIOUS
  <2>4. QueueInv(c)'
    BY <1>2, <1>4, <1>5, <1>7, <2>3 DEF QueueInv
  <2>5. ServeInv(c)' /\ StreamInv(c)' /\ FlightInv(c)' /\ PinInv(c)'
    <3>1. ServeInv(c)'
      <4>1. /\ client'[c].chan.send_ctr = 0 /\ client'[c].chan.recv_ctr = 0
            /\ server'[c].chan.send_ctr = 0 /\ server'[c].chan.recv_ctr = 0
            /\ Len(served'[c]) = 0 /\ server'[c].st = "serving"
        BY <1>2, <1>5, <1>6, <1>7, <2>3
      <4> QED BY <4>1, <2>3 DEF ServeInv
    <3>2. StreamInv(c)' /\ FlightInv(c)'
      BY <1>2, <1>5, <1>7, <2>3 DEF StreamInv, FlightInv
    <3>3. PinInv(c)'
      BY <1>2, <1>5, <1>7, <2>3 DEF PinInv
    <3> QED BY <3>1, <3>2, <3>3
  <2>6. OutcomeInv(c)'
    BY <1>2, <1>5, <1>7, <2>3 DEF OutcomeInv
  <2>7. AnswerInv(c)'
    BY <1>0, <1>5, AnswersStay DEF ConnOK
  <2> QED BY <2>2, <2>4, <2>5, <2>6, <2>7 DEF ConnOK
<1>10. \A f \in sealed : ~FromClient(f, c) /\ ~FromServer(f, c)
  BY <1>0, <1>2 DEF FromClient, FromServer, Types, Frames
<1> QED BY <1>5, <1>8, <1>9, <1>10, QuietStep

(* The client checks the announced key against its pin and derives its     *)
(* keys, or gives up.                                                      *)
LEMMA ClientFinishInv ==
  ASSUME IInv, NEW c \in Conns, ClientFinish(c)
  PROVE  IInv'
<1>0. /\ Types /\ ConnOK(c) /\ client[c] \in Clients /\ server[c] \in Threads
      /\ client[c].st = "hello" /\ toClient[c] # <<>> /\ client[c].chan \in Chans
      /\ server[c].chan.send_ctr \in Nat /\ server[c].chan.recv_ctr \in Nat
      /\ Len(served[c]) \in Nat
  BY ConnHas DEF ClientFinish
<1>1. PICK p \in Servers, r \in Replies(c) : toClient[c] = <<Reply(p, r)>>
  BY <1>0 DEF ConnOK, QueueInv
<1>2. /\ client[c].chan = NoChannel /\ server[c].st \notin {"new", "accepted"}
      /\ outcome[c] = <<>> /\ applied[c] = <<>> /\ Len(served[c]) = 0 /\ server[c].chan.recv_ctr = 0
      /\ NoChannel.recv_ctr = 0 /\ NoChannel.send_ctr = 0
  <2>1. client[c].chan = NoChannel /\ server[c].st \notin {"new", "accepted"}
    BY <1>0 DEF ConnOK, KeyInv, QueueInv
  <2>2. outcome[c] = <<>> /\ applied[c] = <<>>
    BY <1>0 DEF ConnOK, OutcomeInv, StreamInv
  <2>3. NoChannel.recv_ctr = 0 /\ NoChannel.send_ctr = 0
    BY DEF NoChannel
  <2>4. Len(served[c]) = 0 /\ server[c].chan.recv_ctr = 0
    BY <1>0, <2>1, <2>3 DEF ConnOK, ServeInv
  <2> QED BY <2>1, <2>2, <2>3, <2>4
<1> DEFINE S == client_finish(c, r, p)
<1>3. Head(toClient[c]).public = p /\ Head(toClient[c]).reply = r /\ Tail(toClient[c]) = <<>>
  <2>1. Head(toClient[c]) = Reply(p, r) /\ Tail(toClient[c]) = <<>>
    BY <1>1
  <2>2. Reply(p, r).public = p /\ Reply(p, r).reply = r
    BY DEF Reply
  <2> QED BY <2>1, <2>2
<1>4. S \in ClientSecrets(c)
  BY DEF ClientSecrets
<1>5. /\ client'[c] = IF client[c].pin \in {NoPin, p}
                      THEN [client[c] EXCEPT !.st = "ready", !.chan = Channel(S, TRUE)]
                      ELSE [client[c] EXCEPT !.st = "closed"]
      /\ toClient'[c] = <<>>
      /\ UNCHANGED <<server, toServer, faults, inserted, sealed, served, outcome, applied>> /\ Others(c)
  BY <1>0, <1>3 DEF ClientFinish, Types, Others
<1> HIDE DEF S
<1>6. Channel(S, TRUE) \in Chans /\ Channel(S, TRUE).send_ctr = 0 /\ Channel(S, TRUE).recv_ctr = 0
  BY <1>4, NewChannel
<1>7. /\ client'[c] \in Clients /\ client'[c].pin = client[c].pin
      /\ \/ /\ client'[c].st = "ready" /\ client'[c].chan = Channel(S, TRUE) /\ client[c].pin \in {NoPin, p}
         \/ client'[c].st = "closed" /\ client'[c].chan = NoChannel
      /\ client'[c].chan.send_ctr = 0 /\ client'[c].chan.recv_ctr = 0
  <2>1. CASE client[c].pin \in {NoPin, p}
    BY <1>0, <1>5, <1>6, <2>1 DEF Clients
  <2>2. CASE client[c].pin \notin {NoPin, p}
    BY <1>0, <1>2, <1>5, <2>2 DEF Clients
  <2> QED BY <2>1, <2>2
<1>8. Types'
  <2>1. toClient'[c] \in Seq(Messages)
    BY <1>5
  <2> QED BY <2>1, <1>0, <1>5, <1>7 DEF Types, ClientFinish
<1>9. ConnOK(c)'
  <2>1. client'[c].st = "ready" => ClientKey(c)'
    BY <1>4, <1>7, NewChannel, ZenonT(60) DEF ClientKey, S
  <2>2. KeyInv(c)'
    <3>1. KeyInv(c)
      BY <1>0 DEF ConnOK
    <3> QED BY <3>1, <1>2, <1>5, <1>7, <2>1 DEF KeyInv, ServerKey
  <2>3. Len(<<>>) = 0 /\ \A i : i \notin 1..0
    OBVIOUS
  <2>4. QueueInv(c)'
    BY <1>0, <1>2, <1>5, <1>7, <2>3 DEF ConnOK, QueueInv
  <2>5. ServeInv(c)'
    <3>1. server[c].st # "pushing"
      BY <1>0 DEF ConnOK, ServeInv
    <3> QED BY <1>0, <1>2, <1>5, <1>7, <2>3, <3>1 DEF ConnOK, ServeInv
  <2>6. StreamInv(c)' /\ FlightInv(c)'
    <3>1. StreamInv(c)'
      BY <1>2, <1>5, <1>7, <2>3 DEF StreamInv
    <3>2. FlightInv(c)'
      <4>1. Len(toClient'[c]) = 0 /\ client'[c].chan.recv_ctr = 0 /\ server'[c].chan.send_ctr \in Nat
        BY <1>0, <1>5, <1>7, <2>3
      <4> QED BY <4>1, <2>3 DEF FlightInv
    <3> QED BY <3>1, <3>2
  <2>7. OutcomeInv(c)' /\ AnswerInv(c)' /\ PinInv(c)'
    <3>1. OutcomeInv(c)' /\ AnswerInv(c)'
      <4>1. /\ outcome'[c] = <<>> /\ Len(outcome'[c]) = 0 /\ client'[c].st \in {"ready", "closed"}
            /\ client'[c].chan.recv_ctr = 0 /\ client'[c].chan.send_ctr = 0
        BY <1>2, <1>5, <1>7, <2>3
      <4>2. OutcomeInv(c)'
        BY <4>1, <2>3 DEF OutcomeInv
      <4>3. AnswerInv(c)'
        BY <4>1, <2>3 DEF AnswerInv
      <4> QED BY <4>2, <4>3
    <3>2. PinInv(c)'
      BY <1>0, <1>2, <1>5, <1>7, <2>3 DEF ConnOK, PinInv
    <3> QED BY <3>1, <3>2
  <2> QED BY <2>2, <2>4, <2>5, <2>6, <2>7 DEF ConnOK
<1>10. ASSUME NEW f \in sealed
       PROVE  ~FromClient(f, c) /\ (FromServer(f, c) => FromServer(f, c)')
  <2>1. f.ctr \in Nat
    BY <1>0 DEF Types, Frames
  <2>2. ~FromClient(f, c)
    BY <1>2, <2>1 DEF FromClient
  <2>3. FromServer(f, c) => FromServer(f, c)'
    BY <1>0, <1>5, <1>7 DEF FromServer
  <2> QED BY <2>2, <2>3
<1> QED BY <1>5, <1>8, <1>9, <1>10, QuietStep

-----------------------------------------------------------------------------
(* Requests and answers.                                                   *)

(* A sealed frame and the channel after it.                                *)
LEMMA SealHas ==
  ASSUME NEW chan \in Chans, NEW op \in Ops, NEW id \in Ids, NEW big \in BOOLEAN,
         NEW f, f = Seal(chan, [op |-> op, id |-> id], big)
  PROVE  /\ f \in Frames /\ f.kind = "sealed" /\ f.key = chan.send_key /\ f.ctr = chan.send_ctr
         /\ f.body.op = op /\ f.body.id = id /\ f.big = big
         /\ Sent(chan) \in Chans /\ Sent(chan).send_ctr = chan.send_ctr + 1
         /\ Sent(chan).send_key = chan.send_key
         /\ Sent(chan).recv_key = chan.recv_key /\ Sent(chan).recv_ctr = chan.recv_ctr
<1>1. chan.send_ctr \in Nat /\ chan.send_key \in Keys
  BY DEF Chans
<1>2. /\ Sent(chan) \in Chans /\ Sent(chan).send_ctr = chan.send_ctr + 1
      /\ Sent(chan).send_key = chan.send_key
      /\ Sent(chan).recv_key = chan.recv_key /\ Sent(chan).recv_ctr = chan.recv_ctr
  BY <1>1 DEF Sent, Chans
<1> QED BY <1>1, <1>2 DEF Seal, Frames

(* A fresh counter keeps nonces unique.                                    *)
LEMMA NonceStep ==
  ASSUME NonceNeverReused, NEW f, sealed' = sealed \cup {f},
         \A g \in sealed : g.key = f.key => g.ctr # f.ctr
  PROVE  NonceNeverReused'
BY DEF NonceNeverReused

(* roundtrip's first half, and follow's SUBSCRIBE.                         *)
LEMMA RequestInv ==
  ASSUME IInv, NEW c \in Conns, NEW op \in {"read", "write", "subscribe"}, NEW big \in BOOLEAN,
         Request(c, op, big)
  PROVE  IInv'
<1> DEFINE chan == client[c].chan
           id == <<c, Len(outcome[c]) + 1>>
           st == IF op = "subscribe" THEN "following" ELSE "waiting"
<1>f. PICK f : f = Seal(chan, [op |-> op, id |-> id], big)
  OBVIOUS
<1>0. /\ Types /\ ConnOK(c) /\ client[c] \in Clients /\ server[c] \in Threads /\ chan \in Chans
      /\ chan.send_ctr \in Nat /\ chan.recv_ctr \in Nat
      /\ server[c].chan.send_ctr \in Nat /\ server[c].chan.recv_ctr \in Nat
      /\ toServer[c] \in Seq(Messages) /\ toClient[c] \in Seq(Messages) /\ Len(outcome[c]) \in Nat
      /\ client[c].st = "ready" /\ (op = "subscribe" => chan.send_ctr = 0)
  BY ConnHas DEF Request
<1>1. /\ id \in Ids /\ op \in Ops /\ Len(outcome[c]) = chan.send_ctr /\ chan.recv_ctr <= Len(outcome[c])
      /\ server[c].st \notin {"new", "accepted", "pushing"} /\ ClientKey(c) /\ applied[c] = <<>>
  <2>1. id \in Ids /\ op \in Ops
    BY <1>0 DEF Ids, Ops
  <2>2. Len(outcome[c]) = chan.send_ctr /\ chan.recv_ctr <= Len(outcome[c]) /\ applied[c] = <<>>
    BY <1>0 DEF ConnOK, OutcomeInv, StreamInv
  <2>3. server[c].st \notin {"new", "accepted", "pushing"} /\ ClientKey(c)
    BY <1>0 DEF ConnOK, QueueInv, ServeInv, KeyInv
  <2> QED BY <2>1, <2>2, <2>3
<1>2. /\ toServer' = IF server[c].st = "closed" THEN toServer
                     ELSE [toServer EXCEPT ![c] = Append(@, f)]
      /\ sealed' = sealed \cup {f}
      /\ client'[c] = [client[c] EXCEPT !.st = st, !.chan = Sent(chan)]
      /\ UNCHANGED <<server, toClient, faults, inserted, served, outcome, applied>> /\ Others(c)
  BY <1>0, <1>f DEF Request, Types, Others
<1>3. /\ f \in Frames /\ f.kind = "sealed" /\ f.key = chan.send_key /\ f.ctr = chan.send_ctr
      /\ f.body.op = op /\ f.body.id = id
      /\ Sent(chan) \in Chans /\ Sent(chan).send_ctr = chan.send_ctr + 1
      /\ Sent(chan).send_key = chan.send_key
      /\ Sent(chan).recv_key = chan.recv_key /\ Sent(chan).recv_ctr = chan.recv_ctr
  <2>1. chan \in Chans /\ op \in Ops /\ id \in Ids
    BY <1>0, <1>1
  <2> HIDE DEF chan, id
  <2> QED BY <2>1, <1>f, SealHas
<1>4. /\ client'[c] \in Clients /\ client'[c].st = st /\ client'[c].pin = client[c].pin
      /\ client'[c].aligned = client[c].aligned /\ client'[c].chan = Sent(chan)
  BY <1>0, <1>2, <1>3 DEF Clients
<1>5. Types'
  <2>1. toServer' \in [Conns -> Seq(Messages)]
    <3>1. f \in Messages
      BY <1>3 DEF Messages
    <3>2. Append(toServer[c], f) \in Seq(Messages)
      BY <1>0, <3>1
    <3> QED BY <1>0, <1>2, <3>2 DEF Types
  <2> QED BY <2>1, <1>0, <1>2, <1>3, <1>4 DEF Types, Request
<1>6. ConnOK(c)'
  <2>1. KeyInv(c)'
    <3>1. ClientKey(c)'
      BY <1>1, <1>3, <1>4 DEF ClientKey
    <3> QED BY <1>0, <1>2, <1>4, <3>1 DEF ConnOK, KeyInv, ServerKey
  <2>2. QueueInv(c)'
    <3>1. ASSUME NEW i \in 1..Len(toServer'[c]) PROVE toServer'[c][i] \in sealed' \cup {Damaged}
      <4>1. \A j \in 1..Len(toServer[c]) : toServer[c][j] \in sealed \cup {Damaged}
        BY <1>0, <1>1 DEF ConnOK, QueueInv
      <4>2. CASE server[c].st = "closed"
        BY <4>1, <4>2, <1>2
      <4>3. CASE server[c].st # "closed"
        <5>1. toServer'[c] = Append(toServer[c], f)
          BY <4>3, <1>0, <1>2 DEF Types
        <5>2. (i \in 1..Len(toServer[c]) /\ toServer'[c][i] = toServer[c][i]) \/ toServer'[c][i] = f
          BY <5>1, <1>0
        <5> QED BY <5>2, <4>1, <1>2
      <4> QED BY <4>2, <4>3
    <3>2. \A i \in 1..Len(toClient[c]) : toClient[c][i] \in sealed \cup {Damaged}
      BY <1>0 DEF ConnOK, QueueInv
    <3> QED BY <1>1, <1>2, <1>4, <3>1, <3>2 DEF QueueInv
  <2>3. ServeInv(c)'
    BY <1>0, <1>1, <1>2, <1>3, <1>4 DEF ConnOK, ServeInv
  <2>4. Len(<<>>) = 0 /\ \A i : i \notin 1..0
    OBVIOUS
  <2>5. StreamInv(c)'
    BY <1>0, <1>1, <1>2, <1>3, <1>4, <2>4 DEF StreamInv
  <2>6. FlightInv(c)' /\ PinInv(c)'
    BY <1>0, <1>2, <1>3, <1>4 DEF ConnOK, FlightInv, PinInv
  <2>7. OutcomeInv(c)'
    <3>1. op = "subscribe" => outcome[c] = <<>>
      <4>1. outcome[c] \in Seq([status : Ops \cup {"io"}, answer : Ids \cup {<<>>}])
        BY <1>0 DEF Types
      <4> QED BY <4>1, <1>0, <1>1
    <3>2. Doomed(c) => Doomed(c)'
      BY <1>2, <1>3, <1>4 DEF Doomed
    <3>3. OutcomeInv(c)
      BY <1>0 DEF ConnOK
    <3>4. /\ outcome'[c] = outcome[c] /\ served'[c] = served[c] /\ client'[c].st = st
          /\ client'[c].chan.send_ctr = chan.send_ctr + 1 /\ client'[c].chan.recv_ctr = chan.recv_ctr
      BY <1>2, <1>3, <1>4
    <3>5. /\ client'[c].st \notin {"ready", "waiting"} => outcome'[c] = <<>>
          /\ client'[c].st # "ready"
          /\ client'[c].st = "waiting" => Len(outcome'[c]) + 1 = client'[c].chan.send_ctr
          /\ client'[c].chan.recv_ctr <= Len(outcome'[c])
      BY <1>0, <1>1, <3>1, <3>4
    <3>6. (c \notin inserted /\ \A i \in 1..Len(outcome'[c]) : outcome'[c][i].status # "io") =>
             client'[c].chan.recv_ctr = Len(outcome'[c])
      BY <1>0, <3>3, <3>4 DEF OutcomeInv
    <3>7. inserted' = inserted
      BY <1>2
    <3> QED BY <3>2, <3>3, <3>4, <3>5, <3>6, <3>7 DEF OutcomeInv
  <2>8. AnswerInv(c)'
    BY <1>0, <1>2, <1>3, <1>4, AnswersStay DEF ConnOK
  <2> QED BY <2>1, <2>2, <2>3, <2>5, <2>6, <2>7, <2>8 DEF ConnOK
<1>7. \A g \in sealed : FromClient(g, c) => FromClient(g, c)'
  <2> SUFFICES ASSUME NEW g \in sealed, FromClient(g, c) PROVE FromClient(g, c)'
    OBVIOUS
  <2>1. g.ctr \in Nat
    BY <1>0 DEF Types, Frames
  <2> QED BY <1>0, <1>3, <1>4, <2>1 DEF FromClient
<1>8. \A g \in sealed : FromServer(g, c) => FromServer(g, c)'
  BY <1>0, <1>2, <1>4 DEF FromServer
<1>9. FromClient(f, c)'
  BY <1>0, <1>1, <1>3, <1>4 DEF FromClient
<1>10. NonceNeverReused'
  <2>1. ASSUME NEW g \in sealed, g.key = f.key PROVE g.ctr # f.ctr
    <3>1. FromClient(g, c)
      BY <1>1, <1>3, <2>1, OwnFrames
    <3>2. g.ctr \in Nat
      BY <1>0 DEF Types, Frames
    <3> QED BY <1>0, <1>3, <3>1, <3>2 DEF FromClient
  <2> QED BY <2>1, <1>2, NonceStep DEF IInv
<1>11. \A g \in sealed' : g \in sealed \/ Fresh(g, c)
  BY <1>1, <1>2, <1>3, <1>9 DEF Fresh
<1> QED BY <1>2, <1>5, <1>6, <1>7, <1>8, <1>10, <1>11, LocalStep

(* The frame in front and the queue behind it.                             *)
LEMMA TailHas ==
  ASSUME NEW S, NEW q \in Seq(S), q # <<>>
  PROVE  /\ Len(q) \in Nat /\ Len(q) > 0 /\ Head(q) = q[1] /\ Head(q) \in S
         /\ Tail(q) \in Seq(S) /\ Len(Tail(q)) = Len(q) - 1
         /\ \A i \in 1..Len(Tail(q)) : i + 1 \in 1..Len(q) /\ Tail(q)[i] = q[i + 1]
<1>1. Len(q) \in Nat /\ Len(q) > 0
  OBVIOUS
<1> QED BY <1>1

(* A queue with one more message.                                          *)
LEMMA AppendHas ==
  ASSUME NEW S, NEW q \in Seq(S), NEW x \in S
  PROVE  /\ Append(q, x) \in Seq(S) /\ Len(q) \in Nat /\ Len(Append(q, x)) = Len(q) + 1
         /\ Append(q, x)[Len(q) + 1] = x
         /\ \A i \in 1..Len(q) : Append(q, x)[i] = q[i]
         /\ \A i \in 1..(Len(q) + 1) : i \in 1..Len(q) \/ i = Len(q) + 1
OBVIOUS

(* A frame that opens was sealed; the receiver counts it.                  *)
LEMMA OpensHas ==
  ASSUME NEW chan \in Chans, NEW m \in sealed \cup {Damaged}, Opens(chan, m)
  PROVE  /\ m \in sealed /\ m.key = chan.recv_key /\ m.ctr = chan.recv_ctr
         /\ Received(chan, m) \in Chans /\ Received(chan, m).recv_ctr = chan.recv_ctr + 1
         /\ Received(chan, m).send_ctr = chan.send_ctr
         /\ Received(chan, m).send_key = chan.send_key
         /\ Received(chan, m).recv_key = chan.recv_key
<1>1. m.kind = "sealed" /\ m.key = chan.recv_key /\ m.ctr = chan.recv_ctr
  BY DEF Opens
<1>2. m # Damaged
  BY <1>1 DEF Damaged
<1>3. Received(chan, m) = [chan EXCEPT !.recv_ctr = @ + 1]
  BY DEF Received
<1> QED BY <1>1, <1>2, <1>3 DEF Chans

(* One turn of handle_connection's loop.                                   *)
LEMMA ServeStepInv ==
  ASSUME IInv, NEW c \in Conns, NEW status \in {"ok", "err"}, NEW big \in BOOLEAN,
         Serve(c, status, big)
  PROVE  IInv'
<1> DEFINE chan == server[c].chan
<1>f. PICK f : f = Head(toServer[c])
  OBVIOUS
<1>a. PICK a : a = Seal(Received(chan, f), [op |-> status, id |-> f.body.id], big)
  OBVIOUS
<1>e. PICK e : e = [id |-> f.body.id, status |-> status]
  OBVIOUS
<1>0. /\ Types /\ ConnOK(c) /\ client[c] \in Clients /\ server[c] \in Threads /\ chan \in Chans
      /\ client[c].chan.send_ctr \in Nat /\ client[c].chan.recv_ctr \in Nat
      /\ chan.send_ctr \in Nat /\ chan.recv_ctr \in Nat
      /\ toServer[c] \in Seq(Messages) /\ toClient[c] \in Seq(Messages)
      /\ Len(outcome[c]) \in Nat /\ Len(served[c]) \in Nat
      /\ server[c].st = "serving" /\ toServer[c] # <<>> /\ Opens(chan, f)
  BY <1>f, ConnHas DEF Serve
<1>1. /\ Len(served[c]) = chan.recv_ctr /\ Len(served[c]) = chan.send_ctr /\ ServerKey(c)
      /\ f \in sealed \cup {Damaged}
  <2>1. /\ Len(served[c]) = chan.recv_ctr /\ Len(served[c]) = chan.send_ctr /\ ServerKey(c)
        /\ \A i \in 1..Len(toServer[c]) : toServer[c][i] \in sealed \cup {Damaged}
    BY <1>0 DEF ConnOK, ServeInv, KeyInv, QueueInv
  <2>2. f = toServer[c][1] /\ 1 \in 1..Len(toServer[c])
    BY <1>0, <1>f, TailHas
  <2> QED BY <2>1, <2>2
<1>2. /\ f \in sealed /\ f.key = chan.recv_key /\ f.ctr = chan.recv_ctr /\ f \in Frames
      /\ Received(chan, f) \in Chans /\ Received(chan, f).recv_ctr = chan.recv_ctr + 1
      /\ Received(chan, f).send_ctr = chan.send_ctr
      /\ Received(chan, f).send_key = chan.send_key
      /\ Received(chan, f).recv_key = chan.recv_key
  BY <1>0, <1>1, OpensHas DEF Types
<1>3. /\ FromClient(f, c) /\ ClientKey(c) /\ f.body.id = <<c, chan.recv_ctr + 1>>
      /\ chan.recv_ctr < client[c].chan.send_ctr /\ f.body.id \in Ids
      /\ client[c].st \notin {"new", "hello"} /\ client[c].pin \in {NoPin, server[c].id}
  <2>1. FromClient(f, c) /\ ClientKey(c)
    BY <1>1, <1>2, OpenedByServer
  <2>2. f.body.id = <<c, chan.recv_ctr + 1>> /\ chan.recv_ctr < client[c].chan.send_ctr
    BY <2>1, <1>2 DEF FromClient
  <2>3. client[c].chan # NoChannel
    BY <1>0, <2>2 DEF NoChannel
  <2>4. client[c].st \notin {"new", "hello"}
    BY <1>0, <2>3 DEF ConnOK, KeyInv
  <2>5. client[c].pin \in {NoPin, server[c].id}
    BY <1>1, <1>2, <2>1, SharedKey DEF FromClient
  <2> QED BY <1>2, <2>1, <2>2, <2>4, <2>5 DEF Frames
<1> DEFINE new == Sent(Received(chan, f))
<1>4. /\ a \in Frames /\ a.kind = "sealed" /\ a.key = chan.send_key /\ a.ctr = chan.send_ctr
      /\ a.body.op = status /\ a.body.id = f.body.id
      /\ new \in Chans /\ new.send_ctr = chan.send_ctr + 1 /\ new.recv_ctr = chan.recv_ctr + 1
      /\ new.send_key = chan.send_key /\ new.recv_key = chan.recv_key
  <2> DEFINE mid == Received(chan, f)
             id == f.body.id
  <2>1. mid \in Chans /\ status \in Ops /\ id \in Ids /\ a = Seal(mid, [op |-> status, id |-> id], big)
    BY <1>2, <1>3, <1>a DEF Ops
  <2>2. /\ mid.recv_ctr = chan.recv_ctr + 1 /\ mid.send_ctr = chan.send_ctr
        /\ mid.send_key = chan.send_key /\ mid.recv_key = chan.recv_key /\ new = Sent(mid)
    BY <1>2
  <2> HIDE DEF mid, id, new
  <2>3. /\ a \in Frames /\ a.kind = "sealed" /\ a.key = mid.send_key /\ a.ctr = mid.send_ctr
        /\ a.body.op = status /\ a.body.id = id
        /\ Sent(mid) \in Chans /\ Sent(mid).send_ctr = mid.send_ctr + 1
        /\ Sent(mid).send_key = mid.send_key
        /\ Sent(mid).recv_key = mid.recv_key /\ Sent(mid).recv_ctr = mid.recv_ctr
    BY <2>1, SealHas
  <2> QED BY <2>2, <2>3 DEF id
<1>5. /\ served'[c] = Append(served[c], e) /\ server'[c] = [server[c] EXCEPT !.chan = new]
      /\ toClient'[c] = Append(toClient[c], a) /\ toServer'[c] = Tail(toServer[c])
      /\ sealed' = sealed \cup {a}
      /\ UNCHANGED <<client, faults, inserted, outcome, applied>> /\ Others(c)
  BY <1>0, <1>f, <1>a, <1>e DEF Serve, Types, Others
<1> HIDE DEF new
<1>6. /\ server'[c] \in Threads /\ server'[c].st = "serving" /\ server'[c].id = server[c].id
      /\ server'[c].chan = new
  BY <1>0, <1>4, <1>5 DEF Threads
<1>7. /\ e \in [id : Ids, status : {"ok", "err"}] /\ served[c] \in Seq([id : Ids, status : {"ok", "err"}])
      /\ e.id = f.body.id /\ a \in Messages
  BY <1>0, <1>3, <1>4, <1>e DEF Types, Messages
<1>8. /\ served'[c] \in Seq([id : Ids, status : {"ok", "err"}]) /\ Len(served'[c]) = Len(served[c]) + 1
      /\ served'[c][Len(served[c]) + 1] = e
      /\ \A i \in 1..Len(served[c]) : served'[c][i] = served[c][i]
      /\ \A i \in 1..(Len(served[c]) + 1) : i \in 1..Len(served[c]) \/ i = Len(served[c]) + 1
  BY <1>5, <1>7, AppendHas
<1>9. /\ toClient'[c] \in Seq(Messages) /\ Len(toClient'[c]) = Len(toClient[c]) + 1
      /\ toClient'[c][Len(toClient[c]) + 1] = a /\ Len(toClient[c]) \in Nat
      /\ \A i \in 1..Len(toClient[c]) : toClient'[c][i] = toClient[c][i]
      /\ \A i \in 1..(Len(toClient[c]) + 1) : i \in 1..Len(toClient[c]) \/ i = Len(toClient[c]) + 1
  BY <1>0, <1>5, <1>7, AppendHas
<1>10. /\ toServer'[c] \in Seq(Messages)
       /\ \A i \in 1..Len(toServer'[c]) :
            i + 1 \in 1..Len(toServer[c]) /\ toServer'[c][i] = toServer[c][i + 1]
  BY <1>0, <1>5, TailHas
<1>11. Types'
  BY <1>0, <1>4, <1>5, <1>6, <1>8, <1>9, <1>10 DEF Types, Serve
<1>n. /\ client[c].chan.send_ctr \in Nat /\ client[c].chan.recv_ctr \in Nat
      /\ chan.send_ctr \in Nat /\ chan.recv_ctr \in Nat /\ a.ctr = chan.send_ctr
      /\ Len(toClient[c]) \in Nat /\ Len(served[c]) \in Nat
      /\ new.send_ctr = chan.send_ctr + 1 /\ new.recv_ctr = chan.recv_ctr + 1
      /\ Len(toClient'[c]) = Len(toClient[c]) + 1 /\ Len(served'[c]) = Len(served[c]) + 1
      /\ Len(served[c]) = chan.recv_ctr /\ Len(served[c]) = chan.send_ctr
      /\ chan.recv_ctr < client[c].chan.send_ctr
  BY <1>0, <1>1, <1>3, <1>4, <1>8, <1>9
<1>12. ConnOK(c)'
  <2>1. KeyInv(c)'
    <3>1. ServerKey(c)'
      BY <1>1, <1>4, <1>6 DEF ServerKey
    <3>2. ClientKey(c)'
      BY <1>3, <1>5 DEF ClientKey
    <3> QED BY <1>3, <1>5, <1>6, <3>1, <3>2, <1>0 DEF ConnOK, KeyInv
  <2>2. QueueInv(c)'
    <3>1. \A i \in 1..Len(toServer[c]) : toServer[c][i] \in sealed \cup {Damaged}
      BY <1>0 DEF ConnOK, QueueInv
    <3>2. \A i \in 1..Len(toServer'[c]) : toServer'[c][i] \in sealed' \cup {Damaged}
      BY <1>5, <1>10, <3>1
    <3>3. \A i \in 1..Len(toClient[c]) : toClient[c][i] \in sealed \cup {Damaged}
      BY <1>0, <1>3 DEF ConnOK, QueueInv
    <3>4. \A i \in 1..Len(toClient'[c]) : toClient'[c][i] \in sealed' \cup {Damaged}
      BY <1>5, <1>9, <3>3
    <3> QED BY <1>3, <1>5, <1>6, <3>2, <3>4 DEF QueueInv
  <2>3. ServeInv(c)'
    <3>1. \A i \in 1..Len(served'[c]) : served'[c][i].id = <<c, i>>
      <4>1. \A i \in 1..Len(served[c]) : served[c][i].id = <<c, i>>
        BY <1>0 DEF ConnOK, ServeInv
      <4> QED BY <4>1, <1>1, <1>3, <1>7, <1>8
    <3>2. /\ server'[c].chan.send_ctr = chan.send_ctr + 1 /\ server'[c].chan.recv_ctr = chan.recv_ctr + 1
          /\ client'[c].chan.recv_ctr = client[c].chan.recv_ctr /\ client[c].chan.recv_ctr <= chan.send_ctr
          /\ client'[c].chan.send_ctr = client[c].chan.send_ctr
      BY <1>0, <1>4, <1>5, <1>6 DEF ConnOK, ServeInv
    <3>3. /\ Len(served'[c]) = server'[c].chan.recv_ctr /\ Len(served'[c]) = server'[c].chan.send_ctr
          /\ client'[c].chan.recv_ctr <= server'[c].chan.send_ctr
          /\ server'[c].chan.recv_ctr <= client'[c].chan.send_ctr
          /\ Len(served'[c]) <= server'[c].chan.recv_ctr
      <4>1. /\ Len(served[c]) + 1 = chan.recv_ctr + 1 /\ Len(served[c]) + 1 = chan.send_ctr + 1
            /\ client[c].chan.recv_ctr <= chan.send_ctr + 1
            /\ chan.recv_ctr + 1 <= client[c].chan.send_ctr
            /\ Len(served[c]) + 1 <= chan.recv_ctr + 1
        BY <1>n, <3>2, SMTT(30)
      <4> QED BY <4>1, <1>n, <3>2
    <3> QED BY <1>6, <3>1, <3>3 DEF ServeInv
  <2>4. StreamInv(c)'
    BY <1>0, <1>5 DEF ConnOK, StreamInv
  <2>5. FlightInv(c)'
    <3> SUFFICES ASSUME client[c].st \in {"ready", "waiting"}, c \notin inserted
                 PROVE  /\ client[c].chan.recv_ctr + Len(toClient'[c]) <= new.send_ctr
                        /\ \A i \in 1..Len(toClient'[c]) : toClient'[c][i] # Damaged =>
                             /\ toClient'[c][i].key = new.send_key
                             /\ toClient'[c][i].ctr + Len(toClient'[c]) + 1 = new.send_ctr + i
      BY <1>5, <1>6 DEF FlightInv
    <3>1. /\ client[c].chan.recv_ctr + Len(toClient[c]) <= chan.send_ctr
          /\ \A i \in 1..Len(toClient[c]) : toClient[c][i] # Damaged =>
               /\ toClient[c][i].key = chan.send_key
               /\ toClient[c][i].ctr + Len(toClient[c]) + 1 = chan.send_ctr + i
      BY <1>0 DEF ConnOK, FlightInv
    <3>2. \A i \in 1..Len(toClient[c]) : toClient[c][i] # Damaged => toClient[c][i].ctr \in Nat
      BY <1>0, <1>3 DEF ConnOK, QueueInv, Types, Frames
    <3>3. client[c].chan.recv_ctr + Len(toClient'[c]) <= new.send_ctr
      BY <1>n, <3>1, SMTT(30)
    <3>4. ASSUME NEW i \in 1..Len(toClient'[c]), toClient'[c][i] # Damaged
          PROVE  /\ toClient'[c][i].key = new.send_key
                 /\ toClient'[c][i].ctr + Len(toClient'[c]) + 1 = new.send_ctr + i
      <4>1. CASE i \in 1..Len(toClient[c])
        <5>1. toClient'[c][i] = toClient[c][i] /\ toClient[c][i].ctr \in Nat
          BY <1>9, <3>2, <3>4, <4>1
        <5>2. toClient[c][i].key = chan.send_key /\ toClient[c][i].ctr + Len(toClient[c]) + 1 = chan.send_ctr + i
          BY <3>1, <3>4, <4>1, <5>1
        <5>3. toClient[c][i].ctr + Len(toClient'[c]) + 1 = new.send_ctr + i
          <6>1. PICK x \in Nat, l \in Nat, n \in Nat :
                  x = toClient[c][i].ctr /\ l = Len(toClient[c]) /\ n = chan.send_ctr
            BY <5>1, <1>n
          <6>2. x + l + 1 = n + i /\ i \in Nat
            BY <5>2, <6>1, <4>1
          <6>3. x + (l + 1) + 1 = (n + 1) + i
            BY <6>2
          <6> QED BY <6>1, <6>3, <1>n
        <5> QED BY <5>1, <5>2, <5>3, <1>4
      <4>2. CASE i = Len(toClient[c]) + 1
        <5>1. toClient'[c][i] = a /\ a.key = new.send_key
          BY <1>4, <1>9, <4>2
        <5>2. a.ctr + Len(toClient'[c]) + 1 = new.send_ctr + i
          BY <1>n, <4>2
        <5> QED BY <5>1, <5>2
      <4> QED BY <1>9, <4>1, <4>2
    <3> QED BY <3>3, <3>4
  <2>6. OutcomeInv(c)'
    <3>1. OutcomeInv(c)
      BY <1>0 DEF ConnOK
    <3>2. Doomed(c) => Doomed(c)'
      <4>1. client'[c] = client[c] /\ server'[c].chan.send_ctr = chan.send_ctr + 1
        BY <1>4, <1>5, <1>6
      <4>2. client[c].chan.recv_ctr + Len(toClient[c]) < chan.send_ctr
              => client'[c].chan.recv_ctr + Len(toClient'[c]) < server'[c].chan.send_ctr
        BY <1>0, <1>9, <4>1, SMTT(30)
      <4> QED BY <1>0, <4>1, <4>2 DEF Doomed
    <3> QED BY <1>5, <3>1, <3>2 DEF OutcomeInv
  <2>8. AnswerInv(c)'
    <3>1. AnswerInv(c) /\ client' = client /\ outcome' = outcome /\ inserted' = inserted
      BY <1>0, <1>5 DEF ConnOK
    <3>2. ASSUME NEW i \in 1..Len(outcome[c]), NEW k \in 1..i, Answered(c, i, k)
          PROVE  Answered(c, i, k)'
      <4>1. k \in 1..Len(served[c]) /\ k <= Len(served'[c])
        BY <1>0, <1>8, <3>2 DEF Answered
      <4>2. served'[c][k] = served[c][k]
        BY <4>1, <1>8
      <4> QED BY <3>1, <3>2, <4>1, <4>2 DEF Answered
    <3> QED BY <3>1, <3>2 DEF AnswerInv
  <2>7. PinInv(c)'
    BY <1>3, <1>5, <1>6 DEF PinInv
  <2> QED BY <2>1, <2>2, <2>3, <2>4, <2>5, <2>6, <2>7, <2>8 DEF ConnOK
<1>13. \A g \in sealed : FromClient(g, c) => FromClient(g, c)'
  BY <1>5 DEF FromClient
<1>14. \A g \in sealed : FromServer(g, c) => FromServer(g, c)'
  <2> SUFFICES ASSUME NEW g \in sealed, FromServer(g, c) PROVE FromServer(g, c)'
    OBVIOUS
  <2>1. g.ctr \in Nat
    BY <1>0 DEF Types, Frames
  <2>2. g.ctr + 1 <= Len(served[c]) => g.ctr + 1 \in 1..Len(served[c])
    BY <1>0, <2>1
  <2> QED BY <1>0, <1>4, <1>5, <1>6, <1>8, <2>1, <2>2, SMTT(30) DEF FromServer
<1>15. FromServer(a, c)'
  <2>1. /\ a.key = server'[c].chan.send_key /\ a.ctr < server'[c].chan.send_ctr
        /\ a.body.id = <<c, a.ctr + 1>> /\ a.body.op # "record"
    <3>1. chan.send_ctr < new.send_ctr /\ chan.recv_ctr + 1 = a.ctr + 1
      BY <1>n
    <3> QED BY <1>3, <1>4, <1>6, <3>1
  <2>2. a.ctr + 1 <= Len(served'[c]) /\ served'[c][a.ctr + 1] = e
    BY <1>0, <1>1, <1>4, <1>8
  <2>3. e = [id |-> a.body.id, status |-> a.body.op]
    BY <1>4, <1>e
  <2> QED BY <2>1, <2>2, <2>3 DEF FromServer
<1>16. NonceNeverReused'
  <2>1. ASSUME NEW g \in sealed, g.key = a.key PROVE g.ctr # a.ctr
    <3>1. FromServer(g, c)
      BY <1>1, <1>4, <2>1, OwnFrames
    <3>2. g.ctr \in Nat
      BY <1>0 DEF Types, Frames
    <3> QED BY <1>0, <1>4, <3>1, <3>2 DEF FromServer
  <2> QED BY <2>1, <1>5, NonceStep DEF IInv
<1>17. \A g \in sealed' : g \in sealed \/ Fresh(g, c)
  BY <1>1, <1>4, <1>5, <1>15 DEF Fresh
<1> QED BY <1>5, <1>11, <1>12, <1>13, <1>14, <1>16, <1>17, LocalStep

(* The server thread ends, on a frame it cannot read or because the        *)
(* connection was cut.                                                     *)
LEMMA ServerEndsInv ==
  ASSUME IInv, NEW c \in Conns, ServeEnds(c) \/ CutOff(c)
  PROVE  IInv'
<1>0. /\ Types /\ ConnOK(c) /\ client[c] \in Clients /\ server[c] \in Threads
      /\ client[c].chan.recv_ctr \in Nat /\ server[c].chan.send_ctr \in Nat
      /\ toClient[c] \in Seq(Messages) /\ server[c].st \notin {"new", "closed"}
  BY ConnHas DEF ServeEnds, CutOff
<1>1. /\ server'[c] = [server[c] EXCEPT !.st = "closed"] /\ toServer'[c] = <<>>
      /\ \/ toClient'[c] = toClient[c] /\ server[c].st = "serving"
         \/ toClient'[c] = <<>>
      /\ UNCHANGED <<client, inserted, sealed, served, outcome, applied>> /\ Others(c)
  BY <1>0 DEF ServeEnds, CutOff, Types, Others
<1>2. /\ server'[c] \in Threads /\ server'[c].st = "closed" /\ server'[c].id = server[c].id
      /\ server'[c].chan = server[c].chan
  BY <1>0, <1>1 DEF Threads
<1>3. toClient'[c] \in Seq(Messages) /\ toServer'[c] \in Seq(Messages)
  <2>1. <<>> \in Seq(Messages)
    OBVIOUS
  <2> QED BY <1>0, <1>1, <2>1
<1>4. Types'
  BY <1>0, <1>1, <1>2, <1>3 DEF Types, ServeEnds, CutOff
<1>5. Len(<<>>) = 0 /\ \A i : i \notin 1..0
  OBVIOUS
<1>6. ConnOK(c)'
  <2>1. KeyInv(c)'
    BY <1>0, <1>1, <1>2 DEF ConnOK, KeyInv, ClientKey, ServerKey
  <2>2. QueueInv(c)'
    BY <1>0, <1>1, <1>2, <1>5 DEF ConnOK, QueueInv
  <2>3. ServeInv(c)'
    BY <1>0, <1>1, <1>2 DEF ConnOK, ServeInv
  <2>4. StreamInv(c)' /\ PinInv(c)'
    BY <1>0, <1>1, <1>2 DEF ConnOK, StreamInv, PinInv
  <2>5. FlightInv(c)'
    <3>1. CASE toClient'[c] = toClient[c]
      BY <1>0, <1>1, <1>2, <3>1 DEF ConnOK, FlightInv
    <3>2. CASE toClient'[c] = <<>>
      <4>1. client[c].chan.recv_ctr + 0 <= server[c].chan.send_ctr
        BY <1>0 DEF ConnOK, ServeInv
      <4> QED BY <1>1, <1>2, <1>5, <3>2, <4>1 DEF FlightInv
    <3> QED BY <1>1, <3>1, <3>2
  <2>6. OutcomeInv(c)'
    <3>1. Doomed(c) => Doomed(c)'
      BY <1>0, <1>1, <1>2 DEF Doomed
    <3> QED BY <1>0, <1>1, <3>1 DEF ConnOK, OutcomeInv
  <2>7. AnswerInv(c)'
    BY <1>0, <1>1, AnswersStay DEF ConnOK
  <2> QED BY <2>1, <2>2, <2>3, <2>4, <2>5, <2>6, <2>7 DEF ConnOK
<1>7. \A f \in sealed : /\ FromClient(f, c) => FromClient(f, c)'
                        /\ FromServer(f, c) => FromServer(f, c)'
  BY <1>1, <1>2 DEF FromClient, FromServer
<1> QED BY <1>1, <1>4, <1>6, <1>7, QuietStep

(* SUBSCRIBE is the first request of its connection, so the stream starts  *)
(* with nothing sealed.                                                    *)
LEMMA SubscribeInv ==
  ASSUME IInv, NEW c \in Conns, Subscribe(c)
  PROVE  IInv'
<1> DEFINE chan == server[c].chan
           new == Received(chan, Head(toServer[c]))
<1>f. PICK f : f = Head(toServer[c])
  OBVIOUS
<1>0. /\ Types /\ ConnOK(c) /\ client[c] \in Clients /\ server[c] \in Threads /\ chan \in Chans
      /\ client[c].chan.send_ctr \in Nat /\ client[c].chan.recv_ctr \in Nat
      /\ chan.send_ctr \in Nat /\ chan.recv_ctr \in Nat /\ Len(served[c]) \in Nat
      /\ toServer[c] \in Seq(Messages) /\ toClient[c] \in Seq(Messages)
      /\ server[c].st = "serving" /\ toServer[c] # <<>> /\ Opens(chan, f) /\ f.body.op = "subscribe"
  BY <1>f, ConnHas DEF Subscribe
<1>1. /\ Len(served[c]) = chan.recv_ctr /\ Len(served[c]) = chan.send_ctr /\ ServerKey(c)
      /\ f \in sealed \cup {Damaged}
  <2>1. /\ Len(served[c]) = chan.recv_ctr /\ Len(served[c]) = chan.send_ctr /\ ServerKey(c)
        /\ \A i \in 1..Len(toServer[c]) : toServer[c][i] \in sealed \cup {Damaged}
    BY <1>0 DEF ConnOK, ServeInv, KeyInv, QueueInv
  <2>2. f = toServer[c][1] /\ 1 \in 1..Len(toServer[c])
    BY <1>0, <1>f, TailHas
  <2> QED BY <2>1, <2>2
<1>2. /\ f \in sealed /\ f.key = chan.recv_key /\ f.ctr = chan.recv_ctr
      /\ new \in Chans /\ new.recv_ctr = chan.recv_ctr + 1 /\ new.send_ctr = chan.send_ctr
      /\ new.send_key = chan.send_key /\ new.recv_key = chan.recv_key
  BY <1>0, <1>1, <1>f, OpensHas
<1>3. /\ chan.recv_ctr = 0 /\ chan.send_ctr = 0 /\ Len(served[c]) = 0
      /\ client[c].st \in {"following", "closed"} /\ 1 <= client[c].chan.send_ctr
  <2>1. FromClient(f, c)
    BY <1>1, <1>2, OpenedByServer
  <2>2. /\ chan.recv_ctr = 0 /\ 0 < client[c].chan.send_ctr /\ client[c].st \in {"following", "closed"}
    BY <1>0, <1>2, <2>1 DEF FromClient
  <2>3. 1 <= client[c].chan.send_ctr
    BY <1>0, <2>2
  <2> QED BY <1>1, <2>2, <2>3
<1>4. /\ server'[c] = [server[c] EXCEPT !.st = "pushing", !.chan = new]
      /\ toServer'[c] = Tail(toServer[c])
      /\ UNCHANGED <<client, toClient, faults, inserted, sealed, served, outcome, applied>> /\ Others(c)
  BY <1>0 DEF Subscribe, Types, Others
<1> HIDE DEF new
<1>5. /\ server'[c] \in Threads /\ server'[c].st = "pushing" /\ server'[c].id = server[c].id
      /\ server'[c].chan = new
  BY <1>0, <1>2, <1>4 DEF Threads
<1>6. /\ toServer'[c] \in Seq(Messages)
      /\ \A i \in 1..Len(toServer'[c]) :
           i + 1 \in 1..Len(toServer[c]) /\ toServer'[c][i] = toServer[c][i + 1]
  BY <1>0, <1>4, TailHas
<1>7. Types'
  BY <1>0, <1>4, <1>5, <1>6 DEF Types, Subscribe
<1>8. ConnOK(c)'
  <2>1. KeyInv(c)'
    <3>1. ServerKey(c)'
      BY <1>1, <1>2, <1>5 DEF ServerKey
    <3> QED BY <1>0, <1>4, <1>5, <3>1 DEF ConnOK, KeyInv, ClientKey
  <2>2. QueueInv(c)'
    <3>1. \A i \in 1..Len(toServer[c]) : toServer[c][i] \in sealed \cup {Damaged}
      BY <1>0 DEF ConnOK, QueueInv
    <3>2. \A i \in 1..Len(toServer'[c]) : toServer'[c][i] \in sealed' \cup {Damaged}
      BY <1>4, <1>6, <3>1
    <3> QED BY <1>0, <1>3, <1>4, <1>5, <3>2 DEF ConnOK, QueueInv
  <2>3. ServeInv(c)'
    <3>1. Records(c)' = {}
      <4> SUFFICES ASSUME NEW g \in sealed, g.key = chan.send_key PROVE FALSE
        BY <1>2, <1>4, <1>5 DEF Records
      <4>1. FromServer(g, c)
        BY <1>1, OwnFrames
      <4>2. g.ctr \in Nat
        BY <1>0 DEF Types, Frames
      <4> QED BY <1>3, <4>1, <4>2 DEF FromServer
    <3>2. IsFiniteSet({}) /\ Cardinality({}) = 0
      BY FS_EmptySet
    <3>3. /\ server'[c].chan.send_ctr = 0 /\ server'[c].chan.recv_ctr = 1
          /\ client'[c].st = client[c].st /\ served'[c] = served[c]
          /\ client'[c].chan.recv_ctr = client[c].chan.recv_ctr
          /\ client'[c].chan.send_ctr = client[c].chan.send_ctr
      BY <1>2, <1>3, <1>4, <1>5
    <3>4. client[c].chan.recv_ctr <= 0 /\ \A i \in 1..Len(served[c]) : served[c][i].id = <<c, i>>
      BY <1>0, <1>3 DEF ConnOK, ServeInv
    <3> QED BY <1>3, <1>5, <3>1, <3>2, <3>3, <3>4 DEF ServeInv
  <2>4. StreamInv(c)' /\ FlightInv(c)'
    BY <1>0, <1>3, <1>4 DEF ConnOK, StreamInv, FlightInv
  <2>5. OutcomeInv(c)'
    <3>1. outcome[c] = <<>> /\ Len(<<>>) = 0 /\ \A i : i \notin 1..0
      BY <1>0, <1>3 DEF ConnOK, OutcomeInv
    <3> QED BY <1>3, <1>4, <3>1 DEF OutcomeInv
  <2>6. PinInv(c)'
    BY <1>0, <1>4, <1>5 DEF ConnOK, PinInv
  <2>7. AnswerInv(c)'
    BY <1>0, <1>4, AnswersStay DEF ConnOK
  <2> QED BY <2>1, <2>2, <2>3, <2>4, <2>5, <2>6, <2>7 DEF ConnOK
<1>9. \A g \in sealed : /\ FromClient(g, c) => FromClient(g, c)'
                        /\ FromServer(g, c) => FromServer(g, c)'
  BY <1>2, <1>4, <1>5 DEF FromClient, FromServer
<1> QED BY <1>4, <1>7, <1>8, <1>9, QuietStep

(* stream_to_subscriber sends the next record.                             *)
LEMMA PushInv ==
  ASSUME IInv, NEW c \in Conns, NEW big \in BOOLEAN, Push(c, big)
  PROVE  IInv'
<1> DEFINE chan == server[c].chan
           id == <<c, chan.send_ctr + 1>>
<1>f. PICK f : f = Seal(chan, [op |-> "record", id |-> id], big)
  OBVIOUS
<1>0. /\ Types /\ ConnOK(c) /\ client[c] \in Clients /\ server[c] \in Threads /\ chan \in Chans
      /\ client[c].chan.send_ctr \in Nat /\ client[c].chan.recv_ctr \in Nat
      /\ chan.send_ctr \in Nat /\ chan.recv_ctr \in Nat
      /\ toServer[c] \in Seq(Messages) /\ toClient[c] \in Seq(Messages)
      /\ server[c].st = "pushing"
  BY ConnHas DEF Push
<1>1. /\ client[c].st \in {"following", "closed"} /\ ServerKey(c)
      /\ IsFiniteSet(Records(c)) /\ Cardinality(Records(c)) = chan.send_ctr
      /\ client[c].chan.recv_ctr <= chan.send_ctr
  BY <1>0 DEF ConnOK, ServeInv, KeyInv
<1>2. /\ f \in Frames /\ f.kind = "sealed" /\ f.key = chan.send_key /\ f.ctr = chan.send_ctr
      /\ f.body.op = "record" /\ f.body.id = id
      /\ Sent(chan) \in Chans /\ Sent(chan).send_ctr = chan.send_ctr + 1
      /\ Sent(chan).send_key = chan.send_key
      /\ Sent(chan).recv_key = chan.recv_key /\ Sent(chan).recv_ctr = chan.recv_ctr
  <2>1. chan \in Chans /\ "record" \in Ops /\ id \in Ids
    BY <1>0 DEF Ops, Ids
  <2> HIDE DEF chan, id
  <2> QED BY <2>1, <1>f, SealHas
<1>3. /\ toClient'[c] = Append(toClient[c], f) /\ sealed' = sealed \cup {f}
      /\ server'[c] = [server[c] EXCEPT !.chan = Sent(chan)]
      /\ UNCHANGED <<client, toServer, faults, inserted, served, outcome, applied>> /\ Others(c)
  BY <1>0, <1>1, <1>f DEF Push, Records, Types, Others
<1>4. /\ server'[c] \in Threads /\ server'[c].st = "pushing" /\ server'[c].id = server[c].id
      /\ server'[c].chan = Sent(chan)
  BY <1>0, <1>2, <1>3 DEF Threads
<1>5. /\ toClient'[c] \in Seq(Messages) /\ Len(toClient'[c]) = Len(toClient[c]) + 1
      /\ toClient'[c][Len(toClient[c]) + 1] = f
      /\ \A i \in 1..Len(toClient[c]) : toClient'[c][i] = toClient[c][i]
      /\ \A i \in 1..(Len(toClient[c]) + 1) : i \in 1..Len(toClient[c]) \/ i = Len(toClient[c]) + 1
  <2>1. f \in Messages
    BY <1>2 DEF Messages
  <2> QED BY <1>0, <1>3, <2>1, AppendHas
<1>6. Types'
  BY <1>0, <1>2, <1>3, <1>4, <1>5 DEF Types, Push
<1>7. ASSUME NEW g \in sealed, g.key = f.key PROVE g.ctr # f.ctr
  <2>1. FromServer(g, c)
    BY <1>1, <1>2, <1>7, OwnFrames
  <2>2. g.ctr \in Nat
    BY <1>0 DEF Types, Frames
  <2> QED BY <1>0, <1>2, <2>1, <2>2 DEF FromServer
<1>8. ConnOK(c)'
  <2>1. KeyInv(c)'
    <3>1. ServerKey(c)'
      BY <1>1, <1>2, <1>4 DEF ServerKey
    <3> QED BY <1>0, <1>3, <1>4, <3>1 DEF ConnOK, KeyInv, ClientKey
  <2>2. QueueInv(c)'
    <3>1. /\ \A i \in 1..Len(toServer[c]) : toServer[c][i] \in sealed \cup {Damaged}
          /\ \A i \in 1..Len(toClient[c]) : toClient[c][i] \in sealed \cup {Damaged}
      BY <1>0, <1>1 DEF ConnOK, QueueInv
    <3>2. \A i \in 1..Len(toClient'[c]) : toClient'[c][i] \in sealed' \cup {Damaged}
      BY <1>3, <1>5, <3>1
    <3> QED BY <1>1, <1>3, <1>4, <3>1, <3>2 DEF QueueInv
  <2>3. ServeInv(c)'
    <3>1. Records(c)' = Records(c) \cup {f}
      BY <1>2, <1>3, <1>4 DEF Records
    <3>2. f \notin Records(c)
      BY <1>7 DEF Records
    <3>3. IsFiniteSet(Records(c)') /\ Cardinality(Records(c)') = chan.send_ctr + 1
      BY <1>1, <3>1, <3>2, FS_AddElement
    <3>4. /\ server'[c].chan.send_ctr = chan.send_ctr + 1 /\ server'[c].chan.recv_ctr = chan.recv_ctr
          /\ client'[c].st = client[c].st /\ served'[c] = served[c]
          /\ client'[c].chan.recv_ctr = client[c].chan.recv_ctr
          /\ client'[c].chan.send_ctr = client[c].chan.send_ctr
      BY <1>2, <1>3, <1>4
    <3>5. client[c].chan.recv_ctr <= chan.send_ctr + 1
      BY <1>0, <1>1
    <3>6. /\ chan.recv_ctr <= client[c].chan.send_ctr /\ Len(served[c]) <= chan.recv_ctr
          /\ \A i \in 1..Len(served[c]) : served[c][i].id = <<c, i>>
      BY <1>0 DEF ConnOK, ServeInv
    <3> QED BY <1>1, <1>4, <3>3, <3>4, <3>5, <3>6 DEF ServeInv
  <2>4. StreamInv(c)' /\ FlightInv(c)'
    BY <1>0, <1>1, <1>3 DEF ConnOK, StreamInv, FlightInv
  <2>5. OutcomeInv(c)'
    <3>1. outcome[c] = <<>> /\ Len(<<>>) = 0 /\ \A i : i \notin 1..0
      BY <1>0, <1>1 DEF ConnOK, OutcomeInv
    <3> QED BY <1>1, <1>3, <3>1 DEF OutcomeInv
  <2>6. PinInv(c)'
    BY <1>0, <1>3, <1>4 DEF ConnOK, PinInv
  <2>7. AnswerInv(c)'
    BY <1>0, <1>3, AnswersStay DEF ConnOK
  <2> QED BY <2>1, <2>2, <2>3, <2>4, <2>5, <2>6, <2>7 DEF ConnOK
<1>9. ASSUME NEW g \in sealed
      PROVE  (FromClient(g, c) => FromClient(g, c)') /\ (FromServer(g, c) => FromServer(g, c)')
  <2>1. g.ctr \in Nat
    BY <1>0 DEF Types, Frames
  <2>2. FromClient(g, c) => FromClient(g, c)'
    BY <1>3 DEF FromClient
  <2>3. FromServer(g, c) => FromServer(g, c)'
    BY <1>0, <1>2, <1>3, <1>4, <2>1 DEF FromServer
  <2> QED BY <2>2, <2>3
<1>10. FromServer(f, c)'
  BY <1>0, <1>1, <1>2, <1>3, <1>4 DEF FromServer
<1>11. NonceNeverReused'
  BY <1>3, <1>7, NonceStep DEF IInv
<1>12. \A g \in sealed' : g \in sealed \/ Fresh(g, c)
  BY <1>1, <1>2, <1>3, <1>10 DEF Fresh
<1> QED BY <1>3, <1>6, <1>8, <1>9, <1>11, <1>12, LocalStep

-----------------------------------------------------------------------------
(* The network.                                                            *)

(* A frame sealed before is put in front of the queue.                     *)
LEMMA RepeatFrameInv ==
  ASSUME IInv, NEW c \in Conns, NEW f \in sealed, RepeatFrame(c, f)
  PROVE  IInv'
<1>0. /\ Types /\ ConnOK(c)
      /\ toServer[c] \in Seq(Messages) /\ toClient[c] \in Seq(Messages) /\ f \in Messages
  BY ConnHas DEF Types, Messages
<1>1. \A q \in Seq(Messages) :
        /\ <<f>> \o q \in Seq(Messages)
        /\ \A i \in 1..Len(<<f>> \o q) : \/ (<<f>> \o q)[i] = f
                                         \/ i - 1 \in 1..Len(q) /\ (<<f>> \o q)[i] = q[i - 1]
  BY <1>0
<1>2. /\ \/ /\ server[c].st = "serving" /\ toServer'[c] = <<f>> \o toServer[c]
            /\ toClient'[c] = toClient[c] /\ inserted' = inserted
         \/ /\ client[c].st \in {"ready", "waiting", "following"}
            /\ toClient'[c] = <<f>> \o toClient[c] /\ toServer'[c] = toServer[c]
            /\ c \in inserted'
      /\ UNCHANGED <<client, server, sealed, served, outcome, applied>> /\ Others(c)
  BY <1>0 DEF RepeatFrame, Types, Others
<1>3. Types'
  <2>1. toServer'[c] \in Seq(Messages) /\ toClient'[c] \in Seq(Messages)
    BY <1>0, <1>1, <1>2
  <2> QED BY <1>0, <1>2, <2>1 DEF Types, RepeatFrame
<1>4. ConnOK(c)'
  <2>1. KeyInv(c)'
    BY <1>0, <1>2 DEF ConnOK, KeyInv, ClientKey, ServerKey
  <2>2. QueueInv(c)'
    <3>1. QueueInv(c)
      BY <1>0 DEF ConnOK
    <3>2. CASE server[c].st = "serving" /\ toServer'[c] = <<f>> \o toServer[c] /\ toClient'[c] = toClient[c]
      <4>1. \A i \in 1..Len(toServer'[c]) : toServer'[c][i] \in sealed \cup {Damaged}
        BY <1>0, <1>1, <3>1, <3>2 DEF QueueInv
      <4> QED BY <1>2, <3>1, <3>2, <4>1 DEF QueueInv
    <3>3. CASE /\ client[c].st \in {"ready", "waiting", "following"}
               /\ toClient'[c] = <<f>> \o toClient[c] /\ toServer'[c] = toServer[c]
      <4>1. \A i \in 1..Len(toClient'[c]) : toClient'[c][i] \in sealed \cup {Damaged}
        BY <1>0, <1>1, <3>1, <3>3 DEF QueueInv
      <4>2. server[c].st \notin {"new", "accepted"}
        BY <3>1, <3>3 DEF QueueInv
      <4> QED BY <1>2, <3>1, <3>3, <4>1, <4>2 DEF QueueInv
    <3> QED BY <1>2, <3>2, <3>3
  <2>3. ServeInv(c)' /\ StreamInv(c)' /\ PinInv(c)'
    BY <1>0, <1>2 DEF ConnOK, ServeInv, StreamInv, PinInv, Records
  <2>4. FlightInv(c)'
    BY <1>0, <1>2 DEF ConnOK, FlightInv
  <2>5. OutcomeInv(c)'
    <3>1. OutcomeInv(c)
      BY <1>0 DEF ConnOK
    <3>2. CASE toClient'[c] = toClient[c] /\ inserted' = inserted
      BY <1>2, <3>1, <3>2 DEF OutcomeInv, Doomed
    <3>3. CASE c \in inserted'
      BY <1>2, <3>1, <3>3 DEF OutcomeInv
    <3> QED BY <1>2, <3>2, <3>3
  <2>6. AnswerInv(c)'
    BY <1>0, <1>2, AnswersStay DEF ConnOK
  <2> QED BY <2>1, <2>2, <2>3, <2>4, <2>5, <2>6 DEF ConnOK
<1>5. \A g \in sealed : /\ FromClient(g, c) => FromClient(g, c)'
                        /\ FromServer(g, c) => FromServer(g, c)'
  BY <1>2 DEF FromClient, FromServer
<1> QED BY <1>2, <1>3, <1>4, <1>5, QuietStep

(* The frame in front is replaced.                                         *)
LEMMA FrontHas ==
  ASSUME NEW S, NEW q \in Seq(S), q # <<>>, NEW d \in S, NEW p, p = [q EXCEPT ![1] = d]
  PROVE  /\ p \in Seq(S) /\ Len(p) = Len(q) /\ p[1] = d /\ q[1] \in S /\ Head(q) = q[1]
         /\ \A i \in 1..Len(q) : i # 1 => p[i] = q[i]
         /\ p # <<>> /\ (Len(q) = 1 => p = <<d>>)
<1>1. Len(q) \in Nat /\ 1 \in 1..Len(q) /\ DOMAIN q = 1..Len(q) /\ q \in [1..Len(q) -> S]
  OBVIOUS
<1>2. p \in [1..Len(q) -> S] /\ p[1] = d /\ \A i \in 1..Len(q) : i # 1 => p[i] = q[i]
  BY <1>1
<1>3. p \in Seq(S) /\ Len(p) = Len(q)
  BY <1>1, <1>2
<1>4. p # <<>> /\ (Len(q) = 1 => p = <<d>>)
  BY <1>1, <1>2, <1>3
<1> QED BY <1>1, <1>2, <1>3, <1>4

(* What damage makes of each kind of message.                              *)
LEMMA DamageHas ==
  /\ \A h : Damage(Hello(h)) = Hello(NoHello)
  /\ \A p, r : Damage(Reply(p, r)) = Reply(p, NoReply)
  /\ \A f \in Frames : Damage(f) = Damaged
  /\ Damage(Damaged) = Damaged
<1>1. \A h : Damage(Hello(h)) = Hello(NoHello)
  BY DEF Damage, Hello, NoHello
<1>2. \A p, r : Damage(Reply(p, r)) = Reply(p, NoReply)
  BY DEF Damage, Reply, NoReply
<1>3. \A f \in Frames : Damage(f) = Damaged
  BY DEF Damage, Frames, Damaged
<1>4. Damage(Damaged) = Damaged
  BY DEF Damage, Damaged
<1> QED BY <1>1, <1>2, <1>3, <1>4

(* A damaged frame never opens and still takes the place of what it was.   *)
LEMMA DamageFrameInv ==
  ASSUME IInv, NEW c \in Conns, DamageFrame(c)
  PROVE  IInv'
<1>0. /\ Types /\ ConnOK(c) /\ sealed \subseteq Frames
      /\ toServer[c] \in Seq(Messages) /\ toClient[c] \in Seq(Messages)
      /\ Len(toServer[c]) \in Nat /\ Len(toClient[c]) \in Nat
  <2>1. /\ Types /\ ConnOK(c) /\ toServer[c] \in Seq(Messages) /\ toClient[c] \in Seq(Messages)
    BY ConnHas
  <2>2. Len(toServer[c]) \in Nat /\ Len(toClient[c]) \in Nat
    BY <2>1
  <2>3. sealed \subseteq Frames
    BY <2>1 DEF Types
  <2> QED BY <2>1, <2>2, <2>3
<1> DEFINE ds == Damage(toServer[c][1])
           dc == Damage(toClient[c][1])
<1>1. /\ \/ /\ toServer[c] # <<>> /\ toServer'[c] = [toServer[c] EXCEPT ![1] = ds]
            /\ toClient'[c] = toClient[c]
         \/ /\ toClient[c] # <<>> /\ toClient'[c] = [toClient[c] EXCEPT ![1] = dc]
            /\ toServer'[c] = toServer[c]
      /\ UNCHANGED <<client, server, inserted, sealed, served, outcome, applied>> /\ Others(c)
  BY <1>0 DEF DamageFrame, Types, Others
<1>2. QueueInv(c) /\ Damaged \in Messages
  BY <1>0 DEF ConnOK, Messages
<1>3. ASSUME toServer[c] # <<>>
      PROVE  /\ ds \in Messages
             /\ server[c].st = "accepted" => Len(toServer[c]) = 1 /\ \E h \in Hellos(c) : ds = Hello(h)
             /\ server[c].st # "accepted" => ds = Damaged
  <2>0. server[c].st # "new" /\ 1 \in 1..Len(toServer[c])
    BY <1>0, <1>2, <1>3 DEF QueueInv
  <2>1. CASE server[c].st = "accepted"
    <3>1. PICK h \in Hellos(c) : toServer[c] = <<Hello(h)>>
      BY <1>2, <2>1 DEF QueueInv
    <3>2. Len(toServer[c]) = 1 /\ toServer[c][1] = Hello(h)
      BY <3>1
    <3>3. ds = Hello(NoHello) /\ NoHello \in Hellos(c)
      BY <3>2, DamageHas DEF Hellos
    <3> QED BY <2>1, <3>2, <3>3, HandshakeMessages
  <2>2. CASE server[c].st # "accepted"
    <3>1. toServer[c][1] \in Frames \cup {Damaged}
      BY <1>0, <1>2, <2>0, <2>2 DEF QueueInv
    <3> QED BY <1>2, <2>2, <3>1, DamageHas
  <2> QED BY <2>1, <2>2
<1>4. ASSUME toClient[c] # <<>>
      PROVE  /\ dc \in Messages
             /\ client[c].st = "hello" => /\ Len(toClient[c]) = 1
                                          /\ \E p \in Servers, r \in Replies(c) : dc = Reply(p, r)
             /\ client[c].st # "hello" => dc = Damaged
  <2>0. client[c].st # "new" /\ 1 \in 1..Len(toClient[c])
    BY <1>0, <1>2, <1>4 DEF QueueInv
  <2>1. CASE client[c].st = "hello"
    <3>1. PICK p \in Servers, r \in Replies(c) : toClient[c] = <<Reply(p, r)>>
      BY <1>2, <1>4, <2>1 DEF QueueInv
    <3>2. Len(toClient[c]) = 1 /\ toClient[c][1] = Reply(p, r)
      BY <3>1
    <3>3. dc = Reply(p, NoReply) /\ NoReply \in Replies(c)
      BY <3>2, DamageHas DEF Replies
    <3> QED BY <2>1, <3>2, <3>3, HandshakeMessages
  <2>2. CASE client[c].st # "hello"
    <3>1. toClient[c][1] \in Frames \cup {Damaged}
      BY <1>0, <1>2, <2>0, <2>2 DEF QueueInv
    <3> QED BY <1>2, <2>2, <3>1, DamageHas
  <2> QED BY <2>1, <2>2
<1> HIDE DEF ds, dc
<1>5. /\ toServer'[c] \in Seq(Messages) /\ Len(toServer'[c]) = Len(toServer[c])
      /\ \/ toServer'[c] = toServer[c]
         \/ /\ toServer[c] # <<>> /\ toServer'[c] # <<>> /\ toServer'[c][1] = ds
            /\ \A i \in 1..Len(toServer[c]) : i # 1 => toServer'[c][i] = toServer[c][i]
            /\ Len(toServer[c]) = 1 => toServer'[c] = <<ds>>
  <2>1. CASE toServer[c] # <<>> /\ toServer'[c] = [toServer[c] EXCEPT ![1] = ds]
    BY <1>0, <1>3, <2>1, FrontHas
  <2> QED BY <1>0, <1>1, <2>1
<1>6. /\ toClient'[c] \in Seq(Messages) /\ Len(toClient'[c]) = Len(toClient[c])
      /\ \/ toClient'[c] = toClient[c]
         \/ /\ toClient[c] # <<>> /\ toClient'[c] # <<>> /\ toClient'[c][1] = dc
            /\ \A i \in 1..Len(toClient[c]) : i # 1 => toClient'[c][i] = toClient[c][i]
            /\ Len(toClient[c]) = 1 => toClient'[c] = <<dc>>
  <2>1. CASE toClient[c] # <<>> /\ toClient'[c] = [toClient[c] EXCEPT ![1] = dc]
    BY <1>0, <1>4, <2>1, FrontHas
  <2> QED BY <1>0, <1>1, <2>1
<1>7. Types'
  BY <1>0, <1>1, <1>5, <1>6 DEF Types, DamageFrame
<1>8. ConnOK(c)'
  <2>1. KeyInv(c)'
    BY <1>0, <1>1 DEF ConnOK, KeyInv, ClientKey, ServerKey
  <2>2. QueueInv(c)'
    <3>1. toServer[c] = <<>> => toServer'[c] = <<>>
      BY <1>5
    <3>2. toClient[c] = <<>> => toClient'[c] = <<>>
      BY <1>6
    <3>3. server[c].st = "accepted" => \E h \in Hellos(c) : toServer'[c] = <<Hello(h)>>
      BY <1>2, <1>3, <1>5 DEF QueueInv
    <3>4. client[c].st = "hello" =>
            toClient'[c] = <<>> \/ \E p \in Servers, r \in Replies(c) : toClient'[c] = <<Reply(p, r)>>
      BY <1>2, <1>4, <1>6 DEF QueueInv
    <3>5. ASSUME server[c].st \notin {"new", "accepted"}, NEW i \in 1..Len(toServer'[c])
          PROVE  toServer'[c][i] \in sealed \cup {Damaged}
      BY <1>2, <1>3, <1>5, <3>5 DEF QueueInv
    <3>6. ASSUME client[c].st \notin {"new", "hello"}, NEW i \in 1..Len(toClient'[c])
          PROVE  toClient'[c][i] \in sealed \cup {Damaged}
      BY <1>2, <1>4, <1>6, <3>6 DEF QueueInv
    <3>7. client'[c] = client[c] /\ server'[c] = server[c] /\ sealed' = sealed
      BY <1>1
    <3> QED BY <1>2, <3>1, <3>2, <3>3, <3>4, <3>5, <3>6, <3>7 DEF QueueInv
  <2>3. ServeInv(c)' /\ StreamInv(c)' /\ PinInv(c)'
    BY <1>0, <1>1 DEF ConnOK, ServeInv, StreamInv, PinInv, Records
  <2>4. FlightInv(c)'
    <3>1. client'[c] = client[c] /\ server'[c] = server[c] /\ inserted' = inserted /\ FlightInv(c)
      BY <1>0, <1>1 DEF ConnOK
    <3>2. ASSUME client[c].st \in {"ready", "waiting"}, NEW i \in 1..Len(toClient[c]), toClient'[c][i] # Damaged
          PROVE  toClient'[c][i] = toClient[c][i]
      BY <1>4, <1>6, <3>2
    <3> QED BY <1>6, <3>1, <3>2 DEF FlightInv
  <2>5. OutcomeInv(c)'
    <3>1. OutcomeInv(c) /\ client'[c] = client[c] /\ server'[c] = server[c]
      BY <1>0, <1>1 DEF ConnOK
    <3>2. Doomed(c) => Doomed(c)'
      BY <1>6, <3>1 DEF Doomed
    <3> QED BY <1>1, <3>1, <3>2 DEF OutcomeInv
  <2>6. AnswerInv(c)'
    BY <1>0, <1>1, AnswersStay DEF ConnOK
  <2> QED BY <2>1, <2>2, <2>3, <2>4, <2>5, <2>6 DEF ConnOK
<1>9. \A g \in sealed : /\ FromClient(g, c) => FromClient(g, c)'
                        /\ FromServer(g, c) => FromServer(g, c)'
  BY <1>1 DEF FromClient, FromServer
<1> QED BY <1>1, <1>7, <1>8, <1>9, QuietStep

-----------------------------------------------------------------------------
(* The client's end.                                                       *)

(* An error goes to the caller when nothing the client can still receive   *)
(* opens, or a repeated frame came first.                                  *)
LEMMA ErrorInv ==
  ASSUME IInv, NEW c \in Conns, client[c].st = "waiting", client'[c].st = "ready",
         client'[c].chan = client[c].chan, served'[c] = served[c], inserted' = inserted,
         NEW x \in [status : Ops \cup {"io"}, answer : Ids \cup {<<>>}],
         x.status = "io", x.answer = <<>>,
         outcome'[c] = Append(outcome[c], x), Doomed(c)' \/ c \in inserted
  PROVE  OutcomeInv(c)' /\ AnswerInv(c)'
<1>0. /\ outcome[c] \in Seq([status : Ops \cup {"io"}, answer : Ids \cup {<<>>}])
      /\ OutcomeInv(c) /\ AnswerInv(c)
      /\ client[c].chan.recv_ctr \in Nat /\ client[c].chan.send_ctr \in Nat
  BY ConnHas DEF Types, ConnOK
<1> DEFINE n == Len(outcome[c])
<1>1. /\ n \in Nat /\ Len(outcome'[c]) = n + 1 /\ outcome'[c][n + 1] = x
      /\ \A i \in 1..n : outcome'[c][i] = outcome[c][i]
      /\ \A i \in 1..(n + 1) : i \in 1..n \/ i = n + 1
  BY <1>0, AppendHas
<1>2. n + 1 = client[c].chan.send_ctr /\ client[c].chan.recv_ctr <= n
  BY <1>0 DEF OutcomeInv
<1> HIDE DEF n
<1>3. Len(outcome'[c]) = client'[c].chan.send_ctr /\ client'[c].chan.recv_ctr <= Len(outcome'[c])
  BY <1>0, <1>1, <1>2
<1>4. outcome'[c][n + 1].status = "io" /\ n + 1 \in 1..Len(outcome'[c])
  BY <1>1
<1>5. ASSUME NEW i \in 1..Len(outcome'[c]), NEW j \in 1..Len(outcome'[c]), i < j, outcome'[c][i].status = "io"
      PROVE  outcome'[c][j].status = "io" \/ c \in inserted
  <2>1. CASE j = n + 1
    BY <1>4, <2>1
  <2>2. CASE j # n + 1
    <3>1. i \in 1..n /\ j \in 1..n
      BY <1>1, <1>5, <2>2
    <3>2. outcome'[c][i] = outcome[c][i] /\ outcome'[c][j] = outcome[c][j]
      BY <1>1, <3>1
    <3> QED BY <1>0, <1>5, <3>1, <3>2 DEF OutcomeInv, n
  <2> QED BY <2>1, <2>2
<1>6. OutcomeInv(c)'
  BY <1>3, <1>4, <1>5 DEF OutcomeInv
<1>7. ASSUME NEW i \in 1..n, NEW k \in 1..i, Answered(c, i, k) PROVE Answered(c, i, k)'
  <2>1. \A j \in 1..(i - 1) : j \in 1..n
    BY <1>1, <1>7
  <2>2. \A j \in 1..(i - 1) : outcome'[c][j] = outcome[c][j]
    BY <1>1, <2>1
  <2>3. outcome'[c][i] = outcome[c][i]
    BY <1>1
  <2> QED BY <1>7, <2>2, <2>3 DEF Answered
<1>8. ASSUME NEW i \in 1..Len(outcome'[c])
      PROVE  IF outcome'[c][i].status = "io" THEN outcome'[c][i].answer = <<>>
             ELSE \E k \in 1..i : Answered(c, i, k)'
  <2>1. CASE i = n + 1
    BY <1>1, <2>1
  <2>2. CASE i \in 1..n
    <3>1. outcome'[c][i] = outcome[c][i]
      BY <1>1, <2>2
    <3> QED BY <1>0, <1>7, <2>2, <3>1 DEF AnswerInv, n
  <2> QED BY <1>1, <2>1, <2>2
<1>9. ASSUME NEW l \in 1..client'[c].chan.recv_ctr
      PROVE  \E j \in 1..Len(outcome'[c]) : outcome'[c][j].answer = <<c, l>>
  <2>1. PICK j \in 1..n : outcome[c][j].answer = <<c, l>>
    BY <1>0 DEF AnswerInv, n
  <2> QED BY <1>1, <2>1
<1>10. client'[c].chan.recv_ctr < Len(outcome'[c])
  BY <1>0, <1>1, <1>2
<1>11. AnswerInv(c)'
  BY <1>8, <1>9, <1>10 DEF AnswerInv
<1> QED BY <1>6, <1>11

(* The stream ends while the client waits.                                 *)
LEMMA EndOfStreamInv ==
  ASSUME IInv, NEW c \in Conns, EndOfStream(c)
  PROVE  IInv'
<1> DEFINE x == [status |-> "io", answer |-> <<>>]
<1>0. /\ Types /\ ConnOK(c) /\ client[c] \in Clients /\ server[c].st = "closed" /\ toClient[c] = <<>>
      /\ client[c].st \in {"hello", "waiting", "following"}
      /\ outcome[c] \in Seq([status : Ops \cup {"io"}, answer : Ids \cup {<<>>}])
  BY ConnHas DEF EndOfStream, Types
<1>1. /\ UNCHANGED <<server, toServer, toClient, faults, inserted, sealed, served, applied>> /\ Others(c)
      /\ \/ /\ client[c].st = "waiting" /\ outcome'[c] = Append(outcome[c], x)
            /\ client'[c] = [client[c] EXCEPT !.st = "ready"]
         \/ /\ client[c].st # "waiting" /\ outcome'[c] = outcome[c]
            /\ client'[c] = [client[c] EXCEPT !.st = "closed"]
  BY <1>0 DEF EndOfStream, Types, Others
<1>2. /\ client'[c] \in Clients /\ client'[c].pin = client[c].pin
      /\ client'[c].aligned = client[c].aligned /\ client'[c].chan = client[c].chan
      /\ \/ client[c].st = "waiting" /\ client'[c].st = "ready"
         \/ client[c].st \in {"hello", "following"} /\ client'[c].st = "closed" /\ outcome'[c] = outcome[c]
  BY <1>0, <1>1 DEF Clients
<1>3. x \in [status : Ops \cup {"io"}, answer : Ids \cup {<<>>}] /\ x.status = "io" /\ x.answer = <<>>
  OBVIOUS
<1> HIDE DEF x
<1>4. /\ outcome'[c] \in Seq([status : Ops \cup {"io"}, answer : Ids \cup {<<>>}])
      /\ \A i \in 1..Len(outcome'[c]) : \/ i \in 1..Len(outcome[c]) /\ outcome'[c][i] = outcome[c][i]
                                        \/ outcome'[c][i].status = "io"
  <2>1. CASE outcome'[c] = Append(outcome[c], x)
    <3>1. /\ Append(outcome[c], x) \in Seq([status : Ops \cup {"io"}, answer : Ids \cup {<<>>}])
          /\ Len(Append(outcome[c], x)) = Len(outcome[c]) + 1
          /\ Append(outcome[c], x)[Len(outcome[c]) + 1] = x
          /\ \A i \in 1..Len(outcome[c]) : Append(outcome[c], x)[i] = outcome[c][i]
          /\ \A i \in 1..(Len(outcome[c]) + 1) : i \in 1..Len(outcome[c]) \/ i = Len(outcome[c]) + 1
      BY <1>0, <1>3, AppendHas
    <3> QED BY <2>1, <3>1, <1>3
  <2>2. CASE outcome'[c] = outcome[c]
    BY <1>0, <2>2
  <2> QED BY <1>1, <2>1, <2>2
<1>5. Types'
  BY <1>0, <1>1, <1>2, <1>4, ZenonT(60) DEF Types, EndOfStream
<1>6. Len(<<>>) = 0 /\ \A i : i \notin 1..0
  OBVIOUS
<1>7. ConnOK(c)'
  <2>1. KeyInv(c)'
    BY <1>0, <1>1, <1>2 DEF ConnOK, KeyInv, ClientKey, ServerKey
  <2>2. QueueInv(c)'
    BY <1>0, <1>1, <1>2, <1>6 DEF ConnOK, QueueInv
  <2>3. ServeInv(c)'
    BY <1>0, <1>1, <1>2 DEF ConnOK, ServeInv, Records
  <2>4. StreamInv(c)'
    BY <1>0, <1>1, <1>2 DEF ConnOK, StreamInv
  <2>5. FlightInv(c)'
    BY <1>0, <1>1, <1>2 DEF ConnOK, FlightInv
  <2>6. OutcomeInv(c)' /\ AnswerInv(c)'
    <3>1. CASE client[c].st = "waiting"
      <4>1. Doomed(c)'
        BY <1>0, <1>1 DEF Doomed
      <4> QED BY <1>1, <1>2, <1>3, <3>1, <4>1, ErrorInv
    <3>2. CASE client[c].st # "waiting"
      <4>1. outcome'[c] = <<>> /\ client'[c].st = "closed"
        BY <1>0, <1>2, <3>2 DEF ConnOK, OutcomeInv
      <4>2. AnswerInv(c)'
        BY <1>6, <4>1 DEF AnswerInv
      <4> QED BY <1>6, <4>1, <4>2 DEF OutcomeInv
    <3> QED BY <3>1, <3>2
  <2>7. PinInv(c)'
    BY <1>0, <1>1, <1>2, <1>4 DEF ConnOK, PinInv
  <2> QED BY <2>1, <2>2, <2>3, <2>4, <2>5, <2>6, <2>7 DEF ConnOK
<1>8. \A g \in sealed : FromClient(g, c) => FromClient(g, c)'
  BY <1>1, <1>2 DEF FromClient
<1>9. \A g \in sealed : FromServer(g, c) => FromServer(g, c)'
  BY <1>1, <1>2 DEF FromServer
<1> QED BY <1>1, <1>5, <1>7, <1>8, <1>9, QuietStep

(* The second half of roundtrip.                                           *)
LEMMA ReceiveInv ==
  ASSUME IInv, NEW c \in Conns, Receive(c)
  PROVE  IInv'
<1> DEFINE chan == client[c].chan
           X == [status : Ops \cup {"io"}, answer : Ids \cup {<<>>}]
<1>m. PICK m : m = Head(toClient[c])
  OBVIOUS
<1> DEFINE ok == Readable(c, m) /\ Opens(chan, m)
           new == IF Readable(c, m) THEN Received(chan, m) ELSE chan
<1>x. PICK x : x = IF ok THEN [status |-> m.body.op, answer |-> m.body.id]
                   ELSE [status |-> "io", answer |-> <<>>]
  OBVIOUS
<1>0. /\ Types /\ ConnOK(c) /\ client[c] \in Clients /\ server[c] \in Threads /\ chan \in Chans
      /\ chan.send_ctr \in Nat /\ chan.recv_ctr \in Nat
      /\ server[c].chan.send_ctr \in Nat /\ server[c].chan.recv_ctr \in Nat
      /\ toClient[c] \in Seq(Messages) /\ client[c].st = "waiting" /\ toClient[c] # <<>>
  BY ConnHas DEF Receive
<1>1. /\ outcome[c] \in Seq(X) /\ Len(outcome[c]) \in Nat /\ Len(toClient[c]) \in Nat
      /\ client[c].aligned \in BOOLEAN /\ Readable(c, m) \in BOOLEAN
  <2>1. outcome[c] \in Seq(X)
    BY <1>0 DEF Types
  <2>2. client[c].aligned \in BOOLEAN
    BY <1>0 DEF Clients
  <2> QED BY <1>0, <2>1, <2>2 DEF Readable
<1>2. /\ m = toClient[c][1] /\ 1 \in 1..Len(toClient[c]) /\ Len(toClient[c]) > 0
      /\ m \in sealed \cup {Damaged} /\ ClientKey(c) /\ server[c].st \notin {"new", "accepted"}
  <2>1. m = toClient[c][1] /\ 1 \in 1..Len(toClient[c]) /\ Len(toClient[c]) > 0
    BY <1>0, <1>m, TailHas
  <2>2. QueueInv(c) /\ ClientKey(c)
    BY <1>0 DEF ConnOK, KeyInv
  <2> QED BY <1>0, <2>1, <2>2 DEF QueueInv
<1>3. /\ outcome'[c] = Append(outcome[c], x)
      /\ client'[c] = [client[c] EXCEPT !.st = "ready", !.aligned = Readable(c, m), !.chan = new]
      /\ toClient'[c] = Tail(toClient[c])
      /\ UNCHANGED <<server, toServer, faults, inserted, sealed, served, applied>> /\ Others(c)
  BY <1>0, <1>m, <1>x DEF Receive, Types, Others
<1>4. /\ new \in Chans /\ new.send_key = chan.send_key /\ new.recv_key = chan.recv_key
      /\ new.send_ctr = chan.send_ctr
      /\ ~ok => new = chan
      /\ ok => new.recv_ctr = chan.recv_ctr + 1
  <2>1. CASE ok
    <3>1. new = Received(chan, m)
      BY <2>1
    <3>2. /\ Received(chan, m) \in Chans /\ Received(chan, m).recv_ctr = chan.recv_ctr + 1
          /\ Received(chan, m).send_ctr = chan.send_ctr
          /\ Received(chan, m).send_key = chan.send_key
          /\ Received(chan, m).recv_key = chan.recv_key
      BY <1>0, <1>2, <2>1, OpensHas
    <3> QED BY <2>1, <3>1, <3>2
  <2>2. CASE ~ok
    <3>1. new = chan
      BY <2>2 DEF Received
    <3> QED BY <1>0, <2>2, <3>1
  <2> QED BY <2>1, <2>2
<1>5. ASSUME ok
      PROVE  /\ m \in sealed /\ m.ctr = chan.recv_ctr /\ m.body.op \in Ops /\ m.body.id \in Ids
             /\ m.body.id = <<c, chan.recv_ctr + 1>> /\ chan.recv_ctr < server[c].chan.send_ctr
             /\ chan.recv_ctr + 1 <= Len(served[c])
             /\ served[c][chan.recv_ctr + 1] = [id |-> m.body.id, status |-> m.body.op]
             /\ client[c].pin \in {NoPin, server[c].id} /\ client[c].aligned /\ m # Damaged
  <2>1. m \in sealed /\ m.key = chan.recv_key /\ m.ctr = chan.recv_ctr
    BY <1>0, <1>2, <1>5, OpensHas
  <2>2. FromServer(m, c) /\ ServerKey(c)
    BY <1>2, <2>1, OpenedByClient
  <2>3. m \in Frames /\ m.body.op \in Ops /\ m.body.id \in Ids
    BY <1>0, <2>1 DEF Types, Frames
  <2>4. m.body.op # "record"
    BY <1>0, <2>2 DEF FromServer
  <2>5. client[c].pin \in {NoPin, server[c].id}
    BY <1>2, <2>1, <2>2, SharedKey DEF FromServer
  <2>6. client[c].aligned /\ m # Damaged
    BY <1>5 DEF Readable, Opens, Damaged
  <2> QED BY <2>1, <2>2, <2>3, <2>4, <2>5, <2>6 DEF FromServer
<1>6. x \in X /\ (~ok => x.status = "io" /\ x.answer = <<>>) /\ (ok => x.status = m.body.op /\ x.answer = m.body.id)
  BY <1>5, <1>x
<1> HIDE DEF new
<1>7. /\ client'[c] \in Clients /\ client'[c].st = "ready" /\ client'[c].pin = client[c].pin
      /\ client'[c].aligned = Readable(c, m) /\ client'[c].chan = new
  BY <1>0, <1>1, <1>3, <1>4 DEF Clients
<1>8. /\ toClient'[c] \in Seq(Messages) /\ Len(toClient'[c]) = Len(toClient[c]) - 1
      /\ \A i \in 1..Len(toClient'[c]) :
           i + 1 \in 1..Len(toClient[c]) /\ toClient'[c][i] = toClient[c][i + 1]
  BY <1>0, <1>3, TailHas
<1>9. /\ outcome'[c] \in Seq(X) /\ Len(outcome'[c]) = Len(outcome[c]) + 1
      /\ outcome'[c][Len(outcome[c]) + 1] = x
      /\ \A i \in 1..Len(outcome[c]) : outcome'[c][i] = outcome[c][i]
      /\ \A i \in 1..(Len(outcome[c]) + 1) : i \in 1..Len(outcome[c]) \/ i = Len(outcome[c]) + 1
  BY <1>1, <1>3, <1>6, AppendHas
<1>10. Types'
  BY <1>0, <1>3, <1>7, <1>8, <1>9 DEF Types, Receive
<1>11. ~ok => Doomed(c)' \/ c \in inserted
  <2> SUFFICES ASSUME ~ok, Readable(c, m), c \notin inserted
               PROVE  new.recv_ctr + Len(toClient'[c]) < server[c].chan.send_ctr
    BY <1>3, <1>7 DEF Doomed
  <2>1. new.recv_ctr = chan.recv_ctr /\ chan.recv_ctr + Len(toClient[c]) <= server[c].chan.send_ctr
    BY <1>0, <1>4 DEF ConnOK, FlightInv
  <2>2. chan.recv_ctr + (Len(toClient[c]) - 1) < server[c].chan.send_ctr
    BY <1>0, <1>1, <2>1
  <2> QED BY <1>8, <2>1, <2>2
<1>12. ok => ~Doomed(c) \/ c \in inserted
  <2> SUFFICES ASSUME ok, c \notin inserted, chan.recv_ctr + Len(toClient[c]) < server[c].chan.send_ctr PROVE FALSE
    BY <1>0, <1>5 DEF Doomed
  <2>1. m.ctr + Len(toClient[c]) + 1 = server[c].chan.send_ctr + 1
    BY <1>0, <1>2, <1>5 DEF ConnOK, FlightInv
  <2>2. PICK l \in Nat, k \in Nat, s \in Nat :
          l = Len(toClient[c]) /\ k = chan.recv_ctr /\ s = server[c].chan.send_ctr
    BY <1>0, <1>1
  <2>3. k + l + 1 = s + 1 /\ k + l < s
    BY <1>5, <2>1, <2>2, SMTT(30)
  <2> QED BY <2>2, <2>3, SMTT(30)
<1>13. ConnOK(c)'
  <2>1. KeyInv(c)'
    <3>1. ClientKey(c)'
      BY <1>2, <1>4, <1>7 DEF ClientKey
    <3> QED BY <1>0, <1>3, <1>7, <3>1 DEF ConnOK, KeyInv, ServerKey
  <2>2. QueueInv(c)'
    <3>1. QueueInv(c)
      BY <1>0 DEF ConnOK
    <3>2. \A i \in 1..Len(toClient'[c]) : toClient'[c][i] \in sealed \cup {Damaged}
      BY <1>0, <1>8, <3>1 DEF QueueInv
    <3> QED BY <1>2, <1>3, <1>7, <3>1, <3>2 DEF QueueInv
  <2>3. ServeInv(c)'
    <3>1. new.recv_ctr <= server[c].chan.send_ctr
      <4>1. CASE ok
        BY <1>0, <1>4, <1>5, <4>1
      <4>2. CASE ~ok
        BY <1>0, <1>4, <4>2 DEF ConnOK, ServeInv
      <4> QED BY <4>1, <4>2
    <3>2. /\ client'[c].chan.recv_ctr = new.recv_ctr /\ client'[c].chan.send_ctr = chan.send_ctr
          /\ server'[c] = server[c] /\ served'[c] = served[c] /\ Records(c)' = Records(c)
      BY <1>3, <1>4, <1>7 DEF Records
    <3>3. server[c].st # "pushing" /\ ServeInv(c)
      BY <1>0 DEF ConnOK, ServeInv
    <3> QED BY <3>1, <3>2, <3>3 DEF ServeInv
  <2>4. StreamInv(c)'
    BY <1>0, <1>3, <1>7 DEF ConnOK, StreamInv
  <2>5. FlightInv(c)'
    <3> SUFFICES ASSUME c \notin inserted PROVE FlightInv(c)'
      BY <1>3 DEF FlightInv
    <3>1. /\ chan.recv_ctr + Len(toClient[c]) <= server[c].chan.send_ctr
          /\ \A i \in 1..Len(toClient[c]) : toClient[c][i] # Damaged =>
               /\ toClient[c][i].key = server[c].chan.send_key
               /\ toClient[c][i].ctr + Len(toClient[c]) + 1 = server[c].chan.send_ctr + i
      BY <1>0 DEF ConnOK, FlightInv
    <3>2. new.recv_ctr + Len(toClient'[c]) <= server[c].chan.send_ctr
      <4>1. new.recv_ctr = chan.recv_ctr \/ new.recv_ctr = chan.recv_ctr + 1
        BY <1>4
      <4> QED BY <1>0, <1>1, <1>8, <3>1, <4>1
    <3>3. ASSUME NEW i \in 1..Len(toClient'[c]), toClient'[c][i] # Damaged
          PROVE  /\ toClient'[c][i].key = server[c].chan.send_key
                 /\ toClient'[c][i].ctr + Len(toClient'[c]) + 1 = server[c].chan.send_ctr + i
      <4>1. i + 1 \in 1..Len(toClient[c]) /\ toClient'[c][i] = toClient[c][i + 1]
        BY <1>8
      <4>2. toClient[c][i + 1].ctr \in Nat
        BY <1>0, <3>3, <4>1 DEF ConnOK, QueueInv, Types, Frames
      <4>3. /\ toClient[c][i + 1].key = server[c].chan.send_key
            /\ toClient[c][i + 1].ctr + Len(toClient[c]) + 1 = server[c].chan.send_ctr + (i + 1)
        BY <3>1, <3>3, <4>1
      <4>4. PICK l \in Nat, k \in Nat, s \in Nat :
              l = Len(toClient[c]) /\ k = toClient[c][i + 1].ctr /\ s = server[c].chan.send_ctr
        BY <1>0, <1>1, <4>2
      <4>5. k + l + 1 = s + (i + 1) /\ i \in Nat
        BY <4>3, <4>4
      <4>6. k + (l - 1) + 1 = s + i
        BY <4>5
      <4> QED BY <1>8, <4>1, <4>3, <4>4, <4>6
    <3> QED BY <1>3, <1>7, <3>2, <3>3 DEF FlightInv
  <2>6. OutcomeInv(c)' /\ AnswerInv(c)'
    <3>1. CASE ~ok
      BY <1>0, <1>3, <1>4, <1>6, <1>7, <1>11, <3>1, ErrorInv
    <3>2. CASE ok
      <4>n. PICK n, k : n = Len(outcome[c]) /\ k = chan.recv_ctr + 1
        OBVIOUS
      <4>1. OutcomeInv(c) /\ AnswerInv(c)
        BY <1>0 DEF ConnOK
      <4>2. /\ n + 1 = chan.send_ctr /\ chan.recv_ctr <= n /\ n \in Nat /\ chan.recv_ctr \in Nat
            /\ k = chan.recv_ctr + 1 /\ k - 1 = chan.recv_ctr /\ n = Len(outcome[c])
        BY <1>0, <1>1, <4>n, <4>1 DEF OutcomeInv
      <4>3. x.status = m.body.op /\ x.answer = <<c, k>> /\ x.status # "io"
        <5>1. m.body.op # "io"
          BY <1>5, <3>2 DEF Ops
        <5> QED BY <1>5, <1>6, <3>2, <4>n, <5>1
      <4>4. c \notin inserted => k = n + 1 /\ \A i \in 1..n : outcome[c][i].status # "io"
        <5> SUFFICES ASSUME c \notin inserted PROVE k = n + 1 /\ \A i \in 1..n : outcome[c][i].status # "io"
          OBVIOUS
        <5>1. \A i \in 1..n : outcome[c][i].status # "io"
          BY <1>12, <3>2, <4>1, <4>n DEF OutcomeInv
        <5>2. chan.recv_ctr = n
          BY <1>0, <4>1, <4>n, <5>1 DEF OutcomeInv
        <5> QED BY <4>n, <5>1, <5>2
      <4>5. /\ served' = served /\ inserted' = inserted /\ client'[c].st = "ready"
            /\ client'[c].chan.recv_ctr = k /\ client'[c].chan.send_ctr = n + 1
            /\ Len(outcome'[c]) = n + 1 /\ outcome'[c][n + 1] = x
            /\ \A i \in 1..n : outcome'[c][i] = outcome[c][i]
            /\ \A i \in 1..(n + 1) : i \in 1..n \/ i = n + 1
        BY <1>3, <1>4, <1>7, <1>9, <3>2, <4>2
      <4>6. /\ k \in 1..(n + 1) /\ k <= Len(served[c])
            /\ served[c][k] = [id |-> <<c, k>>, status |-> x.status]
        <5>1. k \in 1..(n + 1)
          BY <4>2
        <5>2. m.body.id = <<c, k>> /\ k <= Len(served[c]) /\ served[c][k] = [id |-> m.body.id, status |-> m.body.op]
          BY <1>5, <3>2, <4>n
        <5> QED BY <4>3, <5>1, <5>2
      <4>7. OutcomeInv(c)'
        <5>1. c \notin inserted => \A i \in 1..Len(outcome'[c]) : outcome'[c][i].status # "io"
          BY <4>3, <4>4, <4>5
        <5>2. c \notin inserted => k = n + 1
          BY <4>4
        <5>3. k <= n + 1
          BY <4>2
        <5> QED BY <4>5, <5>1, <5>2, <5>3 DEF OutcomeInv
      <4>8. ASSUME NEW i \in 1..n, NEW h \in 1..i, Answered(c, i, h) PROVE Answered(c, i, h)'
        <5>1. \A j \in 1..(i - 1) : j \in 1..n
          BY <4>2, <4>8
        <5>2. \A j \in 1..(i - 1) : outcome'[c][j] = outcome[c][j]
          BY <4>5, <5>1
        <5>3. outcome'[c][i] = outcome[c][i]
          BY <4>5
        <5>4. h <= client'[c].chan.recv_ctr
          BY <4>2, <4>5, <4>8 DEF Answered
        <5> QED BY <4>5, <4>8, <5>2, <5>3, <5>4 DEF Answered
      <4>9. Answered(c, n + 1, k)'
        <5>1. \A j \in 1..n : outcome[c][j].answer # <<c, k>>
          <6> SUFFICES ASSUME NEW j \in 1..n, outcome[c][j].answer = <<c, k>> PROVE FALSE
            OBVIOUS
          <6>0. <<c, k>> # <<>>
            OBVIOUS
          <6>1. outcome[c][j].status # "io"
            BY <4>1, <4>2, <6>0 DEF AnswerInv
          <6>2. PICK h \in 1..j : outcome[c][j].answer = <<c, h>> /\ h <= chan.recv_ctr
            BY <4>1, <4>2, <6>1 DEF AnswerInv, Answered
          <6> QED BY <4>2, <6>2
        <5>2. \A l \in 1..(k - 1) : \E j \in 1..n : outcome[c][j].answer = <<c, l>>
          BY <1>0, <4>1, <4>2 DEF AnswerInv
        <5>3. \A j \in 1..n : outcome[c][j].status = "io" => k < n + 1
          BY <1>0, <4>1, <4>2 DEF AnswerInv
        <5>4. (n + 1) - 1 = n
          BY <4>2
        <5>5. k = n + 1 \/ c \in inserted
          BY <4>4
        <5>6. /\ \A j \in 1..n : outcome'[c][j].answer # <<c, k>>
              /\ \A l \in 1..(k - 1) : \E j \in 1..n : outcome'[c][j].answer = <<c, l>>
              /\ \A j \in 1..n : outcome'[c][j].status = "io" => k < n + 1
          BY <4>5, <5>1, <5>2, <5>3
        <5>7. k <= client'[c].chan.recv_ctr
          BY <4>2, <4>5
        <5> QED BY <4>3, <4>5, <4>6, <5>4, <5>5, <5>6, <5>7 DEF Answered
      <4>10. ASSUME NEW i \in 1..Len(outcome'[c])
             PROVE  IF outcome'[c][i].status = "io" THEN outcome'[c][i].answer = <<>>
                    ELSE \E h \in 1..i : Answered(c, i, h)'
        <5>1. CASE i = n + 1
          BY <4>3, <4>5, <4>6, <4>9, <5>1
        <5>2. CASE i \in 1..n
          <6>1. outcome'[c][i] = outcome[c][i]
            BY <4>5, <5>2
          <6> QED BY <4>1, <4>2, <4>8, <5>2, <6>1 DEF AnswerInv
        <5> QED BY <4>5, <5>1, <5>2
      <4>11. ASSUME NEW l \in 1..client'[c].chan.recv_ctr
             PROVE  \E j \in 1..Len(outcome'[c]) : outcome'[c][j].answer = <<c, l>>
        <5>0. l \in 1..k /\ n + 1 \in 1..Len(outcome'[c]) /\ 1..n \subseteq 1..Len(outcome'[c])
          <6>1. 1..n \subseteq 1..(n + 1) /\ n + 1 \in 1..(n + 1)
            BY <4>2
          <6> QED BY <4>5, <6>1
        <5>1. CASE l = k
          BY <4>3, <4>5, <5>0, <5>1
        <5>2. CASE l \in 1..chan.recv_ctr
          <6>1. PICK j \in 1..n : outcome[c][j].answer = <<c, l>>
            BY <1>0, <4>1, <4>n, <5>2 DEF AnswerInv
          <6> QED BY <4>5, <5>0, <6>1
        <5>3. l = k \/ l \in 1..chan.recv_ctr
          BY <4>2, <5>0
        <5> QED BY <5>1, <5>2, <5>3
      <4>12. ASSUME NEW i \in 1..Len(outcome'[c]), outcome'[c][i].status = "io"
             PROVE  client'[c].chan.recv_ctr < Len(outcome'[c])
        <5>1. i \in 1..n /\ outcome[c][i].status = "io"
          BY <4>3, <4>5, <4>12
        <5>2. chan.recv_ctr < n
          BY <1>0, <4>1, <4>n, <5>1 DEF AnswerInv
        <5> QED BY <4>2, <4>5, <5>2
      <4>13. AnswerInv(c)'
        BY <4>10, <4>11, <4>12 DEF AnswerInv
      <4> QED BY <4>7, <4>13
    <3> QED BY <3>1, <3>2
  <2>7. PinInv(c)'
    <3>1. CASE ok
      BY <1>3, <1>5, <1>7, <3>1 DEF PinInv
    <3>2. CASE ~ok
      <4>1. \A i \in 1..Len(outcome'[c]) : \/ i \in 1..Len(outcome[c]) /\ outcome'[c][i] = outcome[c][i]
                                           \/ outcome'[c][i].status = "io"
        BY <1>6, <1>9, <3>2
      <4> QED BY <1>0, <1>3, <1>7, <4>1 DEF ConnOK, PinInv
    <3> QED BY <3>1, <3>2
  <2> QED BY <2>1, <2>2, <2>3, <2>4, <2>5, <2>6, <2>7 DEF ConnOK
<1>14. \A g \in sealed : FromClient(g, c) => FromClient(g, c)'
  BY <1>0, <1>4, <1>7 DEF FromClient
<1>15. \A g \in sealed : FromServer(g, c) => FromServer(g, c)'
  BY <1>0, <1>3, <1>7 DEF FromServer
<1> QED BY <1>3, <1>10, <1>13, <1>14, <1>15, QuietStep

(* follow applies the record it opens, or ends.                            *)
LEMMA FollowRecordInv ==
  ASSUME IInv, NEW c \in Conns, FollowRecord(c)
  PROVE  IInv'
<1> DEFINE chan == client[c].chan
<1>m. PICK m : m = Head(toClient[c])
  OBVIOUS
<1> DEFINE ok == Readable(c, m) /\ Opens(chan, m)
<1>0. /\ Types /\ ConnOK(c) /\ client[c] \in Clients /\ server[c] \in Threads /\ chan \in Chans
      /\ chan.send_ctr \in Nat /\ chan.recv_ctr \in Nat /\ server[c].chan.send_ctr \in Nat
      /\ toClient[c] \in Seq(Messages) /\ client[c].st = "following" /\ toClient[c] # <<>>
      /\ applied[c] \in Seq(Ids)
  BY ConnHas DEF FollowRecord, Types
<1>1. /\ m \in sealed \cup {Damaged} /\ ClientKey(c) /\ server[c].st \notin {"new", "accepted"}
      /\ Len(applied[c]) = chan.recv_ctr
  <2>1. m = toClient[c][1] /\ 1 \in 1..Len(toClient[c])
    BY <1>0, <1>m, TailHas
  <2>2. QueueInv(c) /\ ClientKey(c) /\ Len(applied[c]) = chan.recv_ctr
    BY <1>0 DEF ConnOK, KeyInv, StreamInv
  <2> QED BY <1>0, <2>1, <2>2 DEF QueueInv
<1>2. /\ toClient'[c] = Tail(toClient[c])
      /\ UNCHANGED <<server, toServer, faults, inserted, sealed, served, outcome>> /\ Others(c)
      /\ \/ /\ ok /\ applied'[c] = Append(applied[c], m.body.id)
            /\ client'[c] = [client[c] EXCEPT !.chan = Received(chan, m)]
         \/ /\ ~ok /\ applied'[c] = applied[c]
            /\ client'[c] = [client[c] EXCEPT !.st = "closed"]
  <2>1. CASE ok
    BY <1>0, <1>m, <2>1 DEF FollowRecord, Types, Others
  <2>2. CASE ~ok
    BY <1>0, <1>m, <2>2 DEF FollowRecord, Types, Others
  <2> QED BY <2>1, <2>2
<1>3. ASSUME ok
      PROVE  /\ m.body.id \in Ids /\ m.body.id = <<c, chan.recv_ctr + 1>>
             /\ chan.recv_ctr < server[c].chan.send_ctr /\ client[c].pin \in {NoPin, server[c].id}
             /\ Received(chan, m) \in Chans /\ Received(chan, m).recv_ctr = chan.recv_ctr + 1
             /\ Received(chan, m).send_ctr = chan.send_ctr
             /\ Received(chan, m).send_key = chan.send_key
             /\ Received(chan, m).recv_key = chan.recv_key
  <2>1. /\ m \in sealed /\ m.key = chan.recv_key /\ m.ctr = chan.recv_ctr
        /\ Received(chan, m) \in Chans /\ Received(chan, m).recv_ctr = chan.recv_ctr + 1
        /\ Received(chan, m).send_ctr = chan.send_ctr
        /\ Received(chan, m).send_key = chan.send_key
        /\ Received(chan, m).recv_key = chan.recv_key
    BY <1>0, <1>1, <1>3, OpensHas
  <2>2. FromServer(m, c) /\ ServerKey(c)
    BY <1>1, <2>1, OpenedByClient
  <2>3. m.body.id \in Ids
    BY <1>0, <2>1 DEF Types, Frames
  <2>4. client[c].pin \in {NoPin, server[c].id}
    BY <1>1, <2>1, <2>2, SharedKey DEF FromServer
  <2> QED BY <2>1, <2>2, <2>3, <2>4 DEF FromServer
<1>4. /\ client'[c] \in Clients /\ client'[c].pin = client[c].pin
      /\ client'[c].chan.send_ctr = chan.send_ctr
      /\ client'[c].chan.send_key = chan.send_key /\ client'[c].chan.recv_key = chan.recv_key
      /\ ok => client'[c].st = "following" /\ client'[c].chan.recv_ctr = chan.recv_ctr + 1
      /\ ~ok => client'[c].st = "closed" /\ client'[c].chan.recv_ctr = chan.recv_ctr
  <2>1. CASE ok
    BY <1>0, <1>2, <1>3, <2>1 DEF Clients
  <2>2. CASE ~ok
    BY <1>0, <1>2, <2>2 DEF Clients
  <2> QED BY <2>1, <2>2
<1>5. /\ toClient'[c] \in Seq(Messages)
      /\ \A i \in 1..Len(toClient'[c]) :
           i + 1 \in 1..Len(toClient[c]) /\ toClient'[c][i] = toClient[c][i + 1]
  BY <1>0, <1>2, TailHas
<1>6. /\ applied'[c] \in Seq(Ids)
      /\ ok => Len(applied'[c]) = Len(applied[c]) + 1
      /\ \A i \in 1..Len(applied'[c]) : applied'[c][i] = <<c, i>>
  <2>0. \A i \in 1..Len(applied[c]) : applied[c][i] = <<c, i>>
    BY <1>0 DEF ConnOK, StreamInv
  <2>1. CASE ok
    <3>1. /\ applied'[c] \in Seq(Ids) /\ Len(applied'[c]) = Len(applied[c]) + 1
          /\ applied'[c][Len(applied[c]) + 1] = m.body.id
          /\ \A i \in 1..Len(applied[c]) : applied'[c][i] = applied[c][i]
          /\ \A i \in 1..(Len(applied[c]) + 1) : i \in 1..Len(applied[c]) \/ i = Len(applied[c]) + 1
      <4>1. applied'[c] = Append(applied[c], m.body.id) /\ m.body.id \in Ids /\ applied[c] \in Seq(Ids)
        BY <1>0, <1>2, <1>3, <2>1
      <4> QED BY <4>1, AppendHas
    <3> QED BY <1>1, <1>3, <2>0, <2>1, <3>1
  <2>2. CASE ~ok
    BY <1>0, <1>2, <2>0, <2>2
  <2> QED BY <2>1, <2>2
<1>7. Types'
  BY <1>0, <1>2, <1>4, <1>5, <1>6 DEF Types, FollowRecord
<1>8. outcome[c] = <<>> /\ Len(<<>>) = 0 /\ \A i : i \notin 1..0
  BY <1>0 DEF ConnOK, OutcomeInv
<1>9. ConnOK(c)'
  <2>1. KeyInv(c)'
    <3>1. ClientKey(c)'
      BY <1>1, <1>4 DEF ClientKey
    <3> QED BY <1>0, <1>2, <1>4, <3>1 DEF ConnOK, KeyInv, ServerKey
  <2>2. QueueInv(c)'
    <3>1. QueueInv(c)
      BY <1>0 DEF ConnOK
    <3>2. \A i \in 1..Len(toClient'[c]) : toClient'[c][i] \in sealed \cup {Damaged}
      BY <1>0, <1>5, <3>1 DEF QueueInv
    <3>3. client'[c].st \in {"following", "closed"}
      BY <1>4
    <3> QED BY <1>1, <1>2, <3>1, <3>2, <3>3 DEF QueueInv
  <2>3. ServeInv(c)'
    <3>1. client'[c].chan.recv_ctr <= server[c].chan.send_ctr
      <4>1. CASE ok
        BY <1>0, <1>3, <1>4, <4>1
      <4>2. CASE ~ok
        BY <1>0, <1>4, <4>2 DEF ConnOK, ServeInv
      <4> QED BY <4>1, <4>2
    <3>2. /\ client'[c].chan.send_ctr = chan.send_ctr /\ client'[c].st \in {"following", "closed"}
          /\ server'[c] = server[c] /\ served'[c] = served[c] /\ Records(c)' = Records(c)
      BY <1>2, <1>4 DEF Records
    <3>3. ServeInv(c)
      BY <1>0 DEF ConnOK
    <3> QED BY <3>1, <3>2, <3>3 DEF ServeInv
  <2>4. StreamInv(c)'
    BY <1>1, <1>4, <1>6 DEF StreamInv
  <2>5. FlightInv(c)'
    BY <1>4 DEF FlightInv
  <2>6. OutcomeInv(c)' /\ AnswerInv(c)'
    BY <1>2, <1>4, <1>8 DEF OutcomeInv, AnswerInv
  <2>7. PinInv(c)'
    <3>1. CASE ok
      BY <1>2, <1>3, <1>4, <3>1 DEF PinInv
    <3>2. CASE ~ok
      BY <1>0, <1>2, <1>4, <3>2 DEF ConnOK, PinInv
    <3> QED BY <3>1, <3>2
  <2> QED BY <2>1, <2>2, <2>3, <2>4, <2>5, <2>6, <2>7 DEF ConnOK
<1>10. \A g \in sealed : FromClient(g, c) => FromClient(g, c)'
  BY <1>4 DEF FromClient
<1>11. \A g \in sealed : FromServer(g, c) => FromServer(g, c)'
  BY <1>2, <1>4 DEF FromServer
<1> QED BY <1>2, <1>7, <1>9, <1>10, <1>11, QuietStep

-----------------------------------------------------------------------------
(* Every step preserves the invariant.                                     *)
LEMMA StepInv == IInv /\ [Next]_vars => IInv'
<1> SUFFICES ASSUME IInv, [Next]_vars PROVE IInv'
  OBVIOUS
<1>1. CASE UNCHANGED vars
  <2>1. Types' /\ SealedInv' /\ NonceNeverReused'
    BY <1>1 DEF vars, IInv, Types, SealedInv, NonceNeverReused, FromClient, FromServer
  <2>2. ASSUME NEW c \in Conns PROVE ConnOK(c)'
    <3>1. ConnOK(c)
      BY DEF IInv
    <3>2. KeyInv(c)' /\ QueueInv(c)'
      BY <1>1, <3>1 DEF vars, ConnOK, KeyInv, QueueInv, ClientKey, ServerKey
    <3>3. ServeInv(c)' /\ StreamInv(c)' /\ PinInv(c)'
      BY <1>1, <3>1 DEF vars, ConnOK, ServeInv, StreamInv, PinInv, Records
    <3>4. FlightInv(c)' /\ OutcomeInv(c)' /\ AnswerInv(c)'
      BY <1>1, <3>1, AnswersStay DEF vars, ConnOK, FlightInv, OutcomeInv, Doomed
    <3> QED BY <3>2, <3>3, <3>4 DEF ConnOK
  <2> QED BY <2>1, <2>2 DEF IInv
<1>2. ASSUME NEW c \in Conns, NEW s \in Servers, NEW pin \in Servers \cup {NoPin}, Connect(c, s, pin)
      PROVE  IInv'
  BY <1>2, ConnectInv
<1>3. ASSUME NEW c \in Conns, (\E public \in Servers : ServerRespond(c, public)) \/ ClientFinish(c)
      PROVE  IInv'
  BY <1>3, ServerRespondInv, ClientFinishInv
<1>4. ASSUME NEW c \in Conns, NEW op \in {"read", "write"}, NEW big \in BOOLEAN, Request(c, op, big)
      PROVE  IInv'
  BY <1>4, RequestInv
<1>5. ASSUME NEW c \in Conns, Request(c, "subscribe", FALSE) PROVE IInv'
  BY <1>5, RequestInv
<1>6. ASSUME NEW c \in Conns, NEW status \in {"ok", "err"}, NEW big \in BOOLEAN, Serve(c, status, big)
      PROVE  IInv'
  BY <1>6, ServeStepInv
<1>7. ASSUME NEW c \in Conns, ServeEnds(c) \/ Subscribe(c) \/ \E big \in BOOLEAN : Push(c, big)
      PROVE  IInv'
  BY <1>7, ServerEndsInv, SubscribeInv, PushInv
<1>8. ASSUME NEW c \in Conns, Receive(c) \/ FollowRecord(c) \/ EndOfStream(c) PROVE IInv'
  BY <1>8, ReceiveInv, FollowRecordInv, EndOfStreamInv
<1>9. ASSUME NEW c \in Conns, CutOff(c) \/ DamageFrame(c) \/ \E f \in sealed : RepeatFrame(c, f)
      PROVE  IInv'
  BY <1>9, ServerEndsInv, DamageFrameInv, RepeatFrameInv
<1> QED BY <1>1, <1>2, <1>3, <1>4, <1>5, <1>6, <1>7, <1>8, <1>9 DEF Next

(* The invariant holds in every reachable state.                           *)
LEMMA Invariance == Spec => []IInv
BY InitInv, StepInv, PTL DEF Spec

-----------------------------------------------------------------------------
(* What the invariant says.                                                *)

(* No key seals two frames under one counter, in either direction, on any  *)
(* number of connections.                                                  *)
THEOREM NoncesAreUnique == Spec => []NonceNeverReused
<1>1. IInv => NonceNeverReused
  BY DEF IInv
<1> QED BY <1>1, Invariance, PTL

(* Requests are carried out in the order they were made, each at most      *)
(* once; the answers handed to callers are the server's, in its order and  *)
(* each once, and answer the request in hand unless a frame was repeated   *)
(* to the client; a follower applies a prefix of its stream, whatever the  *)
(* network damages, repeats or cuts off.                                   *)
THEOREM FramesKeepTheirOrder == Spec => []FramesInOrder
<1>1. IInv => FramesInOrder
  <2> SUFFICES ASSUME IInv PROVE FramesInOrder
    OBVIOUS
  <2> SUFFICES ASSUME NEW c \in Conns
               PROVE  /\ client[c].st \in {"new", "hello", "ready", "waiting", "following", "closed"}
                      /\ server[c].st \in {"new", "accepted", "serving", "pushing", "closed"}
                      /\ client[c].pin \in Servers \cup {NoPin} /\ server[c].id \in Servers \cup {None}
                      /\ client[c].chan.recv_ctr <= server[c].chan.send_ctr
                      /\ server[c].chan.recv_ctr <= client[c].chan.send_ctr
                      /\ Len(served[c]) <= client[c].chan.send_ctr
                      /\ \A i \in DOMAIN served[c] : served[c][i].id = <<c, i>>
                      /\ \A i \in DOMAIN outcome[c] : outcome[c][i].status # "io" =>
                           \E k \in 1..i :
                             /\ outcome[c][i].answer = <<c, k>>
                             /\ [id |-> <<c, k>>, status |-> outcome[c][i].status]
                                  \in {served[c][j] : j \in DOMAIN served[c]}
                             /\ k = i \/ c \in inserted
                             /\ \A j \in 1..(i - 1) : outcome[c][j].answer # <<c, k>>
                             /\ \A l \in 1..(k - 1) : \E j \in 1..(i - 1) : outcome[c][j].answer = <<c, l>>
                      /\ \A i \in DOMAIN applied[c] : applied[c][i] = <<c, i>>
    BY DEF FramesInOrder, TypeOK, ServedInOrder, AnswersMatch, StreamIsPrefix
  <2>1. /\ client[c] \in Clients /\ server[c] \in Threads /\ ConnOK(c)
        /\ client[c].chan.send_ctr \in Nat /\ server[c].chan.recv_ctr \in Nat
        /\ Len(served[c]) \in Nat
    BY ConnHas
  <2>2. DOMAIN served[c] = 1..Len(served[c]) /\ DOMAIN outcome[c] = 1..Len(outcome[c])
          /\ DOMAIN applied[c] = 1..Len(applied[c])
    <3>1. /\ served[c] \in Seq([id : Ids, status : {"ok", "err"}]) /\ applied[c] \in Seq(Ids)
          /\ outcome[c] \in Seq([status : Ops \cup {"io"}, answer : Ids \cup {<<>>}])
      BY DEF IInv, Types
    <3> QED BY <3>1
  <2>3. ServeInv(c) /\ StreamInv(c) /\ AnswerInv(c)
    BY <2>1 DEF ConnOK
  <2>4. /\ client[c].chan.recv_ctr <= server[c].chan.send_ctr
        /\ server[c].chan.recv_ctr <= client[c].chan.send_ctr
        /\ Len(served[c]) <= client[c].chan.send_ctr
        /\ \A i \in DOMAIN served[c] : served[c][i].id = <<c, i>>
    BY <2>1, <2>2, <2>3 DEF ServeInv
  <2>5. \A i \in DOMAIN applied[c] : applied[c][i] = <<c, i>>
    BY <2>2, <2>3 DEF StreamInv
  <2>6. ASSUME NEW i \in DOMAIN outcome[c], outcome[c][i].status # "io"
        PROVE  \E k \in 1..i :
                 /\ outcome[c][i].answer = <<c, k>>
                 /\ [id |-> <<c, k>>, status |-> outcome[c][i].status]
                      \in {served[c][j] : j \in DOMAIN served[c]}
                 /\ k = i \/ c \in inserted
                 /\ \A j \in 1..(i - 1) : outcome[c][j].answer # <<c, k>>
                 /\ \A l \in 1..(k - 1) : \E j \in 1..(i - 1) : outcome[c][j].answer = <<c, l>>
    <3>1. i \in 1..Len(outcome[c])
      BY <2>2
    <3>2. PICK k \in 1..i : Answered(c, i, k)
      BY <2>3, <2>6, <3>1 DEF AnswerInv
    <3>3. k \in DOMAIN served[c] /\ served[c][k] = [id |-> <<c, k>>, status |-> outcome[c][i].status]
      BY <2>1, <2>2, <3>1, <3>2 DEF Answered
    <3>4. [id |-> <<c, k>>, status |-> outcome[c][i].status] \in {served[c][j] : j \in DOMAIN served[c]}
      BY <3>3
    <3> QED BY <3>2, <3>4 DEF Answered
  <2>7. /\ client[c].st \in {"new", "hello", "ready", "waiting", "following", "closed"}
        /\ server[c].st \in {"new", "accepted", "serving", "pushing", "closed"}
        /\ client[c].pin \in Servers \cup {NoPin} /\ server[c].id \in Servers \cup {None}
    BY <2>1 DEF Clients, Threads
  <2> QED BY <2>4, <2>5, <2>6, <2>7
<1> QED BY <1>1, Invariance, PTL

(* After a request has failed in transit no later request on the           *)
(* connection gets its own answer, and none succeeds unless a frame was    *)
(* repeated to the client.                                                 *)
THEOREM FailuresAreFinal == Spec => []FailureIsFinal
<1>1. IInv => FailureIsFinal
  <2> SUFFICES ASSUME IInv, NEW c \in Conns, NEW i \in DOMAIN outcome[c], NEW j \in DOMAIN outcome[c],
                      i < j, outcome[c][i].status = "io", outcome[c][j].status # "io"
               PROVE  c \in inserted /\ \E k \in 1..(j - 1) : outcome[c][j].answer = <<c, k>>
    BY DEF FailureIsFinal
  <2>1. DOMAIN outcome[c] = 1..Len(outcome[c]) /\ OutcomeInv(c) /\ AnswerInv(c)
    <3>1. outcome[c] \in Seq([status : Ops \cup {"io"}, answer : Ids \cup {<<>>}])
      BY DEF IInv, Types
    <3> QED BY <3>1 DEF IInv, ConnOK
  <2>2. c \in inserted
    BY <2>1 DEF OutcomeInv
  <2>3. PICK k \in 1..j : Answered(c, j, k)
    BY <2>1 DEF AnswerInv
  <2>4. i \in 1..(j - 1)
    BY <2>1
  <2>5. k < j /\ outcome[c][j].answer = <<c, k>>
    BY <2>3, <2>4 DEF Answered
  <2>6. k \in 1..(j - 1)
    BY <2>1, <2>3, <2>5
  <2> QED BY <2>2, <2>5, <2>6
<1> QED BY <1>1, Invariance, PTL

(* A client that pins a key exchanges nothing with a server that does not  *)
(* have its secret, also when that server announces the pinned key.        *)
THEOREM PinsAuthenticate == Spec => []PinnedIsAuthentic
<1>1. IInv => PinnedIsAuthentic
  <2> SUFFICES ASSUME IInv, NEW c \in Conns, client[c].pin # NoPin, client[c].pin # server[c].id
               PROVE  /\ served[c] = <<>> /\ applied[c] = <<>>
                      /\ \A i \in DOMAIN outcome[c] : outcome[c][i].status = "io"
    BY DEF PinnedIsAuthentic
  <2>1. DOMAIN outcome[c] = 1..Len(outcome[c]) /\ PinInv(c)
    <3>1. outcome[c] \in Seq([status : Ops \cup {"io"}, answer : Ids \cup {<<>>}])
      BY DEF IInv, Types
    <3> QED BY <3>1 DEF IInv, ConnOK
  <2> QED BY <2>1 DEF PinInv
<1> QED BY <1>1, Invariance, PTL
=============================================================================

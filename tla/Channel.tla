------------------------------- MODULE Channel -------------------------------
(***************************************************************************)
(* ciphra-net and ciphra-crypto/hybrid: the handshake, the sealed channel  *)
(* under every connection, the request/response loop of a client           *)
(* (RemoteStorage) and the one-way stream of a follower.                   *)
(*                                                                         *)
(* Cryptography is symbolic: a key is the record of what went into it, a   *)
(* sealed frame names its key and counter and opens under exactly those.   *)
(* The network keeps the order of each direction; it may cut a connection, *)
(* damage a frame, and repeat to either end a frame it has carried before. *)
(***************************************************************************)
EXTENDS Naturals, Sequences, FiniteSets

CONSTANTS Conns,        \* connections, each with a server thread of its own
          Servers,      \* transport identities
          Honest,       \* the servers that announce their own public key
          NoPin,        \* "trust on first use"
          None,         \* "nothing yet"
          MaxRequests,  \* bound: requests per connection
          MaxRecords,   \* bound: replication records per subscription
          MaxFaults     \* bound: damaged, repeated and cut-off frames

ASSUME HonestAreServers == Honest \subseteq Servers
ASSUME NoPinIsNoServer  == NoPin \notin Servers
ASSUME BoundsAreNat     == {MaxRequests, MaxRecords, MaxFaults} \subseteq Nat

VARIABLES client,    \* each connection's client end
          server,    \* each connection's server end
          toServer,  \* messages on their way to the server
          toClient,  \* messages on their way to the client
          faults,    \* how many faults have happened
          inserted,  \* history: connections whose client was sent a frame twice
          sealed,    \* history: every frame sealed so far
          served,    \* history: the requests each server thread carried out
          outcome,   \* history: what each request returned to its caller
          applied    \* history: the records each follower applied

vars == <<client, server, toServer, toClient, faults, inserted, sealed, served, outcome, applied>>

-----------------------------------------------------------------------------
(* X25519: both sides compute the same secret from one half each.          *)
DiffieHellman(secret, public) == {secret, public}

(* ML-KEM: decapsulating a ciphertext made for another key gives a secret  *)
(* nobody else has.                                                        *)
Encapsulate(ek, c) == [ek |-> ek, coins |-> c]
Decapsulate(dk, ct) == IF ct.ek = dk THEN <<ct>> ELSE <<ct, dk>>

EphC(c) == <<"client ephemeral", c>>
EphS(c) == <<"server ephemeral", c>>
Static(s) == <<"static", s>>

ASSUME NoneIsNoKey == \A c \in Conns : None \notin {EphC(c), EphS(c)}

BugKeyWithoutStatic(dh_e, dh_s, ss_pq, hello, reply) ==
  <<dh_e, ss_pq, hello.e_c, hello.ek, reply.e_s, reply.ct>>

derive_key(dh_e, dh_s, ss_pq, hello, reply) ==
  <<dh_e, dh_s, ss_pq, hello.e_c, hello.ek, reply.e_s, reply.ct>>

(* client_start and server_respond; a server that is not honest announces  *)
(* a public key whose secret it does not have.                             *)
client_start(c) == [e_c |-> EphC(c), ek |-> EphC(c)]
server_hello(c, hello) == [e_s |-> EphS(c), ct |-> Encapsulate(hello.ek, c)]
server_respond(c, s, hello) ==
  derive_key(DiffieHellman(EphS(c), hello.e_c), DiffieHellman(Static(s), hello.e_c),
             <<server_hello(c, hello).ct>>, hello, server_hello(c, hello))
client_finish(c, reply, public) ==
  derive_key(DiffieHellman(EphC(c), reply.e_s), DiffieHellman(EphC(c), Static(public)),
             Decapsulate(EphC(c), reply.ct), client_start(c), reply)

(* Channel::new: one key per direction, the client's two swapped.          *)
BugOneKey(secret, isClient) ==
  [send_key |-> <<secret, "c2s">>, recv_key |-> <<secret, "c2s">>, send_ctr |-> 0, recv_ctr |-> 0]

Channel(secret, isClient) ==
  [send_key |-> <<secret, IF isClient THEN "c2s" ELSE "s2c">>,
   recv_key |-> <<secret, IF isClient THEN "s2c" ELSE "c2s">>,
   send_ctr |-> 0, recv_ctr |-> 0]

NoChannel == [send_key |-> None, recv_key |-> None, send_ctr |-> 0, recv_ctr |-> 0]

(* channel_seal; `big` marks a frame longer than MAX_FRAME.                *)
Seal(chan, body, big) ==
  [kind |-> "sealed", key |-> chan.send_key, ctr |-> chan.send_ctr, body |-> body, big |-> big]
Sent(chan) == [chan EXCEPT !.send_ctr = @ + 1]

(* read_frame refuses a frame that is too long; channel_open.              *)
TooLong(f) == f.kind = "sealed" /\ f.big

BugOpensAnyCounter(chan, f) == f.kind = "sealed" /\ f.key = chan.recv_key

Opens(chan, f) ==
  f.kind = "sealed" /\ f.key = chan.recv_key /\ f.ctr = chan.recv_ctr

(* Channel::recv on the frame in front: the counter advances only when the *)
(* frame opens.                                                            *)
BugCountsFailures(chan, f) == [chan EXCEPT !.recv_ctr = @ + 1]

Received(chan, f) ==
  IF Opens(chan, f) THEN [chan EXCEPT !.recv_ctr = @ + 1] ELSE chan

Hello(h) == [kind |-> "client hello", hello |-> h]
Reply(s, r) == [kind |-> "server hello", public |-> s, reply |-> r]

(* A damaged hello keeps its length and carries other keys; one of another *)
(* length makes from_bytes fail, which ends the connection (CutOff).       *)
Damage(m) ==
  CASE m.kind = "client hello" -> Hello([e_c |-> None, ek |-> None])
    [] m.kind = "server hello" -> Reply(m.public, [e_s |-> None, ct |-> Encapsulate(None, None)])
    [] OTHER                   -> [kind |-> "damaged"]

Init ==
  /\ client = [c \in Conns |-> [st |-> "new", pin |-> NoPin, chan |-> NoChannel,
                              aligned |-> TRUE]]
  /\ server = [c \in Conns |-> [st |-> "new", id |-> None, chan |-> NoChannel]]
  /\ toServer = [c \in Conns |-> <<>>]
  /\ toClient = [c \in Conns |-> <<>>]
  /\ faults = 0
  /\ inserted = {}
  /\ sealed = {}
  /\ served = [c \in Conns |-> <<>>]
  /\ outcome = [c \in Conns |-> <<>>]
  /\ applied = [c \in Conns |-> <<>>]

-----------------------------------------------------------------------------
(* RemoteStorage::connect or follow reaches a server s; serve starts a     *)
(* thread for the connection.                                              *)
Connect(c, s, pin) ==
  /\ client[c].st = "new"
  /\ client' = [client EXCEPT ![c].st = "hello", ![c].pin = pin]
  /\ server' = [server EXCEPT ![c].st = "accepted", ![c].id = s]
  /\ toServer' = [toServer EXCEPT ![c] = <<Hello(client_start(c))>>]
  /\ UNCHANGED <<toClient, faults, inserted, sealed, served, outcome, applied>>

(* handle_connection up to the loop.                                       *)
ServerRespond(c, public) ==
  /\ server[c].st = "accepted" /\ toServer[c] # <<>>
  /\ public = server[c].id \/ server[c].id \notin Honest
  /\ LET h == Head(toServer[c]).hello
     IN  /\ server' = [server EXCEPT ![c].st = "serving",
                         ![c].chan = Channel(server_respond(c, server[c].id, h), FALSE)]
         /\ toClient' = [toClient EXCEPT ![c] = Append(@, Reply(public, server_hello(c, h)))]
  /\ toServer' = [toServer EXCEPT ![c] = Tail(@)]
  /\ UNCHANGED <<client, faults, inserted, sealed, served, outcome, applied>>

(* client_handshake: the announced key must be the pinned one.             *)
ClientFinish(c) ==
  /\ client[c].st = "hello" /\ toClient[c] # <<>>
  /\ LET m == Head(toClient[c]) IN
       client' = [client EXCEPT ![c] =
         IF @.pin \in {NoPin, m.public}
         THEN [@ EXCEPT !.st = "ready",
                        !.chan = Channel(client_finish(c, m.reply, m.public), TRUE)]
         ELSE [@ EXCEPT !.st = "closed"]]
  /\ toClient' = [toClient EXCEPT ![c] = Tail(@)]
  /\ UNCHANGED <<server, toServer, faults, inserted, sealed, served, outcome, applied>>

-----------------------------------------------------------------------------
(* RemoteStorage::get, scan_prefix, dump, put, delete and commit share     *)
(* roundtrip: send the request, then wait for one frame. A request may be  *)
(* too big (a commit of many rows). follow sends SUBSCRIBE the same way.   *)
Request(c, op, big) ==
  /\ client[c].st = "ready"
  /\ client[c].chan.send_ctr < MaxRequests
  /\ op = "subscribe" => client[c].chan.send_ctr = 0
  /\ big => op = "write"
  /\ LET f == Seal(client[c].chan, [op |-> op, id |-> <<c, Len(outcome[c]) + 1>>], big) IN
       /\ toServer' = IF server[c].st = "closed" THEN toServer
                      ELSE [toServer EXCEPT ![c] = Append(@, f)]
       /\ sealed' = sealed \cup {f}
  /\ client' = [client EXCEPT ![c].st = IF op = "subscribe" THEN "following" ELSE "waiting",
                              ![c].chan = Sent(@)]
  /\ UNCHANGED <<server, toClient, faults, inserted, served, outcome, applied>>

(* One turn of handle_connection's loop. A frame that is too long or does  *)
(* not open ends the thread; a request handle_request refuses is answered  *)
(* with an error and the loop goes on. A DUMP or SCAN answer may be big.   *)
Serve(c, status, big) ==
  /\ server[c].st = "serving" /\ toServer[c] # <<>>
  /\ LET f == Head(toServer[c])
         chan == Received(server[c].chan, f)
         a == Seal(chan, [op |-> status, id |-> f.body.id], big)
     IN  /\ Opens(server[c].chan, f) /\ ~TooLong(f) /\ f.body.op # "subscribe"
         /\ big => f.body.op = "read" /\ status = "ok"
         /\ served' = [served EXCEPT ![c] = Append(@, [id |-> f.body.id, status |-> status])]
         /\ server' = [server EXCEPT ![c].chan = Sent(chan)]
         /\ toClient' = [toClient EXCEPT ![c] = Append(@, a)]
         /\ sealed' = sealed \cup {a}
  /\ toServer' = [toServer EXCEPT ![c] = Tail(@)]
  /\ UNCHANGED <<client, faults, inserted, outcome, applied>>

BugIgnoresBadFrame(c) ==
  /\ server[c].st = "serving" /\ toServer[c] # <<>>
  /\ LET f == Head(toServer[c]) IN ~Opens(server[c].chan, f) \/ TooLong(f)
  /\ toServer' = [toServer EXCEPT ![c] = Tail(@)]
  /\ UNCHANGED <<client, server, toClient, faults, inserted, sealed, served, outcome, applied>>

ServeEnds(c) ==
  /\ server[c].st = "serving" /\ toServer[c] # <<>>
  /\ LET f == Head(toServer[c]) IN ~Opens(server[c].chan, f) \/ TooLong(f)
  /\ server' = [server EXCEPT ![c].st = "closed"]
  /\ toServer' = [toServer EXCEPT ![c] = <<>>]
  /\ UNCHANGED <<client, toClient, faults, inserted, sealed, served, outcome, applied>>

(* SUBSCRIBE turns the connection into the push loop of                    *)
(* stream_to_subscriber, which sends its records and never reads again.    *)
Subscribe(c) ==
  /\ server[c].st = "serving" /\ toServer[c] # <<>>
  /\ LET f == Head(toServer[c]) IN
       /\ Opens(server[c].chan, f) /\ ~TooLong(f) /\ f.body.op = "subscribe"
       /\ server' = [server EXCEPT ![c].st = "pushing", ![c].chan = Received(@, f)]
  /\ toServer' = [toServer EXCEPT ![c] = Tail(@)]
  /\ UNCHANGED <<client, toClient, faults, inserted, sealed, served, outcome, applied>>

Push(c, big) ==
  /\ server[c].st = "pushing"
  /\ server[c].chan.send_ctr < MaxRecords
  /\ LET n == Cardinality({f \in sealed : f.key = server[c].chan.send_key /\ f.body.op = "record"})
         f == Seal(server[c].chan, [op |-> "record", id |-> <<c, n + 1>>], big)
     IN  /\ toClient' = [toClient EXCEPT ![c] = Append(@, f)]
         /\ sealed' = sealed \cup {f}
  /\ server' = [server EXCEPT ![c].chan = Sent(@)]
  /\ UNCHANGED <<client, toServer, faults, inserted, served, outcome, applied>>

-----------------------------------------------------------------------------
(* The second half of roundtrip. read_frame refuses a frame that is too    *)
(* long and leaves its bytes in the stream, so nothing that follows starts *)
(* at a frame boundary. Whatever goes wrong, the caller gets an error and  *)
(* the RemoteStorage stays in use with its counters where they are.        *)
Readable(c, m) == client[c].aligned /\ ~TooLong(m)

Receive(c) ==
  /\ client[c].st = "waiting" /\ toClient[c] # <<>>
  /\ LET m == Head(toClient[c])
         ok == Readable(c, m) /\ Opens(client[c].chan, m)
     IN  /\ outcome' = [outcome EXCEPT ![c] = Append(@,
               IF ok THEN [status |-> m.body.op, answer |-> m.body.id]
               ELSE [status |-> "io", answer |-> <<>>])]
         /\ client' = [client EXCEPT ![c].st = "ready", ![c].aligned = Readable(c, m),
               ![c].chan = IF Readable(c, m) THEN Received(@, m) ELSE @]
  /\ toClient' = [toClient EXCEPT ![c] = Tail(@)]
  /\ UNCHANGED <<server, toServer, faults, inserted, sealed, served, applied>>

(* follow: apply_record on each frame; any error ends it.                  *)
FollowRecord(c) ==
  /\ client[c].st = "following" /\ toClient[c] # <<>>
  /\ LET m == Head(toClient[c]) IN
       IF Readable(c, m) /\ Opens(client[c].chan, m)
       THEN /\ applied' = [applied EXCEPT ![c] = Append(@, m.body.id)]
            /\ client' = [client EXCEPT ![c].chan = Received(@, m)]
       ELSE /\ client' = [client EXCEPT ![c].st = "closed"]
            /\ UNCHANGED applied
  /\ toClient' = [toClient EXCEPT ![c] = Tail(@)]
  /\ UNCHANGED <<server, toServer, faults, inserted, sealed, served, outcome>>

(* The stream ends while the client waits for a frame.                     *)
EndOfStream(c) ==
  /\ server[c].st = "closed" /\ toClient[c] = <<>>
  /\ client[c].st \in {"hello", "waiting", "following"}
  /\ IF client[c].st = "waiting"
     THEN /\ outcome' = [outcome EXCEPT ![c] = Append(@, [status |-> "io", answer |-> <<>>])]
          /\ client' = [client EXCEPT ![c].st = "ready"]
     ELSE /\ client' = [client EXCEPT ![c].st = "closed"]
          /\ UNCHANGED outcome
  /\ UNCHANGED <<server, toServer, toClient, faults, inserted, sealed, served, applied>>

(* Faults of the network.                                                  *)
CutOff(c) ==
  /\ faults < MaxFaults /\ server[c].st \notin {"new", "closed"}
  /\ faults' = faults + 1
  /\ server' = [server EXCEPT ![c].st = "closed"]
  /\ toServer' = [toServer EXCEPT ![c] = <<>>]
  /\ toClient' = [toClient EXCEPT ![c] = <<>>]
  /\ UNCHANGED <<client, inserted, sealed, served, outcome, applied>>

DamageFrame(c) ==
  /\ faults < MaxFaults
  /\ faults' = faults + 1
  /\ \/ /\ toServer[c] # <<>> /\ Head(toServer[c]).kind # "damaged"
        /\ toServer' = [toServer EXCEPT ![c][1] = Damage(@)]
        /\ UNCHANGED toClient
     \/ /\ toClient[c] # <<>> /\ Head(toClient[c]).kind # "damaged"
        /\ toClient' = [toClient EXCEPT ![c][1] = Damage(@)]
        /\ UNCHANGED toServer
  /\ UNCHANGED <<client, server, inserted, sealed, served, outcome, applied>>

(* A frame carried before arrives once more, ahead of what is on its way.  *)
(* Nothing arrives at a client whose stream has ended.                     *)
RepeatFrame(c, f) ==
  /\ faults < MaxFaults
  /\ faults' = faults + 1
  /\ \/ /\ server[c].st = "serving"
        /\ toServer' = [toServer EXCEPT ![c] = <<f>> \o @]
        /\ UNCHANGED <<toClient, inserted>>
     \/ /\ client[c].st \in {"ready", "waiting", "following"}
        /\ server[c].st # "closed" \/ toClient[c] # <<>>
        /\ toClient' = [toClient EXCEPT ![c] = <<f>> \o @]
        /\ inserted' = inserted \cup {c}
        /\ UNCHANGED toServer
  /\ UNCHANGED <<client, server, sealed, served, outcome, applied>>

Next ==
  \E c \in Conns :
    \/ \E s \in Servers, pin \in Servers \cup {NoPin} : Connect(c, s, pin)
    \/ \E public \in Servers : ServerRespond(c, public)
    \/ ClientFinish(c)
    \/ \E op \in {"read", "write"}, big \in BOOLEAN : Request(c, op, big)
    \/ Request(c, "subscribe", FALSE)
    \/ \E status \in {"ok", "err"}, big \in BOOLEAN : Serve(c, status, big)
    \/ ServeEnds(c)
    \/ Subscribe(c)
    \/ \E big \in BOOLEAN : Push(c, big)
    \/ Receive(c)
    \/ FollowRecord(c)
    \/ EndOfStream(c)
    \/ CutOff(c)
    \/ DamageFrame(c)
    \/ \E f \in sealed : RepeatFrame(c, f)

(* The server thread answers what arrives and notices a broken connection; *)
(* the client reads what arrives while it is at a frame boundary. Nobody   *)
(* has to send a request.                                                  *)
Fairness ==
  \A c \in Conns :
    /\ WF_vars(\E status \in {"ok", "err"}, big \in BOOLEAN : Serve(c, status, big))
    /\ WF_vars(ServeEnds(c))
    /\ WF_vars(client[c].aligned /\ Receive(c))
    /\ WF_vars(EndOfStream(c))

Spec == Init /\ [][Next]_vars /\ Fairness

-----------------------------------------------------------------------------
(* Type invariant: counters never run ahead of the frames they count.      *)
TypeOK ==
  \A c \in Conns :
    /\ client[c].st \in {"new", "hello", "ready", "waiting", "following", "closed"}
    /\ server[c].st \in {"new", "accepted", "serving", "pushing", "closed"}
    /\ client[c].pin \in Servers \cup {NoPin} /\ server[c].id \in Servers \cup {None}
    /\ client[c].chan.recv_ctr <= server[c].chan.send_ctr
    /\ server[c].chan.recv_ctr <= client[c].chan.send_ctr

(* "A frame sent one way can never collide (nonce reuse) with one sent the *)
(* other": no key seals two different frames under one counter.            *)
NonceNeverReused ==
  \A f, g \in sealed : (f.key = g.key /\ f.ctr = g.ctr) => f = g

(* A server thread carries out the requests of its own client, in the      *)
(* order they were made and each at most once, whatever is damaged or      *)
(* repeated: roundtrip never retries and the counters admit no repetition. *)
ServedInOrder ==
  \A c \in Conns : /\ Len(served[c]) <= client[c].chan.send_ctr
                   /\ \A i \in DOMAIN served[c] : served[c][i].id = <<c, i>>

(* The answers handed to callers are the server's own, in the order it     *)
(* gave them, none twice and none passed over. A request gets no answer to *)
(* a later one, and its own unless the network repeated a frame to the     *)
(* client: recv fails on the repeated frame without advancing its counter, *)
(* and the answer in hand is left to the next request.                     *)
AnswersMatch ==
  \A c \in Conns : \A i \in DOMAIN outcome[c] :
    outcome[c][i].status # "io" =>
      \E k \in 1..i :
        /\ outcome[c][i].answer = <<c, k>>
        /\ [id |-> <<c, k>>, status |-> outcome[c][i].status] \in {served[c][j] : j \in DOMAIN served[c]}
        /\ k = i \/ c \in inserted
        /\ \A j \in 1..(i - 1) : outcome[c][j].answer # <<c, k>>
        /\ \A l \in 1..(k - 1) : \E j \in 1..(i - 1) : outcome[c][j].answer = <<c, l>>

(* A request that failed in transit may or may not have been carried out.  *)
(* No later request on the connection gets the answer to itself again:     *)
(* they all fail too, unless the network repeated a frame to the client,   *)
(* and then they succeed with the answer to an earlier request.            *)
FailureIsFinal ==
  \A c \in Conns : \A i, j \in DOMAIN outcome[c] :
    (i < j /\ outcome[c][i].status = "io" /\ outcome[c][j].status # "io") =>
      c \in inserted /\ \E k \in 1..(j - 1) : outcome[c][j].answer = <<c, k>>

(* A client that pins a key is answered by, and changes, no other server,  *)
(* even one that announces the pinned key as its own.                      *)
PinnedIsAuthentic ==
  \A c \in Conns :
    (client[c].pin # NoPin /\ client[c].pin # server[c].id) =>
      /\ served[c] = <<>> /\ applied[c] = <<>>
      /\ \A i \in DOMAIN outcome[c] : outcome[c][i].status = "io"

(* A follower applies a prefix of the records pushed to it: none twice,    *)
(* none skipped.                                                           *)
StreamIsPrefix ==
  \A c \in Conns : \A i \in DOMAIN applied[c] : applied[c][i] = <<c, i>>

(* A caller waiting at a frame boundary gets its answer or an error.       *)
RequestsReturn ==
  \A c \in Conns : (client[c].st = "waiting" /\ client[c].aligned) ~> client[c].st # "waiting"

(* Together: both ends take what the other sent, in order, each item once. *)
FramesInOrder == TypeOK /\ ServedInOrder /\ AnswersMatch /\ StreamIsPrefix
=============================================================================

--------------------------- MODULE SharedDatabase ---------------------------
(***************************************************************************)
(* Several engines on one storage server (Engine::open_remote): every      *)
(* request is carried out under the server's mutex, but a statement is     *)
(* several requests, and each engine keeps the audit head it loaded when   *)
(* it opened. All engines use the right passphrase, so a master key is     *)
(* named by the salt it was derived with.                                  *)
(*                                                                         *)
(* One table with an equality index on its one column: enough for          *)
(* statements that read the row sequence, look rows up through the index   *)
(* and fetch them one request at a time. A request that fails (Channel)    *)
(* leaves the connection useless, so the engine is opened again.           *)
(*                                                                         *)
(* Nothing on the server keeps two engines from creating the database at   *)
(* once, or from committing on top of a head that is no longer the stored  *)
(* one. The model lets both happen and remembers it in raced; what engines *)
(* with two different keys do after that is not modelled.                  *)
(***************************************************************************)
EXTENDS Naturals, Sequences, FiniteSets

CONSTANTS Engines,   \* engines connected to the server
          Creators,  \* engines that may be started on an empty server
          Writers,   \* engines that execute INSERT and DELETE
          Values,    \* values of the indexed column
          None,      \* "no such key on the server"
          MaxLog,    \* bound: statements committed on the server
          MaxLost    \* bound: connections lost

ASSUME CreatorsAreEngines == Creators \subseteq Engines /\ Writers \subseteq Engines
ASSUME NoneIsNoValue      == None \notin Values /\ None \notin Engines \X (0..MaxLost)
ASSUME BoundsAreNat       == MaxLog \in Nat /\ MaxLost \in Nat

VARIABLES params,   \* KEYPARAMS_KEY: the salt, named by who drew it at which attempt
          canary,   \* CANARY_KEY: the master key it is sealed under
          rows,     \* row keys: id to value
          index,    \* index entries: <<value, id>>
          nextId,   \* the table's row-id sequence
          audit,    \* audit entries by sequence number
          head,     \* AUDIT_HEAD_KEY
          eng,      \* the engines: where in which statement, and what they hold
          lost,     \* how many connections have been lost
          raced,    \* history: the races lost so far, "create" and "write"
          log,      \* history: the statements in the order of their commits
          hist      \* history: the rows after each of them

stored == <<params, canary, rows, index, nextId, audit, head>>
vars == <<params, canary, rows, index, nextId, audit, head, eng, lost, raced, log, hist>>

-----------------------------------------------------------------------------
Ids == 0..(MaxLog - 1)
Genesis == [n |-> 0, root |-> <<>>]
Closed == [pc |-> "closed", key |-> None, head |-> Genesis, op |-> None, val |-> None,
           ids |-> {}, got |-> {}, next |-> 0, since |-> 0, known |-> 0, refused |-> FALSE]

(* The row ids index_rowids reads for a value, and what a scan would find. *)
BugUniqueIndex(v) ==
  {id \in Ids : <<v, id>> \in index /\ \A j \in Ids : <<v, j>> \in index => id <= j}

IndexRowids(v) == {id \in Ids : <<v, id>> \in index}
Holding(t, v) == {id \in Ids : t[id] = v}

Init ==
  /\ params = None /\ canary = None
  /\ rows = [id \in Ids |-> None]
  /\ index = {}
  /\ nextId = 0
  /\ audit = [i \in Ids |-> None]
  /\ head = Genesis
  /\ eng = [e \in Engines |-> Closed]
  /\ lost = 0 /\ raced = {}
  /\ log = <<>> /\ hist = <<[id \in Ids |-> None]>>

-----------------------------------------------------------------------------
(* open_store, one request at a time: the parameters (drawing a salt when  *)
(* the server has none), the canary (sealing one when it has none), the    *)
(* audit head.                                                             *)
Drawing(e) == [Closed EXCEPT !.pc = "params", !.key = <<e, lost>>]

BugSaltNotStored(e) ==
  /\ eng[e].pc = "closed"
  /\ params = None => e \in Creators
  /\ eng' = [eng EXCEPT ![e] = IF params = None THEN [Drawing(e) EXCEPT !.pc = "canary"]
                               ELSE [Closed EXCEPT !.pc = "canary", !.key = params]]
  /\ UNCHANGED <<stored, lost, raced, log, hist>>

GetParams(e) ==
  /\ eng[e].pc = "closed"
  /\ params = None => e \in Creators
  /\ eng' = [eng EXCEPT ![e] = IF params = None THEN Drawing(e)
                               ELSE [Closed EXCEPT !.pc = "canary", !.key = params]]
  /\ UNCHANGED <<stored, lost, raced, log, hist>>

PutParams(e) ==
  /\ eng[e].pc = "params"
  /\ params' = eng[e].key
  /\ raced' = IF params = None THEN raced ELSE raced \cup {"create"}
  /\ eng' = [eng EXCEPT ![e].pc = "canary"]
  /\ UNCHANGED <<canary, rows, index, nextId, audit, head, lost, log, hist>>

CheckCanary(e) ==
  /\ eng[e].pc = "canary"
  /\ eng' = [eng EXCEPT ![e] = IF canary = None THEN [@ EXCEPT !.pc = "seal canary"]
                               ELSE IF canary = @.key THEN [@ EXCEPT !.pc = "head"]
                               ELSE [Closed EXCEPT !.refused = TRUE]]
  /\ UNCHANGED <<stored, lost, raced, log, hist>>

PutCanary(e) ==
  /\ eng[e].pc = "seal canary"
  /\ canary' = eng[e].key
  /\ eng' = [eng EXCEPT ![e].pc = "head"]
  /\ UNCHANGED <<params, rows, index, nextId, audit, head, lost, raced, log, hist>>

LoadHead(e) ==
  /\ eng[e].pc = "head"
  /\ eng' = [eng EXCEPT ![e].pc = "idle", ![e].head = head, ![e].known = Len(log)]
  /\ UNCHANGED <<stored, lost, raced, log, hist>>

-----------------------------------------------------------------------------
(* A statement is over: the engine keeps its key and its head.             *)
Idle(e) == [Closed EXCEPT !.pc = "idle", !.key = eng[e].key, !.head = eng[e].head, !.known = eng[e].known]

(* INSERT reads the sequence, then commits.                                *)
BugCachedSequence(e, v) ==
  /\ e \in Writers /\ eng[e].pc = "idle" /\ Len(log) < MaxLog /\ "create" \notin raced
  /\ eng' = [eng EXCEPT ![e].pc = "commit", ![e].op = "insert", ![e].val = v,
                        ![e].since = Len(hist)]
  /\ UNCHANGED <<stored, lost, raced, log, hist>>

Insert(e, v) ==
  /\ e \in Writers /\ eng[e].pc = "idle" /\ Len(log) < MaxLog /\ "create" \notin raced
  /\ eng' = [eng EXCEPT ![e].pc = "commit", ![e].op = "insert", ![e].val = v,
                        ![e].next = nextId, ![e].since = Len(hist)]
  /\ UNCHANGED <<stored, lost, raced, log, hist>>

(* DELETE and SELECT with an equality clause: candidate_rows reads the     *)
(* index entries in one request, then each row in a request of its own.    *)
Lookup(e, op, v) ==
  /\ eng[e].pc = "idle" /\ (op = "delete" => e \in Writers /\ Len(log) < MaxLog) /\ "create" \notin raced
  /\ eng' = [eng EXCEPT ![e].pc = "fetch", ![e].op = op, ![e].val = v,
                        ![e].ids = IndexRowids(v), ![e].got = {}, ![e].since = Len(hist)]
  /\ UNCHANGED <<stored, lost, raced, log, hist>>

(* A dangling entry reads as absent; the clause is checked again on every  *)
(* row that is there.                                                      *)
Fetch(e) ==
  /\ eng[e].pc = "fetch" /\ eng[e].ids # {}
  /\ LET id == CHOOSE i \in eng[e].ids : \A j \in eng[e].ids : i <= j IN
       eng' = [eng EXCEPT ![e].ids = @ \ {id},
                          ![e].got = IF rows[id] = eng[e].val THEN @ \cup {id} ELSE @]
  /\ UNCHANGED <<stored, lost, raced, log, hist>>

(* All candidates are in: SELECT returns them; DELETE commits unless there *)
(* is nothing to delete.                                                   *)
Fetched(e) ==
  /\ eng[e].pc = "fetch" /\ eng[e].ids = {}
  /\ eng' = [eng EXCEPT ![e] = IF @.op = "select" THEN [@ EXCEPT !.pc = "answer"]
                               ELSE IF @.got = {} THEN Idle(e) ELSE [@ EXCEPT !.pc = "commit"]]
  /\ UNCHANGED <<stored, lost, raced, log, hist>>

Answer(e) ==
  /\ eng[e].pc = "answer"
  /\ eng' = [eng EXCEPT ![e] = Idle(e)]
  /\ UNCHANGED <<stored, lost, raced, log, hist>>

-----------------------------------------------------------------------------
(* commit_with_audit: one COMMIT frame with the rows, the index entries,   *)
(* the sequence, the audit entry and the head, made from what the engine   *)
(* has read so far. The answer may be lost with the connection.            *)
Statement(e) == [op |-> eng[e].op, val |-> eng[e].val, by |-> e]

NewHead(e) == [n |-> eng[e].head.n + 1, root |-> Append(eng[e].head.root, Statement(e))]

Apply(e) ==
  /\ eng[e].pc = "commit" /\ Len(log) < MaxLog
  /\ LET insert == eng[e].op = "insert"
         v == eng[e].val
     IN  /\ rows' = [id \in Ids |-> IF insert THEN (IF id = eng[e].next THEN v ELSE rows[id])
                                    ELSE IF id \in eng[e].got THEN None ELSE rows[id]]
         /\ index' = IF insert THEN index \cup {<<v, eng[e].next>>}
                     ELSE index \ {<<v, id>> : id \in eng[e].got}
         /\ nextId' = IF insert THEN eng[e].next + 1 ELSE nextId
  /\ audit' = [audit EXCEPT ![eng[e].head.n] = [prev |-> eng[e].head.root, stmt |-> Statement(e)]]
  /\ head' = NewHead(e)
  /\ raced' = IF eng[e].known = Len(log) THEN raced ELSE raced \cup {"write"}
  /\ log' = Append(log, Statement(e))
  /\ hist' = Append(hist, rows')
  /\ UNCHANGED <<params, canary>>

Commit(e) ==
  /\ Apply(e)
  /\ eng' = [eng EXCEPT ![e] = [Idle(e) EXCEPT !.head = NewHead(e), !.known = Len(log')]]
  /\ UNCHANGED lost

CommitUnanswered(e) ==
  /\ lost < MaxLost
  /\ Apply(e)
  /\ eng' = [eng EXCEPT ![e] = Closed]
  /\ lost' = lost + 1

(* The program closes its engine.                                          *)
Close(e) ==
  /\ eng[e].pc = "idle"
  /\ eng' = [eng EXCEPT ![e] = Closed]
  /\ UNCHANGED <<stored, lost, raced, log, hist>>

(* The connection is lost before a request reaches the server.             *)
Lose(e) ==
  /\ lost < MaxLost /\ eng[e].pc # "closed"
  /\ eng' = [eng EXCEPT ![e] = Closed]
  /\ lost' = lost + 1
  /\ UNCHANGED <<stored, raced, log, hist>>

Next ==
  \E e \in Engines :
    \/ GetParams(e) \/ PutParams(e) \/ CheckCanary(e) \/ PutCanary(e) \/ LoadHead(e)
    \/ \E v \in Values : \/ Insert(e, v)
                         \/ \E op \in {"delete", "select"} : Lookup(e, op, v)
    \/ Fetch(e) \/ Fetched(e) \/ Answer(e)
    \/ Commit(e) \/ CommitUnanswered(e) \/ Close(e) \/ Lose(e)

Spec == Init /\ [][Next]_vars

-----------------------------------------------------------------------------
(* Type invariant.                                                         *)
TypeOK ==
  /\ {params, canary} \subseteq (Engines \X (0..MaxLost)) \cup {None}
  /\ rows \in [Ids -> Values \cup {None}]
  /\ index \subseteq Values \X Ids
  /\ nextId \in 0..MaxLog /\ head.n = Len(head.root)
  /\ \A e \in Engines : eng[e].ids \subseteq Ids /\ eng[e].got \subseteq Ids

(* An engine is refused with BadPassphrase only when its passphrase is     *)
(* not the one the database was created with; here it always is. It holds  *)
(* unless two engines found the server empty and both stored a salt: a     *)
(* lost connection during the creation, at any request, does no harm.      *)
NeverRefused == "create" \notin raced => \A e \in Engines : ~eng[e].refused

(* What serial execution of the committed statements leaves: the inserts   *)
(* of v since its last delete.                                             *)
Kept(v) ==
  {i \in DOMAIN log : /\ log[i].op = "insert" /\ log[i].val = v
                      /\ \A j \in (i + 1)..Len(log) : ~(log[j].op = "delete" /\ log[j].val = v)}

(* "Cross-client statement atomicity": the shared rows are what the        *)
(* committed statements leave when each runs alone, in commit order, as    *)
(* long as every engine that committed had seen the commit before its own. *)
(* Knowing the last commit is enough: no other read of a statement can be  *)
(* stale then.                                                             *)
StatementsAreSerial ==
  "write" \notin raced =>
    \A v \in Values : Cardinality(Holding(rows, v)) = Cardinality(Kept(v))

(* The audit chain on the server verifies and holds every statement that   *)
(* was committed, the ones whose answer was lost included, under the same  *)
(* condition: several engines may take turns.                              *)
SharedChainVerifies ==
  "write" \notin raced =>
    /\ head.root = log
    /\ \A i \in DOMAIN log : audit[i - 1] = [prev |-> SubSeq(log, 1, i - 1), stmt |-> log[i]]

(* A SELECT returns every row that held the value for as long as the       *)
(* statement ran, and only rows that held it at some time meanwhile,       *)
(* whatever other engines commit between its requests.                     *)
ReadersSeeRealRows ==
  \A e \in Engines : eng[e].pc = "answer" =>
    LET during == eng[e].since..Len(hist) IN
    \A id \in Ids :
      /\ id \in eng[e].got => \E i \in during : hist[i][id] = eng[e].val
      /\ (\A i \in during : hist[i][id] = eng[e].val) => id \in eng[e].got

(* Together: what is on the server is a serial execution and its record.   *)
SharedHistoryIsSerial == TypeOK /\ StatementsAreSerial /\ SharedChainVerifies
=============================================================================

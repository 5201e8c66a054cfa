------------------------------- MODULE Backup -------------------------------
(***************************************************************************)
(* ciphra-engine: backup_to writes the pairs of a database to one file,    *)
(* restore_from copies that file into a new data directory, opens it and   *)
(* verifies its audit chain.                                               *)
(*                                                                         *)
(* The file is a log like any other: its records are the pairs in key      *)
(* order (head, canary, catalog, parameters, row sequence, audit entries,  *)
(* rows, index entries), and Storage::open takes the intact prefix of      *)
(* whatever it finds. A master key is named by passphrase and salt.        *)
(***************************************************************************)
EXTENDS Naturals, Sequences, FiniteSets

CONSTANTS Passphrases, \* what users type
          Right,       \* the passphrase of the database
          None,        \* "not there", "no transaction"
          MaxHist,     \* bound: statements
          MaxFaults    \* bound: interruptions and losses

ASSUME RightIsPassphrase == Right \in Passphrases
ASSUME BoundsAreNat      == MaxHist \in Nat /\ MaxFaults \in Nat

VARIABLES hist,     \* the database: how many statements are committed
          pending,  \* statements in the open transaction, or None
          file,     \* the snapshot file: its records, or None
          noted,    \* the audit head printed with the backup in file; None once it is damaged
          wal,      \* the log in the target directory, or None
          unsynced, \* the target's log is a copy nothing has fsynced yet
          eng,      \* an engine open on the target directory, or None
          faults    \* how many faults have happened

vars == <<hist, pending, file, noted, wal, unsynced, eng, faults>>

-----------------------------------------------------------------------------
Rec(k, i, v) == [k |-> k, i |-> i, v |-> v]
Salts == {"salt", "fresh salt"}
Keys == Passphrases \X Salts
Key(pass, salt) == <<pass, salt>>
Master == Key(Right, "salt")

(* The records of a log, and an open engine.                               *)
Records ==
  [k : {"params"}, i : {0}, v : Salts] \cup [k : {"head"}, i : {0}, v : Keys \X (0..MaxHist)]
  \cup [k : {"canary", "catalog", "seq", "audit", "row", "index"}, i : 0..MaxHist, v : Keys]
Engines == [key : Keys, head : 0..MaxHist, verified : BOOLEAN]

ASSUME NoneIsNoValue ==
  /\ None \notin Nat /\ None \notin Salts /\ None \notin Keys
  /\ None \notin Keys \X (0..MaxHist) /\ None \notin Engines /\ None \notin Seq(Records)

(* Statement 1 creates the table, statement i inserts row i with its index *)
(* entry; each has its audit entry.                                        *)
Each(k, n) == [i \in 1..n |-> Rec(k, i, Master)]
From(n, k, r) == IF n >= k THEN r ELSE <<>>
Dump(n) ==
  From(n, 1, <<Rec("head", 0, <<Master, n>>)>>) \o <<Rec("canary", 0, Master)>>
  \o From(n, 1, <<Rec("catalog", 0, Master)>>) \o <<Rec("params", 0, "salt")>>
  \o From(n, 2, <<Rec("seq", 0, Master)>>)
  \o Each("audit", n) \o From(n, 2, Tail(Each("row", n)) \o Tail(Each("index", n)))

(* What a log holds: the statements whose row it has, its audit entries,   *)
(* and the value of a key that is stored once.                             *)
Stored(w, k) == {w[j].i : j \in {j \in DOMAIN w : w[j].k = k}}
Value(w, k) ==
  LET js == {j \in DOMAIN w : w[j].k = k}
  IN  IF js = {} THEN None ELSE w[CHOOSE j \in js : \A l \in js : l <= j].v

(* What the session reads: Store::dump goes through the overlay.           *)
Visible == hist + (IF pending = None THEN 0 ELSE pending)

Init ==
  /\ hist = 0 /\ pending = None
  /\ file = None /\ noted = None
  /\ wal = None /\ unsynced = FALSE /\ eng = None
  /\ faults = 0

-----------------------------------------------------------------------------
(* The database being backed up.                                           *)
Execute ==
  /\ Visible < MaxHist
  /\ IF pending = None THEN hist' = hist + 1 /\ pending' = pending
     ELSE pending' = pending + 1 /\ hist' = hist
  /\ UNCHANGED <<file, noted, wal, unsynced, eng, faults>>

Begin ==
  /\ pending = None /\ pending' = 0
  /\ UNCHANGED <<hist, file, noted, wal, unsynced, eng, faults>>

EndTransaction ==
  /\ pending # None /\ pending' = None
  /\ hist' \in {hist, hist + pending}
  /\ UNCHANGED <<file, noted, wal, unsynced, eng, faults>>

(* backup_to: the whole dump is written and fsynced; the command line then *)
(* prints the audit head to be kept with it.                               *)
BugDumpSkipsOverlay ==
  /\ file' = Dump(hist)
  /\ noted' = Visible
  /\ UNCHANGED <<hist, pending, wal, unsynced, eng, faults>>

BackupTo ==
  /\ file' = Dump(Visible)
  /\ noted' = Visible
  /\ UNCHANGED <<hist, pending, wal, unsynced, eng, faults>>

(* It is interrupted: File::create has emptied whatever was there before.  *)
BackupInterrupted(n) ==
  /\ faults < MaxFaults /\ n < Len(Dump(Visible))
  /\ file' = SubSeq(Dump(Visible), 1, n)
  /\ noted' = None
  /\ faults' = faults + 1
  /\ UNCHANGED <<hist, pending, wal, unsynced, eng>>

(* The snapshot file, on its way to where it is restored, loses its tail.  *)
FileTruncated(n) ==
  /\ faults < MaxFaults
  /\ file # None /\ n < Len(file)
  /\ file' = SubSeq(file, 1, n)
  /\ noted' = None
  /\ faults' = faults + 1
  /\ UNCHANGED <<hist, pending, wal, unsynced, eng>>

-----------------------------------------------------------------------------
(* Engine::open on the log w: parameters are drawn and a canary is sealed  *)
(* where there are none. The result: the log after it, and the engine, or  *)
(* None where the canary or the audit head does not decrypt.               *)
BugNoCanaryCheck(w, pass) ==
  LET w1 == IF Value(w, "params") = None THEN Append(w, Rec("params", 0, "fresh salt")) ELSE w
      key == Key(pass, Value(w1, "params"))
      h == IF Value(w1, "head") = None THEN 0 ELSE Value(w1, "head")[2]
  IN  [wal |-> w1, eng |-> [key |-> key, head |-> h, verified |-> FALSE]]

OpenStore(w, pass) ==
  LET w1 == IF Value(w, "params") = None THEN Append(w, Rec("params", 0, "fresh salt")) ELSE w
      key == Key(pass, Value(w1, "params"))
      w2 == IF Value(w1, "canary") = None THEN Append(w1, Rec("canary", 0, key)) ELSE w1
      head == IF Value(w2, "head") = None THEN <<key, 0>> ELSE Value(w2, "head")
  IN  IF Value(w2, "canary") # key \/ head[1] # key THEN [wal |-> w2, eng |-> None]
      ELSE [wal |-> w2, eng |-> [key |-> key, head |-> head[2], verified |-> FALSE]]

(* audit_verify: the entries decrypt, are contiguous from the first and    *)
(* end in the head.                                                        *)
AuditVerify(w, e) ==
  /\ Stored(w, "audit") = 1..e.head
  /\ \A j \in DOMAIN w : w[j].k = "audit" => w[j].v = e.key

(* restore_from: refused where there is a log already, whatever it holds;  *)
(* the copy stays where it is when opening or verification fails.          *)
BugRestoresOverAnything(pass) ==
  /\ file # None /\ eng = None
  /\ LET o == OpenStore(file, pass)
         ok == o.eng # None /\ AuditVerify(o.wal, o.eng)
     IN  /\ wal' = o.wal
         /\ unsynced' = (o.wal = file)
         /\ eng' = IF ok THEN [o.eng EXCEPT !.verified = TRUE] ELSE None
  /\ UNCHANGED <<hist, pending, file, noted, faults>>

RestoreFrom(pass) ==
  /\ file # None /\ wal = None /\ eng = None
  /\ LET o == OpenStore(file, pass)
         ok == o.eng # None /\ AuditVerify(o.wal, o.eng)
     IN  /\ wal' = o.wal
         /\ unsynced' = (o.wal = file)
         /\ eng' = IF ok THEN [o.eng EXCEPT !.verified = TRUE] ELSE None
  /\ UNCHANGED <<hist, pending, file, noted, faults>>

(* fs::copy is interrupted: the target has a log, of part of the file.     *)
RestoreInterrupted(n) ==
  /\ faults < MaxFaults
  /\ file # None /\ wal = None /\ n < Len(file)
  /\ wal' = SubSeq(file, 1, n)
  /\ unsynced' = TRUE
  /\ faults' = faults + 1
  /\ UNCHANGED <<hist, pending, file, noted, eng>>

(* restore_from fsyncs the directory, not the copy: until something is     *)
(* written through the engine, losing power may lose its tail.             *)
PowerLoss(n) ==
  /\ faults < MaxFaults
  /\ unsynced /\ n < Len(wal)
  /\ wal' = SubSeq(wal, 1, n)
  /\ eng' = None
  /\ faults' = faults + 1
  /\ UNCHANGED <<hist, pending, file, noted, unsynced>>

(* The target is opened as any other database, or closed.                  *)
OpenTarget(pass) ==
  /\ wal # None /\ eng = None
  /\ wal' = OpenStore(wal, pass).wal
  /\ unsynced' = (unsynced /\ wal' = wal)
  /\ eng' = OpenStore(wal, pass).eng
  /\ UNCHANGED <<hist, pending, file, noted, faults>>

CloseTarget ==
  /\ eng # None /\ eng' = None
  /\ UNCHANGED <<hist, pending, file, noted, wal, unsynced, faults>>

Next ==
  \/ Execute \/ Begin \/ EndTransaction
  \/ BackupTo
  \/ \E n \in 0..(Len(Dump(MaxHist)) - 1) :
       BackupInterrupted(n) \/ FileTruncated(n) \/ RestoreInterrupted(n) \/ PowerLoss(n)
  \/ \E pass \in Passphrases : RestoreFrom(pass) \/ OpenTarget(pass)
  \/ CloseTarget

Spec == Init /\ [][Next]_vars

-----------------------------------------------------------------------------
(* Type invariant.                                                         *)
TypeOK ==
  /\ hist \in 0..MaxHist /\ pending \in (0..MaxHist) \cup {None}
  /\ noted \in (0..MaxHist) \cup {None}
  /\ noted # None => file = Dump(noted)
  /\ unsynced => wal # None
  /\ eng # None => wal # None /\ eng.key \in Keys

Restored == eng = None /\ eng' # None /\ eng'.verified

(* A finished backup that was not damaged since restores to exactly the    *)
(* state its audit head was printed for: same head, every row, every index *)
(* entry, the right key.                                                   *)
RestoreIsBackup ==
  [][(Restored /\ noted # None) =>
       /\ eng'.head = noted
       /\ Stored(wal', "row") = 2..noted /\ Stored(wal', "index") = 2..noted
       /\ eng'.key = Master]_vars

(* restore_from "refuses to overwrite an existing database": short of a    *)
(* power loss no step takes a record out of a log that is there.           *)
NeverOverwrites ==
  [][(wal # None /\ faults' = faults) =>
       /\ wal' # None /\ Len(wal') >= Len(wal)
       /\ SubSeq(wal', 1, Len(wal)) = wal]_vars

(* However much of a copy was lost, and whatever an earlier failed attempt *)
(* has added to it, a log that still holds rows opens under no key but     *)
(* their own.                                                              *)
RowsNeedTheirKey ==
  (eng # None /\ Stored(wal, "row") # {}) => eng.key = Master
=============================================================================

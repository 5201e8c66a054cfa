------------------------------ MODULE Rotation ------------------------------
(***************************************************************************)
(* ciphra-engine: opening a database and rotating its passphrase, one step *)
(* per durable change to the data directory, with a crash between any two. *)
(*                                                                         *)
(* The directory holds the WAL, during a rotation a scratch WAL, and, for  *)
(* an old database, the legacy keyparams file. A sealed item carries the   *)
(* master key it was sealed under: the passphrase with the recorded salt.  *)
(* A commit to a WAL is atomic and durable (see WalStorage). A rename is   *)
(* durable once the directory has been fsynced, which is taken to succeed  *)
(* (rotate_to ignores its result), and which only rotate_to does: the one  *)
(* opened after a process died before it may still be taken back by a      *)
(* power loss much later. A statement touches one table, whose rows are    *)
(* counted. A process that cannot read its files gives up, as in Killed.   *)
(***************************************************************************)
EXTENDS Naturals, Sequences, FiniteSets

CONSTANTS Passphrases,
          TableNames,
          None,        \* nothing there
          MaxSalts,    \* bound: salts generated, so databases created
          MaxAudit     \* bound: audit entries

ASSUME NoneIsNothing == None \notin Passphrases /\ None \notin TableNames
ASSUME RotationBounds == MaxSalts \in Nat /\ MaxAudit \in Nat

VARIABLES pc,        \* where the process is in open_with_kdf or rotate_to
          wal,       \* the database in ciphra.wal
          behind,    \* the WALs replaced by renames the disk may not have yet
          tmp,       \* the database in .rotate-tmp, or None
          sidecar,   \* the salt in ciphra.keyparams, or None
          pass,      \* the passphrase the process was given
          view,      \* what the session reads: overlay over WAL
          inTxn,     \* is a transaction open?
          target,    \* the passphrase being rotated to
          salts,     \* salts generated so far
          retired    \* history: the keys that rotations which returned replaced

vars == <<pc, wal, behind, tmp, sidecar, pass, view, inTxn, target, salts, retired>>
disk == <<wal, behind, tmp, sidecar>>

-----------------------------------------------------------------------------
Rotate == "rotate"
Blank == [params |-> None, canary |-> None, head |-> None, entries |-> <<>>,
          tables |-> [t \in TableNames |-> None]]

(* The salt open_with_kdf and open_store settle on: the one recorded in    *)
(* the WAL, else the legacy file's.                                        *)
RecordedSalt(db) == IF db.params # None THEN db.params ELSE sidecar

MasterKey(db, p) == <<p, RecordedSalt(db)>>

(* Engine::audit_head of a session that sees db: how long the chain is.    *)
AuditHead(db) == IF db.head = None THEN 0 ELSE db.head.n

(* commit_with_audit of an entry with sequence number seq.                 *)
Audited(db, seq, key, kind) ==
  [db EXCEPT !.entries = Append(@, [key |-> key, kind |-> kind]),
             !.head = [key |-> key, n |-> seq + 1]]

(* A statement that adds a row to table t, with its audit entry.           *)
Executed(db, key, t) ==
  LET rows == IF db.tables[t] = None THEN 0 ELSE db.tables[t].rows
  IN  Audited([db EXCEPT !.tables[t] = [key |-> key, rows |-> rows + 1]],
              AuditHead(db), key, t)

(* A directory that is empty, or was left by a version that kept the key   *)
(* parameters in their own file.                                           *)
Init ==
  /\ pc = "down"
  /\ \/ wal = Blank /\ sidecar = None
     \/ \E p \in Passphrases : wal = [Blank EXCEPT !.canary = <<p, 0>>] /\ sidecar = 0
  /\ behind = {}
  /\ tmp = None
  /\ pass = None
  /\ view = Blank
  /\ inTxn = FALSE
  /\ target = None
  /\ salts = 0
  /\ retired = {}

-----------------------------------------------------------------------------
(* open_with_kdf: sweep the leftover of an interrupted rotation ...        *)
Sweep(p) ==
  /\ pc = "down"
  /\ tmp' = None
  /\ pc' = "params"
  /\ pass' = p
  /\ UNCHANGED <<wal, behind, sidecar, view, inTxn, target, salts, retired>>

(* ... record the legacy parameters, or new ones, unless some are ...      *)
ResolveParams ==
  /\ pc = "params"
  /\ IF RecordedSalt(wal) # None
     THEN wal' = [wal EXCEPT !.params = RecordedSalt(wal)] /\ salts' = salts
     ELSE /\ salts < MaxSalts
          /\ salts' = salts + 1
          /\ wal' = [wal EXCEPT !.params = salts']
  /\ pc' = "canary"
  /\ UNCHANGED <<behind, tmp, sidecar, pass, view, inTxn, target, retired>>

(* ... and check the canary, or seal one. A wrong passphrase gets no       *)
(* session. Where the opening is that of rotate_to, rotate_to now returns. *)
CheckCanary ==
  /\ pc = "canary"
  /\ IF wal.canary \in {None, MasterKey(wal, pass)}
     THEN /\ wal' = [wal EXCEPT !.canary = MasterKey(wal, pass)]
          /\ pc' = "idle"
     ELSE wal' = wal /\ pc' = "down"
  /\ view' = wal'
  /\ inTxn' = FALSE
  /\ target' = None
  /\ retired' = IF target = None THEN retired ELSE retired \cup {view.canary}
  /\ UNCHANGED <<behind, tmp, sidecar, pass, salts>>

-----------------------------------------------------------------------------
(* Statements and transactions, as far as rotation sees them.              *)
Execute(t) ==
  /\ pc = "idle"
  /\ Len(view.entries) < MaxAudit
  /\ view' = Executed(view, MasterKey(wal, pass), t)
  /\ wal' = IF inTxn THEN wal ELSE view'
  /\ UNCHANGED <<pc, behind, tmp, sidecar, pass, inTxn, target, salts, retired>>

Begin ==
  /\ pc = "idle" /\ ~inTxn
  /\ inTxn' = TRUE
  /\ UNCHANGED <<pc, disk, pass, view, target, salts, retired>>

Commit ==
  /\ pc = "idle" /\ inTxn
  /\ wal' = view
  /\ inTxn' = FALSE
  /\ UNCHANGED <<pc, behind, tmp, sidecar, pass, view, target, salts, retired>>

Rollback ==
  /\ pc = "idle" /\ inTxn
  /\ view' = wal
  /\ inTxn' = FALSE
  /\ UNCHANGED <<pc, disk, pass, target, salts, retired>>

-----------------------------------------------------------------------------
(* rotate_to: read everything, remove a leftover scratch directory, create *)
(* a database under the new passphrase in a new one. What happens inside   *)
(* the scratch directory is invisible until the rename.                    *)
StartRotation(p) ==
  /\ pc = "idle"
  /\ salts < MaxSalts /\ Len(view.entries) < MaxAudit
  /\ salts' = salts + 1
  /\ target' = p
  /\ tmp' = [Blank EXCEPT !.params = salts', !.canary = <<p, salts'>>]
  /\ pc' = "tables"
  /\ UNCHANGED <<wal, behind, sidecar, pass, view, inTxn, retired>>

(* One batch per table: schema, sequence, rows, indexes, resealed.         *)
CopyTable(t) ==
  /\ pc = "tables"
  /\ view.tables[t] # None /\ tmp.tables[t] = None
  /\ tmp' = [tmp EXCEPT !.tables[t] = [view.tables[t] EXCEPT !.key = tmp.canary]]
  /\ UNCHANGED <<pc, wal, behind, sidecar, pass, view, inTxn, target, salts, retired>>

(* The audit chain, resealed, once every table is there ...                *)
BugAuditNotCarried ==
  /\ pc = "tables"
  /\ \A t \in TableNames : view.tables[t] = None \/ tmp.tables[t] # None
  /\ pc' = "stamp"
  /\ UNCHANGED <<disk, pass, view, inTxn, target, salts, retired>>

CopyAudit ==
  /\ pc = "tables"
  /\ \A t \in TableNames : view.tables[t] = None \/ tmp.tables[t] # None
  /\ tmp' = [tmp EXCEPT !.entries =
               [i \in 1..Len(view.entries) |-> [view.entries[i] EXCEPT !.key = tmp.canary]]]
  /\ pc' = "stamp"
  /\ UNCHANGED <<wal, behind, sidecar, pass, view, inTxn, target, salts, retired>>

(* ... then the rotation's own entry, which continues the old head.        *)
BugStampRestartsChain ==
  /\ pc = "stamp"
  /\ tmp' = Audited(tmp, AuditHead(tmp), tmp.canary, Rotate)
  /\ pc' = "rename"
  /\ UNCHANGED <<wal, behind, sidecar, pass, view, inTxn, target, salts, retired>>

StampRotation ==
  /\ pc = "stamp"
  /\ tmp' = Audited(tmp, AuditHead(view), tmp.canary, Rotate)
  /\ pc' = "rename"
  /\ UNCHANGED <<wal, behind, sidecar, pass, view, inTxn, target, salts, retired>>

(* Any of these can fail: rotate_to returns the error, the session goes on *)
(* with the old database.                                                  *)
RotationFails ==
  /\ pc \in {"tables", "stamp", "rename"}
  /\ pc' = "idle"
  /\ target' = None
  /\ UNCHANGED <<disk, pass, view, inTxn, salts, retired>>

(* The atomic switch, which leaves the scratch directory empty, the fsync  *)
(* of the directory, and the cleanup.                                      *)
Rename ==
  /\ pc = "rename"
  /\ behind' = behind \cup {wal}
  /\ wal' = tmp
  /\ tmp' = Blank
  /\ pc' = "sync"
  /\ UNCHANGED <<sidecar, pass, view, inTxn, target, salts, retired>>

BugSkipsDirSync ==
  /\ pc = "sync"
  /\ pc' = "clean"
  /\ UNCHANGED <<disk, pass, view, inTxn, target, salts, retired>>

SyncDir ==
  /\ pc = "sync"
  /\ behind' = {}
  /\ pc' = "clean"
  /\ UNCHANGED <<wal, tmp, sidecar, pass, view, inTxn, target, salts, retired>>

RemoveScratch ==
  /\ pc = "clean" /\ tmp # None
  /\ tmp' = None
  /\ UNCHANGED <<pc, wal, behind, sidecar, pass, view, inTxn, target, salts, retired>>

(* Remove the legacy file, and open the new database.                      *)
RemoveSidecar ==
  /\ pc = "clean" /\ tmp = None
  /\ sidecar' = None
  /\ pass' = target
  /\ pc' = "params"
  /\ UNCHANGED <<wal, behind, tmp, view, inTxn, target, salts, retired>>

(* What is lost with the process, whichever way it ends: an open           *)
(* transaction is gone.                                                    *)
Stopped ==
  /\ view' = wal'
  /\ inTxn' = FALSE
  /\ target' = None
  /\ pc' = "down"
  /\ UNCHANGED <<tmp, sidecar, pass, salts, retired>>

(* The process dies and the machine goes on: the files are as they were    *)
(* seen, and no nearer to the disk.                                        *)
Killed ==
  /\ pc # "down"
  /\ UNCHANGED <<wal, behind>>
  /\ Stopped

(* The machine loses power, with the process running or not: renames that  *)
(* were not fsynced may be undone.                                         *)
PowerLoss ==
  /\ wal' \in {wal} \cup behind
  /\ behind' = {}
  /\ Stopped

Steps ==
  \/ \E p \in Passphrases : Sweep(p)
  \/ ResolveParams
  \/ CheckCanary
  \/ \E t \in TableNames : Execute(t) \/ CopyTable(t)
  \/ Begin \/ Commit \/ Rollback
  \/ CopyAudit
  \/ StampRotation
  \/ RotationFails
  \/ Rename
  \/ SyncDir
  \/ RemoveScratch
  \/ RemoveSidecar
  \/ Killed
  \/ PowerLoss

(* The command line rotates right after opening, never in a transaction.   *)
Next == Steps \/ (~inTxn /\ \E p \in Passphrases : StartRotation(p))
Spec == Init /\ [][Next]_vars

-----------------------------------------------------------------------------
MasterKeys == Passphrases \X (0..MaxSalts)
Databases ==
  [params : 0..MaxSalts \cup {None}, canary : MasterKeys \cup {None},
   head : [key : MasterKeys, n : 1..MaxAudit] \cup {None},
   entries : Seq([key : MasterKeys, kind : TableNames \cup {Rotate}]),
   tables : [TableNames -> [key : MasterKeys, rows : 1..MaxAudit] \cup {None}]]

ASSUME NoneIsNoData ==
  /\ None \notin Nat /\ None \notin MasterKeys /\ None \notin Databases
  /\ None \notin [key : MasterKeys, n : 1..MaxAudit]
  /\ None \notin [key : MasterKeys, rows : 1..MaxAudit]
ASSUME RotateIsNoTable == Rotate \notin TableNames

(* Type invariant. A scratch database never survives the sweep of open.    *)
TypeOK ==
  /\ pc \in {"down", "params", "canary", "idle", "tables", "stamp", "rename",
             "sync", "clean"}
  /\ wal \in Databases /\ view \in Databases
  /\ behind \subseteq Databases
  /\ tmp \in Databases \cup {None}
  /\ sidecar \in {None, 0}
  /\ pass \in Passphrases \cup {None} /\ target \in Passphrases \cup {None}
  /\ inTxn \in BOOLEAN /\ salts \in 0..MaxSalts
  /\ pc \in {"params", "canary"} => tmp = None
  /\ retired \subseteq MasterKeys \cup {None}

Possible == {wal} \cup behind
Opens(db, p) == db.canary = MasterKey(db, p)

(* Everything in db is sealed under the key its canary is, and the rows    *)
(* are those of the statements in its audit chain.                         *)
RowsOf(db, t) == Cardinality({i \in 1..Len(db.entries) : db.entries[i].kind = t})
Consistent(db) ==
  /\ \A i \in 1..Len(db.entries) : db.entries[i].key = db.canary
  /\ db.head = IF db.entries = <<>> THEN None ELSE [key |-> db.canary, n |-> Len(db.entries)]
  /\ \A t \in TableNames :
       db.tables[t] = IF RowsOf(db, t) = 0 THEN None
                      ELSE [key |-> db.canary, rows |-> RowsOf(db, t)]
Whole(db) == Consistent(db) /\ \E p \in Passphrases : Opens(db, p)

(* "A crash cannot strand the database between two keys": at every moment, *)
(* whichever WAL a crash would leave is complete and can be opened.        *)
NeverStranded == \A db \in Possible : db.canary # None => Whole(db)

(* Once rotate_to has returned, no crash then or later brings back a       *)
(* database under the key it replaced; and an open session, also one that  *)
(* goes on after a failed rotation, works on a database that its own       *)
(* passphrase opens and no other. A process that dies before the fsync has *)
(* not returned: there the old passphrase may still come back.             *)
RotationIsFinal ==
  /\ \A db \in Possible : db.canary \notin retired
  /\ pc = "idle" => \A p \in Passphrases : Opens(wal, p) <=> p = pass

(* The n-th statement of a chain is the entry up to which it has n that    *)
(* are no rotations.                                                       *)
Kinds(db) == [i \in 1..Len(db.entries) |-> db.entries[i].kind]
UpTo(ks, i) == Cardinality({j \in 1..i : ks[j] # Rotate})
Nth(ks, n) == CHOOSE t \in TableNames : \E i \in 1..Len(ks) : ks[i] = t /\ UpTo(ks, i) = n
StatementsOf(ks) == [n \in 1..UpTo(ks, Len(ks)) |-> Nth(ks, n)]
Data(db) == StatementsOf(Kinds(db))

Serial == INSTANCE SerialHistory
  WITH Statements <- TableNames, durable <- Data(wal), current <- Data(view),
       setbacks <- {Data(db) : db \in behind}

(* Rotation is invisible to the history of statements: nothing is lost and *)
(* nothing is committed by it, under every crash; but while a rename is    *)
(* not on disk, a power loss leads back to the statements there were at    *)
(* that rename, and those acknowledged since are gone.                     *)
ImplementsSerialHistory == Serial!HistSpec

(* Together: every state of the directory is a sound place to crash in.    *)
DirectoryIsSound == TypeOK /\ NeverStranded
=============================================================================

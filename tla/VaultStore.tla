----------------------------- MODULE VaultStore -----------------------------
(***************************************************************************)
(* The vault: one secret's row and version rows in the SQLite file, read   *)
(* and written by several kimbap processes, each with the one connection   *)
(* its pool is limited to, and the development master key those processes  *)
(* share through a file.  A process is a command: it resolves the master   *)
(* key, runs one vault operation statement by statement, and ends.         *)
(*                                                                         *)
(* SQLite itself is external.  What the code relies on is kept: a read in  *)
(* a transaction holds a shared lock to its end, one connection at a time  *)
(* holds the reserved lock and works on its own copy, a commit needs every *)
(* other reader gone and is atomic, a statement that cannot get its lock   *)
(* in time fails, and a connection that dies leaves nothing behind.        *)
(***************************************************************************)
EXTENDS Naturals, FiniteSets

CONSTANTS Commands,     \* the processes; each generates a key of its own
          MaxSecrets,   \* bound: rows ever inserted under the name
          MaxVersions   \* bound: versions of one row

Absent == "absent"
Partial == "partial"

ASSUME VaultAssumption ==
  /\ MaxSecrets \in Nat \ {0} /\ MaxVersions \in Nat \ {0}
  /\ Commands \intersect {Absent, Partial} = {}

NoRow == [id |-> 0, current |-> 0, count |-> 0, used |-> FALSE]

VARIABLES
  keyFile,  \* Absent, Partial (created, not all written) or the key it holds
  row,      \* the secrets row of the name, NoRow when there is none
  versions, \* the secret_versions rows
  command,  \* what each process is doing
  inserted, \* the rows ever inserted: ids are fresh UUIDs
  acked     \* the writes that returned a record, as [id, v, by]

vaultVars == <<keyFile, row, versions, command, inserted, acked>>

Operations == {"create", "upsert", "rotate", "delete", "get"}
Idle == [pc |-> "idle", key |-> Absent, op |-> "none", seen |-> NoRow, row |-> NoRow,
         versions |-> {}]

VaultInit ==
  /\ keyFile = Absent
  /\ row = NoRow
  /\ versions = {}
  /\ command = [c \in Commands |-> Idle]
  /\ inserted = 0
  /\ acked = {}

(***************************************************************************)
(* The development master key.                                             *)
(***************************************************************************)
Goto(c, pc) == command' = [command EXCEPT ![c].pc = pc]
HoldKey(c, k) == command' = [command EXCEPT ![c] = [@ EXCEPT !.pc = "open", !.key = k]]
End(c) == command' = [command EXCEPT ![c] = Idle]
KeyOnly == UNCHANGED <<row, versions, inserted, acked>>

\* A whole key in the file is used; a file that is not there sends the
\* command to make one; a file with anything else in it is an error.
ReadKey(c) ==
  /\ command[c].pc = "idle"
  /\ \/ keyFile \in Commands /\ HoldKey(c, keyFile)
     \/ keyFile = Absent /\ Goto(c, "create_key")
     \/ keyFile = Partial /\ End(c)
  /\ UNCHANGED keyFile /\ KeyOnly

\* Mutant: without O_EXCL, over whatever another process has made meanwhile.
CreateOverAny(c) ==
  /\ command[c].pc = "create_key"
  /\ keyFile' = Partial
  /\ Goto(c, "write_key")
  /\ KeyOnly

\* O_EXCL: the loser of the race reads what the winner has written by then.
CreateKey(c) ==
  /\ command[c].pc = "create_key"
  /\ \/ keyFile = Absent /\ keyFile' = Partial /\ Goto(c, "write_key")
     \/ keyFile \in Commands /\ HoldKey(c, keyFile) /\ UNCHANGED keyFile
     \/ keyFile = Partial /\ End(c) /\ UNCHANGED keyFile
  /\ KeyOnly

WriteKey(c) ==
  /\ command[c].pc = "write_key"
  /\ \/ keyFile' = c /\ HoldKey(c, c)
     \/ keyFile' = Absent /\ End(c)
  /\ KeyOnly

(***************************************************************************)
(* The vault's transactions.                                               *)
(***************************************************************************)
\* Mutant: the row is selected before the transaction begins.
ReadsOutside(c) == command[c].pc = "written"

Reading(c) == command[c].pc \in {"read", "written"}

Reserved(c) == command[c].pc = "written"
NoWriterBut(c) == \A d \in Commands \ {c} : ~Reserved(d)
NoReaderBut(c) == \A d \in Commands \ {c} : ~Reading(d)

\* The transaction's own copy after its statements.
Working(c, r, vs) ==
  command' = [command EXCEPT ![c] = [@ EXCEPT !.pc = "written", !.row = r, !.versions = vs]]
DbSame == UNCHANGED <<keyFile, row, versions, acked>>

Begin(c, op) ==
  /\ command[c].pc = "open"
  /\ LET pc == CASE op \in {"create", "upsert"} -> "insert" [] op = "get" -> "get"
                [] OTHER -> "begin"
     IN command' = [command EXCEPT ![c] = [@ EXCEPT !.pc = pc, !.op = op]]
  /\ UNCHANGED inserted /\ DbSame

Version(id, v, k, c) == [id |-> id, v |-> v, active |-> TRUE, key |-> k, by |-> c]

\* Create: the secrets row and its version 1.  UNIQUE(tenant_id, name) refuses
\* a second row, and an upsert goes on to replace the value instead.
Insert(c) ==
  /\ command[c].pc = "insert"
  /\ NoWriterBut(c)
  /\ \/ /\ row = NoRow
        /\ inserted < MaxSecrets
        /\ inserted' = inserted + 1
        /\ Working(c, [id |-> inserted + 1, current |-> 1, count |-> 1, used |-> FALSE],
                   versions \union {Version(inserted + 1, 1, command[c].key, c)})
     \/ /\ row # NoRow
        /\ IF command[c].op = "upsert" THEN Goto(c, "begin") ELSE End(c)
        /\ UNCHANGED inserted
  /\ DbSame

\* The SELECT inside the transaction of an upsert, a rotation or a deletion.
SelectRow(c) ==
  /\ command[c].pc = "begin"
  /\ IF row = NoRow THEN End(c)
     ELSE command' = [command EXCEPT ![c] = [@ EXCEPT !.pc = "read", !.seen = row]]
  /\ UNCHANGED inserted /\ DbSame

\* UPDATE the current version's active flag, INSERT the next, UPDATE the row.
NextVersion(c) ==
  LET seen == command[c].seen
      off == {IF x.id = seen.id /\ x.v = seen.current THEN [x EXCEPT !.active = FALSE] ELSE x :
                x \in versions}
  IN Working(c, [row EXCEPT !.current = seen.current + 1, !.count = @ + 1],
             off \union {Version(seen.id, seen.current + 1, command[c].key, c)})

Statements(c) ==
  /\ command[c].pc = "read"
  /\ NoWriterBut(c)
  /\ \/ /\ command[c].op \in {"upsert", "rotate"}
        /\ command[c].seen.current < MaxVersions
        /\ ~ \E x \in versions : x.id = command[c].seen.id
                              /\ x.v = command[c].seen.current + 1
        /\ NextVersion(c)
     \/ /\ command[c].op = "delete"
        /\ Working(c, NoRow, {x \in versions : x.id # command[c].seen.id})
  /\ UNCHANGED inserted /\ DbSame

Commit(c) ==
  /\ command[c].pc = "written"
  /\ NoReaderBut(c)
  /\ row' = command[c].row
  /\ versions' = command[c].versions
  /\ acked' = IF command[c].op = "delete" THEN acked
              ELSE acked \union {[id |-> row'.id, v |-> row'.current, by |-> c]}
  /\ End(c)
  /\ UNCHANGED <<keyFile, inserted>>

\* The value is the current version's, found by one join and opened with the
\* tenant's key, which each process derives from its own master key.
Opens(k, x) == k = x.key

CurrentVersion == {x \in versions : x.id = row.id /\ x.v = row.current}

GetValue(c) ==
  /\ command[c].pc = "get"
  /\ IF \E x \in CurrentVersion : Opens(command[c].key, x) THEN Goto(c, "mark") ELSE End(c)
  /\ UNCHANGED inserted /\ DbSame

\* MarkUsed is a statement of its own, after the value was handed over: a
\* deletion or a lock in between only costs the caller a warning.
MarkUsed(c) ==
  /\ command[c].pc = "mark"
  /\ NoWriterBut(c) /\ NoReaderBut(c)
  /\ row' = IF row = NoRow THEN row ELSE [row EXCEPT !.used = TRUE]
  /\ End(c)
  /\ UNCHANGED <<keyFile, versions, inserted, acked>>

\* An error of any statement (a busy database, a full disk) rolls back and the
\* command reports it; a killed process leaves the same.
Abort(c) ==
  /\ command[c].pc # "idle"
  /\ End(c)
  /\ UNCHANGED inserted /\ DbSame

VaultStep(c) ==
  \/ ReadKey(c) \/ CreateKey(c) \/ WriteKey(c)
  \/ \E op \in Operations : Begin(c, op)
  \/ Insert(c) \/ SelectRow(c) \/ Statements(c) \/ Commit(c) \/ Abort(c)
  \/ GetValue(c) \/ MarkUsed(c)

VaultNext == \E c \in Commands : VaultStep(c)

VaultSpec == VaultInit /\ [][VaultNext]_vaultVars

-----------------------------------------------------------------------------
Rows == [id : 0..MaxSecrets, current : 0..MaxVersions, count : Nat, used : BOOLEAN]
VersionRows == [id : 1..MaxSecrets, v : 1..MaxVersions, active : BOOLEAN,
                key : Commands, by : Commands]

CommandRows == [pc : {"idle", "create_key", "write_key", "open", "insert", "begin", "read", "written",
                      "get", "mark"},
                key : Commands \union {Absent}, op : Operations \union {"none"},
                seen : Rows, row : Rows, versions : SUBSET VersionRows]

VaultTypeOK ==
  /\ keyFile \in Commands \union {Absent, Partial}
  /\ row \in Rows
  /\ versions \subseteq VersionRows
  /\ command \in [Commands -> CommandRows]
  /\ inserted \in 0..MaxSecrets
  /\ acked \subseteq [id : 1..MaxSecrets, v : 1..MaxVersions, by : Commands]

\* A set of version rows is the whole history of the row: 1..current once
\* each, only the last of them active, and nothing of another row.
OneHistory(r, vs) ==
  /\ r.count = r.current
  /\ {x.v : x \in vs} = 1..r.current
  /\ \A x \in vs : x.id = r.id /\ x.active = (x.v = r.current)
  /\ \A x, y \in vs : x.v = y.v => x = y

\* A write that returned its record is among the versions at its number, as
\* long as they are those of the row it wrote to.
Kept(r, vs) == \A a \in acked : a.id = r.id => \E x \in vs : x.v = a.v /\ x.by = a.by

\* The committed versions are always the whole history of the secret there
\* is, and a write that returned its record is in it at its own number until
\* the secret is deleted, whoever else upserts, rotates, deletes, creates it
\* anew, fails or dies between two statements.
SecretHasOneHistory == OneHistory(row, versions) /\ Kept(row, versions)

\* Whatever the race to make the development master key, every process that
\* got past it holds the key in the file, and every committed version is
\* under it: no process ever stores what the others cannot decrypt.
OneMasterKey ==
  /\ \A c \in Commands : command[c].key # Absent => command[c].key = keyFile
  /\ \A x \in versions : x.key = keyFile
=============================================================================

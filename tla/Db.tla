--------------------------------- MODULE Db ---------------------------------
(***************************************************************************)
(* src/db.c: instances of the program, in one directory, open the database *)
(* of captured chatter, store clips in it and close it. An instance may be *)
(* killed at any moment and started again. Every call of SQLite that       *)
(* touches the file is a step of its own and atomic, as SQLite promises.   *)
(* main.cc does not call these functions yet (lines 28 and 60); an         *)
(* instance calls them in the order db.h describes.                        *)
(***************************************************************************)
EXTENDS Integers

CONSTANTS
  Instances,  (* the instances of the program                              *)
  MaxStarts,  (* bound: how often an instance is started                   *)
  MaxStores,  (* bound: clips an instance stores, over all of its starts   *)
  Killable    (* the instances that may be killed                          *)

ASSUME StartAssumption == MaxStarts \in Nat /\ MaxStores \in Nat
ASSUME KillAssumption == Killable \subseteq Instances

VARIABLES
  pc,          (* where an instance is                                     *)
  db_existed,  (* whether its stat() found the file                        *)
  starts,      (* how often it has been started                            *)
  calls,       (* history: its calls of store_radio_data, the last one too *)
  answers,     (* history: what the calls that returned have returned      *)
  schemaFile,  (* whether ./assets/db_schema.sql can be opened             *)
  statWorks,   (* whether stat() has no other error than a missing file    *)
  file,        (* whether rcs_captured.db exists                           *)
  table,       (* whether the table chatter exists in it                   *)
  rows,        (* the rows of the table: <<instance, number of its call>>  *)
  interrupted  (* history: a new database was left without its schema      *)

instanceVars == <<pc, db_existed, starts, calls, answers>>
fileVars == <<schemaFile, statWorks, file, table, rows, interrupted>>
vars == <<instanceVars, fileVars>>

Goto(i, at) == pc' = [pc EXCEPT ![i] = at]

\* Broken: the error of stat() is not looked at.
MutNoStat(i) ==
  /\ pc[i] = "stat"
  /\ db_existed' = [db_existed EXCEPT ![i] = TRUE]
  /\ Goto(i, "open")
  /\ UNCHANGED <<starts, calls, answers, fileVars>>

\* Any other error of stat() than ENOENT leaves db_existed true.
Stat(i) ==
  /\ pc[i] = "stat"
  /\ \E existed \in IF statWorks THEN {file} ELSE {file, TRUE} :
       db_existed' = [db_existed EXCEPT ![i] = existed]
  /\ Goto(i, "open")
  /\ UNCHANGED <<starts, calls, answers, fileVars>>

\* sqlite3_open creates the file, empty, if there is none; or it fails and the
\* program exits.
Open(i) ==
  /\ pc[i] = "open"
  /\ \/ Goto(i, "exited") /\ UNCHANGED file
     \/ /\ file' = TRUE
        /\ Goto(i, IF db_existed[i] THEN "ready" ELSE "schema")
  /\ UNCHANGED <<db_existed, starts, calls, answers, schemaFile, statWorks, table, rows,
                 interrupted>>

\* The schema creates the table IF NOT EXISTS: another instance may have done so.
LoadSchema(i) ==
  /\ pc[i] = "schema"
  /\ schemaFile
  /\ table' = TRUE
  /\ Goto(i, "ready")
  /\ UNCHANGED <<db_existed, starts, calls, answers, schemaFile, statWorks, file, rows,
                 interrupted>>

\* The schema file cannot be opened, or SQLite not write: the program exits.
SchemaFails(i) ==
  /\ pc[i] = "schema"
  /\ Goto(i, "exited")
  /\ interrupted' = (interrupted \/ ~table)
  /\ UNCHANGED <<db_existed, starts, calls, answers, schemaFile, statWorks, file, table, rows>>

\* store_radio_data is called.
CallStore(i) ==
  /\ pc[i] = "ready"
  /\ calls[i] < MaxStores
  /\ calls' = [calls EXCEPT ![i] = @ + 1]
  /\ Goto(i, "insert")
  /\ UNCHANGED <<db_existed, starts, answers, fileVars>>

\* Broken: the row gets the number of the next call.
MutCountsOn(i) ==
  /\ pc[i] = "insert"
  /\ table
  /\ rows' = rows \cup {<<i, calls[i] + 1>>}
  /\ Goto(i, "done")
  /\ UNCHANGED <<db_existed, starts, calls, answers, schemaFile, statWorks, file, table,
                 interrupted>>

\* sqlite3_step commits the row.
Insert(i) ==
  /\ pc[i] = "insert"
  /\ table
  /\ rows' = rows \cup {<<i, calls[i]>>}
  /\ Goto(i, "done")
  /\ UNCHANGED <<db_existed, starts, calls, answers, schemaFile, statWorks, file, table,
                 interrupted>>

\* Broken: the row is committed, and the call fails behind it.
MutFailsLate(i) ==
  /\ pc[i] = "insert"
  /\ rows' = IF table THEN rows \cup {<<i, calls[i]>>} ELSE rows
  /\ Goto(i, "failed")
  /\ UNCHANGED <<db_existed, starts, calls, answers, schemaFile, statWorks, file, table,
                 interrupted>>

\* There is no table, so that preparing the statement has failed, or the other
\* instance holds the lock, or the disk is full.
InsertFails(i) ==
  /\ pc[i] = "insert"
  /\ Goto(i, "failed")
  /\ UNCHANGED <<db_existed, starts, calls, answers, fileVars>>

\* Broken: the result of the step is not looked at.
MutAlwaysTrue(i) ==
  /\ pc[i] \in {"done", "failed"}
  /\ answers' = answers \cup {[row |-> <<i, calls[i]>>, ok |-> TRUE]}
  /\ Goto(i, "ready")
  /\ UNCHANGED <<db_existed, starts, calls, fileVars>>

StoreReturns(i) ==
  /\ pc[i] \in {"done", "failed"}
  /\ answers' = answers \cup {[row |-> <<i, calls[i]>>, ok |-> pc[i] = "done"]}
  /\ Goto(i, "ready")
  /\ UNCHANGED <<db_existed, starts, calls, fileVars>>

\* rcs_close_db, and the end of the program whether it fails or not.
Close(i) ==
  /\ pc[i] = "ready"
  /\ Goto(i, "exited")
  /\ UNCHANGED <<db_existed, starts, calls, answers, fileVars>>

\* The instance is killed. What SQLite had committed stays.
Kill(i) ==
  /\ i \in Killable
  /\ pc[i] # "exited"
  /\ Goto(i, "exited")
  /\ interrupted' = (interrupted \/ (pc[i] = "schema" /\ ~table))
  /\ UNCHANGED <<db_existed, starts, calls, answers, schemaFile, statWorks, file, table, rows>>

Restart(i) ==
  /\ pc[i] = "exited"
  /\ starts[i] < MaxStarts
  /\ starts' = [starts EXCEPT ![i] = @ + 1]
  /\ Goto(i, "stat")
  /\ UNCHANGED <<db_existed, calls, answers, fileVars>>

\* Nobody is started again.
Finished ==
  /\ \A i \in Instances : pc[i] = "exited" /\ starts[i] = MaxStarts
  /\ UNCHANGED vars

Init ==
  /\ pc = [i \in Instances |-> "exited"]
  /\ db_existed = [i \in Instances |-> FALSE]
  /\ starts = [i \in Instances |-> 0]
  /\ calls = [i \in Instances |-> 0]
  /\ answers = {}
  /\ schemaFile \in BOOLEAN
  /\ statWorks \in BOOLEAN
  /\ file = FALSE
  /\ table = FALSE
  /\ rows = {}
  /\ interrupted = FALSE

Step(i) ==
  \/ Stat(i)
  \/ Open(i)
  \/ LoadSchema(i)
  \/ SchemaFails(i)
  \/ CallStore(i)
  \/ Insert(i)
  \/ InsertFails(i)
  \/ StoreReturns(i)
  \/ Close(i)
  \/ Kill(i)
  \/ Restart(i)

Next == (\E i \in Instances : Step(i)) \/ Finished

Spec == Init /\ [][Next]_vars

-----------------------------------------------------------------------------
(* Properties *)

\* Every variable stays in its type.
TypeOK ==
  /\ pc \in [Instances -> {"stat", "open", "schema", "ready", "insert", "done",
                           "failed", "exited"}]
  /\ db_existed \in [Instances -> BOOLEAN]
  /\ starts \in [Instances -> 0..MaxStarts]
  /\ calls \in [Instances -> 0..MaxStores]
  /\ answers \subseteq [row : Instances \X (1..MaxStores), ok : BOOLEAN]
  /\ {schemaFile, statWorks, file, table} \subseteq BOOLEAN
  /\ rows \subseteq Instances \X (1..MaxStores)
  /\ interrupted \in BOOLEAN

Opened(i) == pc[i] \in {"ready", "insert", "done", "failed"}

\* Where stat() works, an instance that has opened the database finds the table
\* in it, unless an earlier setup was interrupted or another instance is in the
\* middle of one: nothing else breaks what db.h:20-23 says.
TableUnlessInterrupted ==
  statWorks /\ (\E i \in Instances : Opened(i)) /\ ~table =>
    interrupted \/ \E j \in Instances : pc[j] = "schema"

\* db.h:47: what store_radio_data returns is the truth: the row is in the table
\* from then on, whoever is killed, or it is not and never will be.
AnswersAreTrue == \A a \in answers : a.ok <=> a.row \in rows

\* The calls of store_radio_data under way, and those that are over.
Storing(i) == pc[i] \in {"insert", "done", "failed"}

Pending == {c \in Instances \X (1..MaxStores) : Storing(c[1]) /\ c[2] = calls[c[1]]}
Ended   == {c \in Instances \X (1..MaxStores) : c[2] <= calls[c[1]]} \ Pending

Rows == INSTANCE Store WITH
  Calls   <- Instances \X (1..MaxStores),
  pending <- Pending,
  ended   <- Ended,
  stored  <- rows

\* db.h:37-48: instances that are killed and started again, share one file and
\* may not find its table, are together one store whose calls take effect at
\* once or not at all and are answered truthfully.
ImplementsStore == Rows!Spec

\* db.h:20-23: if the file "does not exist, then one will be created and have
\* the desired schema added to it": with a stat() that works at the least.
OpenMeansTable == statWorks => \A i \in Instances : Opened(i) => table
=============================================================================

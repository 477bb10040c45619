------------------------------ MODULE DbProofs ------------------------------
(***************************************************************************)
(* The safety properties of Db for any number of instances, of starts and  *)
(* of clips, and any choice of the instances that may be killed.           *)
(***************************************************************************)
EXTENDS Db, TLAPS

-----------------------------------------------------------------------------
(* Types *)

\* A call that is under way has been counted.
InvCounted == \A i \in Instances : Storing(i) => calls[i] \in 1..MaxStores

Typed == TypeOK /\ InvCounted

\* Every start is typed.
LEMMA InitTyped == Init => Typed
<1>. SUFFICES ASSUME Init PROVE Typed
  OBVIOUS
<1>1. 0 \in 0..MaxStarts /\ 0 \in 0..MaxStores
  BY StartAssumption
<1>2. TypeOK
  BY <1>1 DEF Init, TypeOK
<1>3. InvCounted
  BY DEF Init, InvCounted, Storing
<1>. QED
  BY <1>2, <1>3 DEF Typed

\* Every step of one instance keeps it: the bounds of the two counters are
\* guards of CallStore and Restart, rows and answers carry a counted number.
LEMMA StepTyped ==
  ASSUME Typed, NEW i \in Instances, Step(i)
  PROVE  Typed'
<1>. USE DEF Typed, TypeOK, InvCounted, Storing, Goto, fileVars
<1>1. CASE Stat(i)
  BY <1>1 DEF Stat
<1>2. CASE Open(i)
  BY <1>2 DEF Open
<1>3. CASE LoadSchema(i)
  BY <1>3 DEF LoadSchema
<1>4. CASE SchemaFails(i)
  BY <1>4 DEF SchemaFails
<1>5. CASE CallStore(i)
  BY <1>5, StartAssumption DEF CallStore
<1>6. CASE Insert(i)
  BY <1>6 DEF Insert
<1>7. CASE InsertFails(i)
  BY <1>7 DEF InsertFails
<1>8. CASE StoreReturns(i)
  <2>1. PICK b \in BOOLEAN : b = (pc[i] = "done")
    OBVIOUS
  <2>2. answers' = answers \cup {[row |-> <<i, calls[i]>>, ok |-> b]}
    BY <1>8, <2>1 DEF StoreReturns
  <2>3. <<i, calls[i]>> \in Instances \X (1..MaxStores)
    BY <1>8 DEF StoreReturns
  <2>4. answers' \subseteq [row : Instances \X (1..MaxStores), ok : BOOLEAN]
    BY <2>2, <2>3
  <2>. QED
    BY <1>8, <2>4 DEF StoreReturns
<1>9. CASE Close(i)
  BY <1>9 DEF Close
<1>10. CASE Kill(i)
  BY <1>10 DEF Kill
<1>11. CASE Restart(i)
  BY <1>11, StartAssumption DEF Restart
<1>. QED
  BY <1>1, <1>2, <1>3, <1>4, <1>5, <1>6, <1>7, <1>8, <1>9, <1>10, <1>11 DEF Step

\* So does every step of the system.
LEMMA NextTyped == Typed /\ [Next]_vars => Typed'
<1>. SUFFICES ASSUME Typed, [Next]_vars PROVE Typed'
  OBVIOUS
<1>1. CASE UNCHANGED vars
  BY <1>1 DEF vars, instanceVars, fileVars, Typed, TypeOK, InvCounted, Storing
<1>. QED
  BY <1>1, StepTyped DEF Next, Finished

\* Every reachable state is typed.
LEMMA AlwaysTyped == Spec => []Typed
  BY InitTyped, NextTyped, PTL DEF Spec

\* Every variable of Db stays in its type, with any number of instances.
THEOREM TypeCorrect == Spec => []TypeOK
<1>. Typed => TypeOK
  BY DEF Typed
<1>. QED
  BY AlwaysTyped, PTL

-----------------------------------------------------------------------------
(* The table *)

\* What a stat() that works found exists when sqlite3_open is called, an open
\* database has a file, and a file without a table has its reason.
InvSetup ==
  /\ statWorks => \A i \in Instances : pc[i] = "open" /\ db_existed[i] => file
  /\ \A i \in Instances : Opened(i) \/ pc[i] = "schema" => file
  /\ statWorks /\ file /\ ~table => interrupted \/ \E j \in Instances : pc[j] = "schema"

\* There is no file at the start.
LEMMA InitSetup == Init => InvSetup
  BY DEF Init, InvSetup, Opened

\* Every step keeps it: the file is never removed, the table never dropped, and
\* an instance leaves the setup with the table or records the interruption.
LEMMA StepSetup ==
  ASSUME Typed, InvSetup, NEW i \in Instances, Step(i)
  PROVE  InvSetup'
<1>. USE DEF Typed, TypeOK, InvSetup, Opened, Goto
<1>1. CASE Stat(i)
  <2>1. PICK existed \in IF statWorks THEN {file} ELSE {file, TRUE} :
          db_existed' = [db_existed EXCEPT ![i] = existed]
    BY <1>1 DEF Stat
  <2>2. pc' = [pc EXCEPT ![i] = "open"] /\ UNCHANGED fileVars
    BY <1>1 DEF Stat
  <2>3. statWorks => db_existed' = [db_existed EXCEPT ![i] = file]
    BY <2>1
  <2>4. /\ statWorks => db_existed'[i] = file
        /\ statWorks => \A k \in Instances \ {i} : db_existed'[k] = db_existed[k]
        /\ pc'[i] = "open" /\ \A k \in Instances \ {i} : pc'[k] = pc[k]
    BY <2>2, <2>3
  <2>5. statWorks => \A k \in Instances : pc'[k] = "open" /\ db_existed'[k] => file
    BY <2>4
  <2>6. \A k \in Instances : Opened(k)' \/ pc'[k] = "schema" => file
    BY <2>4
  <2>7. pc[i] # "schema"
    BY <1>1 DEF Stat
  <2>8. statWorks /\ file /\ ~table => interrupted \/ \E j \in Instances : pc'[j] = "schema"
    BY <2>4, <2>7
  <2>. QED
    BY <2>2, <2>5, <2>6, <2>8 DEF fileVars
<1>2. CASE Open(i)
  BY <1>2 DEF Open
<1>3. CASE LoadSchema(i)
  <2>1. table' /\ file' = file /\ db_existed' = db_existed
    BY <1>3 DEF LoadSchema
  <2>2. \A k \in Instances : pc'[k] = pc[k] \/ (k = i /\ pc'[k] = "ready")
    BY <1>3 DEF LoadSchema
  <2>3. file
    BY <1>3 DEF LoadSchema
  <2>. QED
    BY <2>1, <2>2, <2>3
<1>4. CASE SchemaFails(i)
  BY <1>4 DEF SchemaFails
<1>5. CASE CallStore(i) \/ InsertFails(i) \/ StoreReturns(i) \/ Close(i)
  BY <1>5 DEF CallStore, InsertFails, StoreReturns, Close, fileVars
<1>6. CASE Insert(i)
  BY <1>6 DEF Insert
<1>7. CASE Kill(i)
  BY <1>7 DEF Kill
<1>8. CASE Restart(i)
  BY <1>8 DEF Restart, fileVars
<1>. QED
  BY <1>1, <1>2, <1>3, <1>4, <1>5, <1>6, <1>7, <1>8 DEF Step

\* So does every step of the system.
LEMMA NextSetup == Typed /\ InvSetup /\ [Next]_vars => InvSetup'
<1>. SUFFICES ASSUME Typed, InvSetup, [Next]_vars PROVE InvSetup'
  OBVIOUS
<1>1. CASE UNCHANGED vars
  BY <1>1 DEF vars, instanceVars, fileVars, InvSetup, Opened
<1>. QED
  BY <1>1, StepSetup DEF Next, Finished

\* db.c:77-102: an open database has its table unless a setup was interrupted
\* or is still going on, however many instances there are.
THEOREM TableThere == Spec => []TableUnlessInterrupted
<1>. InvSetup => TableUnlessInterrupted
  BY DEF InvSetup, TableUnlessInterrupted
<1>. QED
  BY AlwaysTyped, InitSetup, NextSetup, PTL DEF Spec

-----------------------------------------------------------------------------
(* The answers *)

\* Rows and answers belong to calls that have been made; the call under way has
\* no answer yet, and a row exactly if its insert was done.
InvStored ==
  /\ \A r \in rows : r[2] <= calls[r[1]]
  /\ \A a \in answers : a.row[2] <= calls[a.row[1]]
  /\ \A i \in Instances :
       /\ Storing(i) => \A a \in answers : a.row # <<i, calls[i]>>
       /\ pc[i] = "done" => <<i, calls[i]>> \in rows
       /\ pc[i] \in {"insert", "failed"} => <<i, calls[i]>> \notin rows
  /\ AnswersAreTrue

\* Nothing is stored at the start.
LEMMA InitStored == Init => InvStored
  BY DEF Init, InvStored, Storing, AnswersAreTrue

\* A step that neither counts a call nor stores nor answers keeps it, unless
\* it moves an instance into a call.
LEMMA OtherStep ==
  ASSUME Typed, InvStored, NEW i \in Instances,
         UNCHANGED <<calls, answers, rows>>,
         \E at : pc' = [pc EXCEPT ![i] = at] /\ at \notin {"insert", "done", "failed"}
  PROVE  InvStored'
  BY DEF Typed, TypeOK, InvStored, Storing, AnswersAreTrue

\* Counting a call: its number is new.
LEMMA CallStep ==
  ASSUME Typed, InvStored, NEW i \in Instances, CallStore(i)
  PROVE  InvStored'
<1>1. /\ calls[i] \in Nat
      /\ calls' = [calls EXCEPT ![i] = calls[i] + 1]
      /\ pc' = [pc EXCEPT ![i] = "insert"]
      /\ UNCHANGED <<answers, rows>>
  BY DEF CallStore, Goto, fileVars, Typed, TypeOK
<1>2. PICK n \in Nat : n = calls[i] + 1
  BY <1>1
<1>3. /\ <<i, n>> \notin rows
      /\ \A a \in answers : a.row # <<i, n>>
  BY <1>1, <1>2 DEF InvStored
<1>4. \A k \in Instances : calls[k] \in Int /\ calls'[k] \in Int /\ calls[k] <= calls'[k]
  BY <1>1 DEF Typed, TypeOK
<1>5. \A r \in rows : r[1] \in Instances /\ r[2] \in Int
  BY DEF Typed, TypeOK
<1>6. \A a \in answers : a.row[1] \in Instances /\ a.row[2] \in Int
  BY DEF Typed, TypeOK
<1>7. \A r \in rows : r[2] <= calls'[r[1]]
  BY <1>4, <1>5 DEF InvStored
<1>8. \A a \in answers : a.row[2] <= calls'[a.row[1]]
  BY <1>4, <1>6 DEF InvStored
<1>9. calls'[i] = n /\ \A k \in Instances \ {i} : calls'[k] = calls[k] /\ pc'[k] = pc[k]
  BY <1>1, <1>2 DEF Typed, TypeOK
<1>10. pc'[i] = "insert"
  BY <1>1 DEF Typed, TypeOK
<1>11. ASSUME NEW k \in Instances
       PROVE  /\ Storing(k)' => \A a \in answers : a.row # <<k, calls'[k]>>
              /\ pc'[k] = "done" => <<k, calls'[k]>> \in rows
              /\ pc'[k] \in {"insert", "failed"} => <<k, calls'[k]>> \notin rows
  BY <1>3, <1>9, <1>10 DEF InvStored, Storing
<1>. QED
  BY <1>1, <1>7, <1>8, <1>11 DEF InvStored, AnswersAreTrue

\* The insert adds the row of the call under way, which nobody has answered.
LEMMA InsertStep ==
  ASSUME Typed, InvStored, NEW i \in Instances, Insert(i)
  PROVE  InvStored'
<1>1. /\ rows' = rows \cup {<<i, calls[i]>>}
      /\ pc' = [pc EXCEPT ![i] = "done"]
      /\ pc[i] = "insert"
      /\ UNCHANGED <<answers, calls>>
  BY DEF Insert, Goto
<1>2. \A a \in answers : a.row # <<i, calls[i]>>
  BY <1>1 DEF InvStored, Storing
<1>3. AnswersAreTrue'
  BY <1>1, <1>2 DEF InvStored, AnswersAreTrue
<1>4. \A r \in rows' : r[2] <= calls[r[1]]
  BY <1>1 DEF InvStored, Typed, TypeOK
<1>. QED
  BY <1>1, <1>3, <1>4 DEF InvStored, Storing, Typed, TypeOK

\* The answer says whether the insert was done.
LEMMA ReturnStep ==
  ASSUME Typed, InvStored, NEW i \in Instances, StoreReturns(i)
  PROVE  InvStored'
<1>1. /\ answers' = answers \cup {[row |-> <<i, calls[i]>>, ok |-> pc[i] = "done"]}
      /\ pc' = [pc EXCEPT ![i] = "ready"]
      /\ pc[i] \in {"done", "failed"}
      /\ UNCHANGED <<rows, calls>>
  BY DEF StoreReturns, Goto, fileVars
<1>2. pc[i] = "done" <=> <<i, calls[i]>> \in rows
  BY <1>1 DEF InvStored
<1>3. AnswersAreTrue'
  <2>1. PICK b \in BOOLEAN : b <=> pc[i] = "done"
    OBVIOUS
  <2>2. b = (pc[i] = "done")
    BY <2>1
  <2>3. answers' = answers \cup {[row |-> <<i, calls[i]>>, ok |-> b]}
    BY <1>1, <2>2
  <2>4. \A a \in answers' : a \in answers \/ (a.row = <<i, calls[i]>> /\ a.ok = b)
    BY <2>3
  <2>. QED
    BY <1>1, <1>2, <2>1, <2>4 DEF InvStored, AnswersAreTrue
<1>4. \A a \in answers' : a.row[2] <= calls[a.row[1]]
  BY <1>1 DEF InvStored, Typed, TypeOK
<1>5. \A k \in Instances \ {i} : \A a \in answers' : a.row = <<k, calls[k]>> => a \in answers
  BY <1>1
<1>. QED
  BY <1>1, <1>3, <1>4, <1>5 DEF InvStored, Storing, Typed, TypeOK

\* A failed insert leaves everything as it was.
LEMMA FailStep ==
  ASSUME Typed, InvStored, NEW i \in Instances, InsertFails(i)
  PROVE  InvStored'
  BY DEF InsertFails, Goto, fileVars, InvStored, Storing, AnswersAreTrue, Typed, TypeOK

\* Every step of one instance keeps it.
LEMMA StepStored ==
  ASSUME Typed, InvStored, NEW i \in Instances, Step(i)
  PROVE  InvStored'
<1>1. CASE LoadSchema(i) \/ SchemaFails(i) \/ Close(i) \/ Kill(i) \/ Restart(i)
  BY <1>1, OtherStep DEF LoadSchema, SchemaFails, Close, Kill, Restart, Goto, fileVars
<1>2. CASE Stat(i) \/ Open(i)
  <2>1. UNCHANGED <<calls, answers, rows>>
    BY <1>2 DEF Stat, Open, fileVars
  <2>2. \E at \in {"open", "exited", "ready", "schema"} : pc' = [pc EXCEPT ![i] = at]
    BY <1>2 DEF Stat, Open, Goto
  <2>. QED
    BY <2>1, <2>2, OtherStep
<1>. QED
  BY <1>1, <1>2, CallStep, InsertStep, ReturnStep, FailStep DEF Step

\* So does every step of the system.
LEMMA NextStored == Typed /\ InvStored /\ [Next]_vars => InvStored'
<1>. SUFFICES ASSUME Typed, InvStored, [Next]_vars PROVE InvStored'
  OBVIOUS
<1>1. CASE UNCHANGED vars
  BY <1>1 DEF vars, instanceVars, fileVars, InvStored, Storing, AnswersAreTrue
<1>. QED
  BY <1>1, StepStored DEF Next, Finished

\* db.c:118-136: what store_radio_data has answered is and stays true, for any
\* number of instances that are killed at any step and started again.
THEOREM AnswersTrue == Spec => []AnswersAreTrue
<1>. InvStored => AnswersAreTrue
  BY DEF InvStored
<1>. QED
  BY AlwaysTyped, InitStored, NextStored, PTL DEF Spec

-----------------------------------------------------------------------------
(* Db implements Store *)

AllCalls == Instances \X (1..MaxStores)

\* Nothing is under way at the start.
LEMMA StoreInit == Init => Rows!Init
<1>. SUFFICES ASSUME Init PROVE Rows!Init
  OBVIOUS
<1>1. Pending = {}
  BY DEF Init, Pending, Storing
<1>2. Ended = {}
  BY StartAssumption DEF Init, Ended
<1>. QED
  BY <1>1, <1>2 DEF Init, Rows!Init

\* A step that neither counts a call nor begins or ends one is not seen.
LEMMA Unseen ==
  ASSUME UNCHANGED <<calls, rows, answers>>,
         \A k \in Instances : Storing(k)' <=> Storing(k)
  PROVE  UNCHANGED Rows!vars
<1>1. Pending' = Pending
  BY DEF Pending
<1>2. Ended' = Ended
  BY <1>1 DEF Ended
<1>. QED
  BY <1>1, <1>2 DEF Rows!vars

\* When an instance leaves its call, the call is over.
LEMMA CallOver ==
  ASSUME Typed, NEW i \in Instances, Storing(i), calls' = calls,
         NEW at, at \notin {"insert", "done", "failed"}, pc' = [pc EXCEPT ![i] = at]
  PROVE  /\ <<i, calls[i]>> \in Pending \cap AllCalls
         /\ Pending' = Pending \ {<<i, calls[i]>>}
         /\ Ended' = Ended \cup {<<i, calls[i]>>}
<1>1. calls[i] \in 1..MaxStores
  BY DEF Typed, InvCounted
<1>2. ~Storing(i)' /\ \A k \in Instances \ {i} : Storing(k)' <=> Storing(k)
  BY DEF Storing, Typed, TypeOK
<1>3. <<i, calls[i]>> \in Pending \cap AllCalls
  BY <1>1 DEF Pending, AllCalls
<1>4. Pending' = Pending \ {<<i, calls[i]>>}
  BY <1>2 DEF Pending
<1>5. Ended' = Ended \cup {<<i, calls[i]>>}
  BY <1>1, <1>3, <1>4 DEF Ended, AllCalls
<1>. QED
  BY <1>3, <1>4, <1>5

\* A call that is counted has not been made before.
LEMMA CallBegins ==
  ASSUME Typed, NEW i \in Instances, CallStore(i)
  PROVE  Rows!Next
<1>1. /\ pc[i] = "ready" /\ calls[i] < MaxStores
      /\ calls' = [calls EXCEPT ![i] = calls[i] + 1]
      /\ pc' = [pc EXCEPT ![i] = "insert"]
      /\ UNCHANGED <<answers, rows>>
  BY DEF CallStore, Goto, fileVars
<1>2. calls \in [Instances -> 0..MaxStores] /\ MaxStores \in Nat
  BY StartAssumption DEF Typed, TypeOK
<1>3. PICK n \in 1..MaxStores : n = calls[i] + 1
  BY <1>1, <1>2
<1>4. calls'[i] = n /\ \A k \in Instances \ {i} : calls'[k] = calls[k]
  BY <1>1, <1>2, <1>3
<1>5. /\ ~Storing(i) /\ Storing(i)'
      /\ \A k \in Instances \ {i} : Storing(k)' <=> Storing(k)
  BY <1>1 DEF Storing, Typed, TypeOK
<1>6. <<i, n>> \in AllCalls
  BY <1>3 DEF AllCalls
<1>7. <<i, n>> \notin Pending \cup Ended
  BY <1>2, <1>3, <1>5 DEF Pending, Ended
<1>8. Pending' = Pending \cup {<<i, n>>}
  <2>1. ASSUME NEW c \in AllCalls
        PROVE  (Storing(c[1])' /\ c[2] = calls'[c[1]])
                 <=> (Storing(c[1]) /\ c[2] = calls[c[1]]) \/ c = <<i, n>>
    <3>1. CASE c[1] = i
      BY <3>1, <1>4, <1>5 DEF AllCalls
    <3>2. CASE c[1] # i
      BY <3>2, <1>4, <1>5 DEF AllCalls
    <3>. QED
      BY <3>1, <3>2
  <2>. QED
    BY <2>1, <1>6 DEF Pending, AllCalls
<1>9. Ended' = Ended
  <2>1. ASSUME NEW c \in AllCalls
        PROVE  c[2] <= calls'[c[1]] <=> c[2] <= calls[c[1]] \/ c = <<i, n>>
    <3>1. CASE c[1] = i
      <4>1. c = <<i, c[2]>> /\ c[2] \in Nat
        BY <3>1 DEF AllCalls
      <4>2. c = <<i, n>> <=> c[2] = n
        BY <4>1
      <4>. QED
        BY <3>1, <4>1, <4>2, <1>2, <1>3, <1>4
    <3>2. CASE c[1] # i
      BY <3>2, <1>4 DEF AllCalls
    <3>. QED
      BY <3>1, <3>2
  <2>. QED
    BY <2>1, <1>7, <1>8 DEF Ended, AllCalls
<1>. QED
  BY <1>1, <1>6, <1>7, <1>8, <1>9 DEF Rows!Next, Rows!Call, AllCalls

\* The insert commits the row of the call under way.
LEMMA InsertCommits ==
  ASSUME Typed, InvStored, NEW i \in Instances, Insert(i)
  PROVE  Rows!Next
<1>1. <<i, calls[i]>> \notin rows
  BY DEF Insert, InvStored
<1>2. <<i, calls[i]>> \in Pending \cap AllCalls
  BY DEF Insert, Typed, InvCounted, Pending, Storing, AllCalls
<1>3. \A k \in Instances : Storing(k)' <=> Storing(k)
  BY DEF Insert, Goto, Typed, TypeOK, Storing
<1>4. UNCHANGED <<Pending, Ended>>
  BY <1>3 DEF Insert, Pending, Ended
<1>. QED
  BY <1>1, <1>2, <1>4 DEF Insert, Rows!Next, Rows!Commit, AllCalls

\* The answer says what is in the table.
LEMMA ReturnAnswers ==
  ASSUME Typed, InvStored, NEW i \in Instances, StoreReturns(i)
  PROVE  Rows!Next
<1>1. Storing(i) /\ calls' = calls /\ rows' = rows /\ pc' = [pc EXCEPT ![i] = "ready"]
  BY DEF StoreReturns, Storing, Goto, fileVars
<1>2. PICK c : c = <<i, calls[i]>>
  OBVIOUS
<1>3. c \in Pending \cap AllCalls /\ Pending' = Pending \ {c} /\ Ended' = Ended \cup {c}
  BY <1>1, <1>2, CallOver
<1>4. (pc[i] = "done") = (c \in rows)
  BY <1>2 DEF StoreReturns, InvStored
<1>5. answers' = answers \cup {[row |-> c, ok |-> c \in rows]}
  BY <1>2, <1>4 DEF StoreReturns
<1>. QED
  BY <1>1, <1>3, <1>5 DEF Rows!Next, Rows!Return, AllCalls

\* A kill abandons the call under way, if there is one.
LEMMA KillAbandons ==
  ASSUME Typed, NEW i \in Instances, Kill(i)
  PROVE  Rows!Next \/ UNCHANGED Rows!vars
<1>1. UNCHANGED <<calls, rows, answers>> /\ pc' = [pc EXCEPT ![i] = "exited"]
  BY DEF Kill, Goto
<1>2. CASE Storing(i)
  BY <1>1, <1>2, CallOver DEF Rows!Next, Rows!Abandon, AllCalls
<1>3. CASE ~Storing(i)
  <2>1. \A k \in Instances : Storing(k)' <=> Storing(k)
    BY <1>1, <1>3 DEF Storing, Typed, TypeOK
  <2>. QED
    BY <1>1, <2>1, Unseen
<1>. QED
  BY <1>2, <1>3

\* Every step is a step of the store, or is not seen.
LEMMA StoreStep ==
  Typed /\ InvStored /\ [Next]_vars => [Rows!Next]_(Rows!vars)
<1>. SUFFICES ASSUME Typed, InvStored, [Next]_vars
              PROVE  Rows!Next \/ UNCHANGED Rows!vars
  OBVIOUS
<1>1. ASSUME NEW i \in Instances, Stat(i) \/ LoadSchema(i) \/ SchemaFails(i) \/ Close(i)
                                   \/ Restart(i) \/ InsertFails(i) \/ Open(i)
      PROVE  UNCHANGED Rows!vars
  <2>1. UNCHANGED <<calls, rows, answers>>
    BY <1>1 DEF Stat, LoadSchema, SchemaFails, Close, Restart, InsertFails, Open, fileVars
  <2>2. \A k \in Instances : Storing(k)' <=> Storing(k)
    BY <1>1 DEF Stat, LoadSchema, SchemaFails, Close, Restart, InsertFails, Open, Goto,
       Storing, Typed, TypeOK
  <2>. QED
    BY <2>1, <2>2, Unseen
<1>2. ASSUME NEW i \in Instances, Step(i)
      PROVE  Rows!Next \/ UNCHANGED Rows!vars
  BY <1>1, <1>2, CallBegins, InsertCommits, ReturnAnswers, KillAbandons DEF Step
<1>3. CASE UNCHANGED vars
  BY <1>3, Unseen DEF vars, instanceVars, fileVars, Storing
<1>. QED
  BY <1>2, <1>3 DEF Next, Finished

\* db.c:118-136: any number of instances that are killed and started again are
\* together one store whose calls take effect at once or not at all.
THEOREM StoreImplemented == Spec => ImplementsStore
<1>. QED
  BY AlwaysTyped, InitStored, NextStored, StoreInit, StoreStep, PTL
  DEF Spec, ImplementsStore, Rows!Spec
=============================================================================

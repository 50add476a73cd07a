---------------------------- MODULE GuestServices ----------------------------
(***************************************************************************)
(* What the desk keeps for a stay besides the booking: hardware jobs and   *)
(* the browser that carries them to the agent at the desk, registration    *)
(* cards, digital keys, wake-up calls, TM.30 reports, found items,         *)
(* complaints, feedback and messages. Each is a table of rows with a       *)
(* status; a handler reads the row, checks the status and writes the row   *)
(* without asking again. Nothing but the unique indexes of the schema      *)
(* holds two calls apart.                                                  *)
(***************************************************************************)
EXTENDS Integers, Sequences, FiniteSets

CONSTANTS
    Requests,       \* calls in flight: a browser's, with the API handler it waits for
    Stays,          \* Reservation rows
    Foreigners,     \* stays whose guest is not Thai and has a passport number
    Keys, NoKey,    \* idempotency keys
    MaxRows,        \* bound: rows of all tables together
    Mixes           \* bound: tables that one behaviour fills; only a job's row names
                    \* a row of another table

VARIABLES
    stay,           \* Reservation.status
    row,            \* the rows of all tables
    req,            \* calls in flight
    ran,            \* jobs whose adapter has run, the agent's or the simulated one
    heard           \* which job a caller was given for its key

vars == <<stay, row, req, ran, heard>>

ASSUME GuestServicesAssumption ==
    Foreigners \subseteq Stays /\ NoKey \notin Keys /\ MaxRows \in Nat

-----------------------------------------------------------------------------
\* `of` is the stay, or a job's card; `steps` the calls that wrote the row,
\* each with a time and a name of its own; `version` is a card's.
New(kind, of, status) == [kind |-> kind, of |-> of, status |-> status, steps |-> {},
                          version |-> 0, key |-> NoKey]
Rows(kind) == {i \in DOMAIN row : row[i].kind = kind}

Idle == [op |-> "idle"]
Begin(r, h) == req[r] = Idle /\ req' = [req EXCEPT ![r] = h]
Continue(r, h) == req' = [req EXCEPT ![r] = h]
Goto(r, op) == req' = [req EXCEPT ![r].op = op]
End(r) == req' = [req EXCEPT ![r] = Idle]
Fits(kind) == \E mix \in Mixes : {row[i].kind : i \in DOMAIN row} \cup {kind} \subseteq mix
Insert(x) == Len(row) < MaxRows /\ Fits(x.kind) /\ row' = Append(row, x)

Init ==
    /\ stay = [s \in Stays |-> "CONFIRMED"]
    /\ row = <<>>
    /\ req = [r \in Requests |-> Idle]
    /\ ran = {}
    /\ heard = {}

\* Reservations move on as FrontOffice says.
StayMoves ==
    /\ \E s \in Stays :
        \/ stay[s] = "CONFIRMED" /\ stay' = [stay EXCEPT ![s] = "CHECKED_IN"]
        \/ stay[s] = "CHECKED_IN" /\ stay' = [stay EXCEPT ![s] = "CHECKED_OUT"]
    /\ UNCHANGED <<row, req, ran, heard>>

\* The browser is closed, the process dies or an await throws: what was
\* written stays, and the answer is not heard.
Fail(r) ==
    /\ req[r] # Idle
    /\ End(r)
    /\ UNCHANGED <<stay, row, ran, heard>>

-----------------------------------------------------------------------------
(* Hardware jobs. `job` holds what the call is about; `then` what the      *)
(* browser does with the job it gets.                                      *)

\* RegistrationCardPrintClient asks for a job, with no key, and does not take it
\* to the agent; another client of the same route may give a key.
PrintCard(r, i, key) ==
    /\ row[i].kind = "card" /\ row[i].status = "SIGNED"
    /\ Begin(r, [op |-> "findJob", key |-> key, card |-> i, then |-> "answer"])
    /\ UNCHANGED <<stay, row, ran, heard>>

\* HbActionsPanel: "send to agent" and "simulate"; no key is given.
PanelJob(r, then) ==
    /\ Fits("job")
    /\ Begin(r, [op |-> "findJob", key |-> NoKey, card |-> 0, then |-> then])
    /\ UNCHANGED <<stay, row, ran, heard>>

\* Any other client of the API may give a key.
KeyedJob(r, key) ==
    /\ Fits("job")
    /\ Begin(r, [op |-> "findJob", key |-> key, card |-> 0, then |-> "answer"])
    /\ UNCHANGED <<stay, row, ran, heard>>

JobsOf(key) == {i \in Rows("job") : key # NoKey /\ row[i].key = key}
Got(r, i) == Continue(r, [op |-> "gotJob", key |-> req[r].key, job |-> i, then |-> req[r].then])

FindJob(r) ==
    /\ req[r].op = "findJob"
    /\ IF JobsOf(req[r].key) = {} THEN Goto(r, "insertJob")
       ELSE \E i \in JobsOf(req[r].key) : Got(r, i)
    /\ UNCHANGED <<stay, row, ran, heard>>

\* Mutant: the conflict is not looked into; the key is left out instead.
InsertJobAnyway(r) ==
    /\ req[r].op = "insertJob"
    /\ Insert([New("job", req[r].card, "PENDING") EXCEPT !.key = req[r].key])
    /\ Got(r, Len(row) + 1)
    /\ UNCHANGED <<stay, ran, heard>>

\* The unique key refuses a second job; the handler then looks again.
InsertJob(r) ==
    /\ req[r].op = "insertJob"
    /\ IF JobsOf(req[r].key) = {}
       THEN /\ Insert([New("job", req[r].card, "PENDING") EXCEPT !.key = req[r].key])
            /\ Got(r, Len(row) + 1)
       ELSE row' = row /\ \E i \in JobsOf(req[r].key) : Got(r, i)
    /\ UNCHANGED <<stay, ran, heard>>

HearJob(r) ==
    /\ req[r].op = "gotJob"
    /\ heard' = heard \cup (IF req[r].key = NoKey THEN {} ELSE {<<req[r].key, req[r].job>>})
    /\ IF req[r].then = "answer" THEN End(r)
       ELSE Continue(r, [op |-> req[r].then, job |-> req[r].job])
    /\ UNCHANGED <<stay, row, ran>>

IsOpenable(status) == status \in {"PENDING", "IN_PROGRESS"}

\* Mutant: the job is completed whatever became of the call to the agent.
RunAnyway(r) ==
    /\ req[r].op = "run"
    /\ ran' \in {ran, ran \cup {req[r].job}}
    /\ Goto(r, "complete")
    /\ UNCHANGED <<stay, row, heard>>

\* The agent at the desk prints, encodes or scans, and answers; or it cannot
\* be reached; or it has done the work and the answer is lost.
RunLocal(r) ==
    /\ req[r].op = "run"
    /\ \/ ran' = ran \cup {req[r].job} /\ Goto(r, "complete")
       \/ ran' = ran /\ Goto(r, "fail")
       \/ ran' = ran \cup {req[r].job} /\ Goto(r, "fail")
    /\ UNCHANGED <<stay, row, heard>>

CompleteRead(r) ==
    /\ req[r].op = "complete"
    /\ Goto(r, IF IsOpenable(row[req[r].job].status) THEN "completeWrite" ELSE "fail")
    /\ UNCHANGED <<stay, row, ran, heard>>

SimulateRead(r) ==
    /\ req[r].op = "simulate"
    /\ IsOpenable(row[req[r].job].status)
    /\ ran' = ran \cup {req[r].job}
    /\ Goto(r, "simulateWrite")
    /\ UNCHANGED <<stay, row, heard>>

\* When the answer of completeJob is lost, sendToAgent goes on to failJob.
CompleteWrite(r) ==
    /\ req[r].op \in {"completeWrite", "simulateWrite"}
    /\ row' = [row EXCEPT ![req[r].job].status = "COMPLETED",
                          ![req[r].job].steps = @ \cup {"complete"}]
    /\ \/ End(r)
       \/ req[r].op = "completeWrite" /\ Goto(r, "fail")
    /\ UNCHANGED <<stay, ran, heard>>

\* failJob; its refusal is swallowed.
FailRead(r) ==
    /\ req[r].op = "fail"
    /\ IF IsOpenable(row[req[r].job].status) THEN Goto(r, "failWrite") ELSE End(r)
    /\ UNCHANGED <<stay, row, ran, heard>>

FailWrite(r) ==
    /\ req[r].op = "failWrite"
    /\ row' = [row EXCEPT ![req[r].job].status = "FAILED",
                          ![req[r].job].steps = @ \cup {"fail"}]
    /\ End(r)
    /\ UNCHANGED <<stay, ran, heard>>

-----------------------------------------------------------------------------
(* A status is checked on the row read and written later. *)

Take(r, i, kind, step, from, to) ==
    /\ row[i].kind = kind /\ row[i].status \in from
    /\ Begin(r, [op |-> "write", id |-> i, step |-> step, to |-> to])
    /\ UNCHANGED <<stay, row, ran, heard>>

WriteStatus(r) ==
    /\ req[r].op = "write"
    /\ row' = [row EXCEPT ![req[r].id].status = req[r].to,
                          ![req[r].id].steps = @ \cup {req[r].step}]
    /\ End(r)
    /\ UNCHANGED <<stay, ran, heard>>

\* A row is made for a stay whose status was read before.
ForStay(r, s, kind, status, statuses) ==
    /\ stay[s] \in statuses
    /\ Fits(kind)
    /\ Begin(r, [op |-> "insert", row |-> New(kind, s, status)])
    /\ UNCHANGED <<stay, row, ran, heard>>

InsertRow(r) ==
    /\ req[r].op = "insert"
    /\ Insert(req[r].row)
    /\ End(r)
    /\ UNCHANGED <<stay, ran, heard>>

Expected == {"CONFIRMED", "CHECKED_IN"}
AnyStatus == {"CONFIRMED", "CHECKED_IN", "CHECKED_OUT"}

IssueKey(r, s) == ForStay(r, s, "key", "ACTIVE", Expected)
RevokeKey(r, i) == Take(r, i, "key", "revoke", {"ACTIVE"}, "REVOKED")

ScheduleCall(r, s) == ForStay(r, s, "call", "SCHEDULED", Expected)
CompleteCall(r, i) == Take(r, i, "call", "complete", {"SCHEDULED"}, "COMPLETED")
MissCall(r, i) == Take(r, i, "call", "miss", {"SCHEDULED"}, "MISSED")
CancelCall(r, i) == Take(r, i, "call", "cancel", {"SCHEDULED"}, "CANCELLED")

KeepItem(r, s) == ForStay(r, s, "item", "FOUND", AnyStatus)
ClaimItem(r, i) == Take(r, i, "item", "claim", {"FOUND"}, "CLAIMED")
ReturnItem(r, i) == Take(r, i, "item", "return", {"CLAIMED"}, "RETURNED")
DisposeItem(r, i) == Take(r, i, "item", "dispose", {"FOUND"}, "DISPOSED")

\* A second start, resolve or close answers the row as it is.
OpenComplaint(r, s) == ForStay(r, s, "complaint", "OPEN", AnyStatus)
StartComplaint(r, i) == Take(r, i, "complaint", "start", {"OPEN"}, "IN_PROGRESS")
ResolveComplaint(r, i) ==
    Take(r, i, "complaint", "resolve", {"OPEN", "IN_PROGRESS"}, "RESOLVED")

\* Mutant: a complaint is closed in whatever state it is.
CloseAny(r, i) == Take(r, i, "complaint", "close", {"OPEN", "IN_PROGRESS", "RESOLVED"}, "CLOSED")
CloseComplaint(r, i) == Take(r, i, "complaint", "close", {"RESOLVED"}, "CLOSED")

GiveFeedback(r, s) == ForStay(r, s, "feedback", "OPEN", AnyStatus)
ReviewFeedback(r, i) == Take(r, i, "feedback", "review", {"OPEN"}, "REVIEWED")
SendMessage(r, s) == ForStay(r, s, "message", "UNREAD", AnyStatus)
MarkRead(r, i) == Take(r, i, "message", "read", {"UNREAD"}, "READ")

-----------------------------------------------------------------------------
(* Registration cards *)

CardsOf(s) == {i \in Rows("card") : row[i].of = s}
Latest(s) == {i \in CardsOf(s) : \A j \in CardsOf(s) : row[j].version <= row[i].version}

\* A stay that has a draft gets that draft.
DraftRead(r, s) ==
    /\ \A i \in CardsOf(s) : row[i].status # "DRAFT"
    /\ Fits("card")
    /\ Begin(r, [op |-> "draftLatest", of |-> s])
    /\ UNCHANGED <<stay, row, ran, heard>>

DraftLatest(r) ==
    /\ req[r].op = "draftLatest"
    /\ \E version \in {row[i].version + 1 : i \in Latest(req[r].of)}
                      \cup (IF Latest(req[r].of) = {} THEN {1} ELSE {}) :
            Continue(r, [op |-> "draftInsert", of |-> req[r].of, version |-> version])
    /\ UNCHANGED <<stay, row, ran, heard>>

\* Unique by stay and version: the second of two calls fails.
DraftInsert(r) ==
    /\ req[r].op = "draftInsert"
    /\ IF \E i \in CardsOf(req[r].of) : row[i].version = req[r].version THEN row' = row
       ELSE Insert([New("card", req[r].of, "DRAFT") EXCEPT !.version = req[r].version])
    /\ End(r)
    /\ UNCHANGED <<stay, ran, heard>>

SignCard(r, i) == Take(r, i, "card", "sign", {"DRAFT"}, "SIGNED")
VoidCard(r, i) == Take(r, i, "card", "void", {"SIGNED"}, "VOID")

-----------------------------------------------------------------------------
(* TM.30: one report for each foreign guest in the house, unique by stay   *)
(* and guest; a conflict ends the whole call.                              *)

ReportsOf(s) == {i \in Rows("report") : row[i].of = s}

GenerateRead(r) ==
    LET listed == {s \in Foreigners : stay[s] = "CHECKED_IN"} IN
    /\ Begin(r, [op |-> "generate", listed |-> listed, todo |-> listed])
    /\ Fits("report")
    /\ UNCHANGED <<stay, row, ran, heard>>

\* Mutant: it asks whether there is any report.
GenerateFindAny(r, s) ==
    /\ req[r].op = "generate" /\ s \in req[r].todo
    /\ Continue(r, [op |-> IF Rows("report") = {} THEN "report" ELSE "generate", of |-> s,
                    listed |-> req[r].listed, todo |-> req[r].todo \ {s}])
    /\ UNCHANGED <<stay, row, ran, heard>>

GenerateFind(r, s) ==
    /\ req[r].op = "generate" /\ s \in req[r].todo
    /\ Continue(r, [op |-> IF ReportsOf(s) = {} THEN "report" ELSE "generate", of |-> s,
                    listed |-> req[r].listed, todo |-> req[r].todo \ {s}])
    /\ UNCHANGED <<stay, row, ran, heard>>

GenerateInsert(r) ==
    /\ req[r].op = "report"
    /\ IF ReportsOf(req[r].of) = {}
       THEN Insert(New("report", req[r].of, "PENDING")) /\ Goto(r, "generate")
       ELSE row' = row /\ End(r)
    /\ UNCHANGED <<stay, ran, heard>>

GenerateAnswer(r) ==
    /\ req[r].op = "generate" /\ req[r].todo = {}
    /\ End(r)
    /\ UNCHANGED <<stay, row, ran, heard>>

SubmitReport(r, i) == Take(r, i, "report", "submit", {"PENDING"}, "SUBMITTED")
ConfirmReport(r, i) == Take(r, i, "report", "confirm", {"SUBMITTED"}, "CONFIRMED")
FailReport(r, i) == Take(r, i, "report", "fail", {"SUBMITTED"}, "FAILED")

-----------------------------------------------------------------------------
HardwareNext(r) ==
    \/ \E i \in DOMAIN row, key \in Keys \cup {NoKey} : PrintCard(r, i, key)
    \/ \E key \in Keys : KeyedJob(r, key)
    \/ \E then \in {"run", "simulate"} : PanelJob(r, then)
    \/ FindJob(r) \/ InsertJob(r) \/ HearJob(r) \/ RunLocal(r)
    \/ CompleteRead(r) \/ SimulateRead(r) \/ CompleteWrite(r) \/ FailRead(r) \/ FailWrite(r)

DeskNext(r) ==
    \/ \E s \in Stays :
        \/ IssueKey(r, s) \/ ScheduleCall(r, s) \/ KeepItem(r, s) \/ OpenComplaint(r, s)
        \/ GiveFeedback(r, s) \/ SendMessage(r, s) \/ DraftRead(r, s) \/ GenerateFind(r, s)
    \/ \E i \in DOMAIN row :
        \/ RevokeKey(r, i) \/ CompleteCall(r, i) \/ MissCall(r, i) \/ CancelCall(r, i)
        \/ ClaimItem(r, i) \/ ReturnItem(r, i) \/ DisposeItem(r, i)
        \/ StartComplaint(r, i) \/ ResolveComplaint(r, i) \/ CloseComplaint(r, i)
        \/ ReviewFeedback(r, i) \/ MarkRead(r, i) \/ SignCard(r, i) \/ VoidCard(r, i)
        \/ SubmitReport(r, i) \/ ConfirmReport(r, i) \/ FailReport(r, i)
    \/ InsertRow(r) \/ WriteStatus(r) \/ DraftLatest(r) \/ DraftInsert(r)
    \/ GenerateRead(r) \/ GenerateInsert(r) \/ GenerateAnswer(r)

Next == StayMoves \/ \E r \in Requests : HardwareNext(r) \/ DeskNext(r) \/ Fail(r)

Spec == Init /\ [][Next]_vars

-----------------------------------------------------------------------------
\* ADR 007 "idempotency": however calls with one key interleave, fail and are
\* repeated, there is one job for the key and every caller is given that one.
OneJobPerKey ==
    /\ \A key \in Keys : Cardinality(JobsOf(key)) <= 1
    /\ \A a, b \in heard : a[1] = b[1] => a[2] = b[2]

\* "Jobs are an audit log": what is logged COMPLETED has been printed, encoded
\* or read (or simulated), through lost answers of the agent and of the API.
CompletedWasDone ==
    \A i \in Rows("job") : row[i].status = "COMPLETED" => i \in ran

\* Whatever calls raced on a row, a status that follows another was reached
\* through it: nothing is RETURNED that was not claimed, confirmed that was not
\* submitted, closed that was not resolved, void or printed that was not signed.
StepsWereTaken ==
    \A i \in DOMAIN row : LET x == row[i] IN
        /\ x.status = "RETURNED" => "claim" \in x.steps
        /\ x.kind = "report" /\ x.status \in {"CONFIRMED", "FAILED"} => "submit" \in x.steps
        /\ x.status = "CLOSED" => "resolve" \in x.steps
        /\ x.status = "VOID" => "sign" \in x.steps
        /\ x.kind = "job" /\ x.of # 0 => "sign" \in row[x.of].steps

\* When generate answers, every foreign guest it found in the house has a
\* report, its own or that of a call it raced with.
GeneratedMeansCovered ==
    \A r \in Requests : req[r].op = "generate" =>
        \A s \in req[r].listed \ req[r].todo : ReportsOf(s) # {}
=============================================================================

---------------------------- MODULE GuestProofs ----------------------------
(***************************************************************************)
(* What guests are given and told: the tables of the desk's services, and  *)
(* the page on which a guest checks in alone.                              *)
(*                                                                         *)
(* The services, for any number of calls, rows, stays and keys. Every      *)
(* handler writes on the strength of what it read, and another may have    *)
(* written in between; the properties survive because what a handler       *)
(* relies on never shrinks (Grown): a row keeps its kind, its key and what *)
(* it belongs to, its steps are only added to, and a job that ran has run. *)
(* The inductive invariant is Sound.                                       *)
(*                                                                         *)
(* The page, for any number of bookings and of calls on their way. The     *)
(* invariant is Honest: an answered check-in carries a row that was        *)
(* checked in and whose folio exists, because the answer is sent after the *)
(* folio was found or made, and folios are never taken away.               *)
(***************************************************************************)
EXTENDS GuestServices, SelfService, FiniteSetTheorems, SequenceTheorems, TLAPS

-----------------------------------------------------------------------------
(* The desk's services *)

RowKinds == {"job", "card", "key", "call", "item", "complaint", "feedback", "message",
             "report"}
NewStatuses == {"PENDING", "DRAFT", "ACTIVE", "SCHEDULED", "FOUND", "OPEN", "UNREAD"}
RowStatuses == NewStatuses \cup
    {"COMPLETED", "FAILED", "SIGNED", "VOID", "REVOKED", "MISSED", "CANCELLED", "CLAIMED",
     "RETURNED", "DISPOSED", "IN_PROGRESS", "RESOLVED", "CLOSED", "REVIEWED", "READ",
     "SUBMITTED", "CONFIRMED"}
Steps == {"complete", "fail", "sign", "void", "revoke", "miss", "cancel", "claim", "return",
          "dispose", "start", "resolve", "close", "review", "read", "submit", "confirm"}

Columns == [kind : RowKinds, of : Stays \cup Nat, status : RowStatuses,
            steps : SUBSET Steps, version : Nat, key : Keys \cup {NoKey}]

\* The steps that a status presupposes.
Follows(kind, now, steps) ==
    /\ now \in {"CLAIMED", "RETURNED"} => "claim" \in steps
    /\ kind = "report" /\ now \in {"SUBMITTED", "CONFIRMED", "FAILED"} => "submit" \in steps
    /\ now \in {"RESOLVED", "CLOSED"} => "resolve" \in steps
    /\ now \in {"SIGNED", "VOID"} => "sign" \in steps

IsJob(i) == i \in DOMAIN row /\ row[i].kind = "job"
Signed(i) == i \in DOMAIN row /\ "sign" \in row[i].steps

Table ==
    /\ row \in Seq(Columns)
    /\ \A i \in DOMAIN row : Follows(row[i].kind, row[i].status, row[i].steps)
    /\ \A i \in DOMAIN row : \A card :
            IsJob(i) /\ row[i].of = card /\ card # 0 => Signed(card)
    /\ \A i \in DOMAIN row : IsJob(i) /\ row[i].status = "COMPLETED" => i \in ran

UniqueKeys ==
    \A i, j \in DOMAIN row :
        IsJob(i) /\ IsJob(j) /\ row[i].key = row[j].key /\ row[i].key # NoKey => i = j

HeardIsTrue ==
    \A a \in heard : IsJob(a[2]) /\ row[a[2]].key = a[1] /\ a[1] # NoKey

Ran == {"complete", "completeWrite", "simulateWrite"}
AtJob == {"run", "simulate", "fail", "failWrite"} \cup Ran
Thens == {"answer", "run", "simulate"}

\* What a handler knows of the tables.
Knows(h) ==
    /\ h.op \in {"findJob", "insertJob"} =>
        /\ h \in [op : {"findJob", "insertJob"}, key : Keys \cup {NoKey}, card : Nat,
                  then : Thens]
        /\ h.card # 0 => Signed(h.card)
    /\ h.op = "gotJob" =>
        /\ h \in [op : {"gotJob"}, key : Keys \cup {NoKey}, job : Nat, then : Thens]
        /\ IsJob(h.job)
        /\ h.key # NoKey => row[h.job].key = h.key
    /\ h.op \in AtJob =>
        /\ h \in [op : AtJob, job : Nat]
        /\ IsJob(h.job)
        /\ h.op \in Ran => h.job \in ran
    /\ h.op = "write" =>
        /\ h.step \in Steps /\ h.to \in RowStatuses
        /\ h.id \in DOMAIN row /\ row[h.id].kind # "job"
        /\ Follows(row[h.id].kind, h.to, row[h.id].steps \cup {h.step})
    /\ h.op = "insert" =>
        /\ h.row \in Columns /\ h.row.kind # "job"
        /\ Follows(h.row.kind, h.row.status, h.row.steps)
    /\ h.op = "draftLatest" => h.of \in Stays
    /\ h.op = "draftInsert" => h.of \in Stays /\ h.version \in Nat
    /\ h.op = "generate" => \A s \in h.listed \ h.todo : ReportsOf(s) # {}
    /\ h.op = "report" =>
        /\ h \in [op : {"report"}, of : Stays, listed : {h.listed}, todo : {h.todo}]
        /\ \A s \in h.listed \ (h.todo \cup {h.of}) : ReportsOf(s) # {}

Handlers ==
    /\ req = [r \in Requests |-> req[r]]
    /\ \A r \in Requests : \A h : h = req[r] => Knows(h)

Sound == Table /\ UniqueKeys /\ HeardIsTrue /\ Handlers

-----------------------------------------------------------------------------
(* The tables only grow. *)

Grown ==
    /\ \A i \in DOMAIN row :
        /\ i \in DOMAIN row'
        /\ row'[i].kind = row[i].kind /\ row'[i].of = row[i].of /\ row'[i].key = row[i].key
        /\ row[i].steps \subseteq row'[i].steps
    /\ ran \subseteq ran'

LEMMA ReportsStay ==
    ASSUME Grown, NEW s, ReportsOf(s) # {}
    PROVE  ReportsOf(s)' # {}
  BY DEF Grown, ReportsOf, Rows

\* What a handler knows stays true while others write.
LEMMA KnowledgeKeeps ==
    ASSUME Grown, NEW h, Knows(h)
    PROVE  Knows(h)'
  <1>1. \A i : IsJob(i) => IsJob(i)'
    BY DEF Grown, IsJob
  <1>2. \A i : Signed(i) => Signed(i)'
    BY DEF Grown, Signed
  <1>3. h.op = "write" =>
            /\ h.id \in DOMAIN row' /\ row'[h.id].kind # "job"
            /\ Follows(row'[h.id].kind, h.to, row'[h.id].steps \cup {h.step})
    BY DEF Grown, Knows, Follows
  <1>4. h.op \in AtJob /\ h.op \in Ran => h.job \in ran'
    BY DEF Grown, Knows
  <1>5. h.op = "gotJob" => (h.key # NoKey => row'[h.job].key = h.key)
    BY DEF Grown, Knows, IsJob
  <1>6. \A s : ReportsOf(s) # {} => ReportsOf(s)' # {}
    BY ReportsStay
  <1> QED
    BY <1>1, <1>2, <1>3, <1>4, <1>5, <1>6 DEF Knows

\* A call that goes on with what is true, while the tables grow.
LEMMA OneHandler ==
    ASSUME Handlers, Grown, NEW r \in Requests, NEW h,
           req' = [req EXCEPT ![r] = h], Knows(h)'
    PROVE  Handlers'
  <1>1. /\ req' = [q \in Requests |-> IF q = r THEN h ELSE req[q]]
        /\ \A q \in Requests : req'[q] = IF q = r THEN h ELSE req[q]
    BY DEF Handlers
  <1>2. ASSUME NEW q \in Requests, NEW g, g = req'[q] PROVE Knows(g)'
    <2>1. CASE q = r
      BY <1>1, <1>2, <2>1
    <2>2. CASE q # r
      <3>1. Knows(g)
        BY <1>1, <1>2, <2>2 DEF Handlers
      <3> QED
        BY <3>1, KnowledgeKeeps
    <2> QED
      BY <2>1, <2>2
  <1> QED
    BY <1>1, <1>2 DEF Handlers

-----------------------------------------------------------------------------
(* The three things a step does to the tables *)

LEMMA RowType == ASSUME Table, NEW i \in DOMAIN row PROVE row[i] \in Columns
  BY DEF Table

LEMMA NothingWritten ==
    ASSUME Sound, row' = row, heard' = heard, ran \subseteq ran'
    PROVE  Grown /\ Table' /\ UniqueKeys' /\ HeardIsTrue'
  <1>1. Grown
    BY DEF Grown
  <1>2. Table'
    BY DEF Sound, Table, IsJob, Signed
  <1>3. UniqueKeys' /\ HeardIsTrue'
    BY DEF Sound, UniqueKeys, HeardIsTrue, IsJob
  <1> QED
    BY <1>1, <1>2, <1>3

LEMMA RowAdded ==
    ASSUME Sound, heard' = heard, ran' = ran, NEW x \in Columns,
           row' = Append(row, x),
           Follows(x.kind, x.status, x.steps),
           x.kind = "job" =>
                /\ x.status # "COMPLETED"
                /\ x.of # 0 => Signed(x.of)
                /\ JobsOf(x.key) = {}
    PROVE  /\ Grown /\ Table' /\ UniqueKeys' /\ HeardIsTrue'
           /\ Len(row) + 1 \in DOMAIN row' /\ row'[Len(row) + 1] = x
  <1> DEFINE n == Len(row) + 1
  <1>1. /\ row' \in Seq(Columns) /\ DOMAIN row = 1..Len(row) /\ Len(row) \in Nat
        /\ DOMAIN row' = 1..n
        /\ \A i \in DOMAIN row : row'[i] = row[i]
        /\ row'[n] = x
    BY AppendProperties DEF Sound, Table
  <1>2. /\ n \in DOMAIN row' /\ n \notin DOMAIN row
        /\ \A i \in DOMAIN row : i \in DOMAIN row'
        /\ \A i \in DOMAIN row' : i \in DOMAIN row \/ i = n
    BY <1>1
  <1> HIDE DEF n
  <1>3. Grown
    BY <1>1, <1>2 DEF Grown
  <1>4. \A i \in DOMAIN row' : Follows(row'[i].kind, row'[i].status, row'[i].steps)
    BY <1>1, <1>2 DEF Sound, Table
  <1>5. \A i : Signed(i) => Signed(i)'
    BY <1>3 DEF Grown, Signed
  <1>6. \A i \in DOMAIN row' : \A card :
            IsJob(i)' /\ row'[i].of = card /\ card # 0 => Signed(card)'
    BY <1>1, <1>2, <1>5 DEF Sound, Table, IsJob
  <1>7. \A i \in DOMAIN row' : IsJob(i)' /\ row'[i].status = "COMPLETED" => i \in ran'
    BY <1>1, <1>2 DEF Sound, Table, IsJob
  <1>8. UniqueKeys'
    <2>1. \A i \in DOMAIN row : IsJob(i) /\ x.kind = "job" /\ row[i].key = x.key
                                => x.key = NoKey
      BY DEF JobsOf, Rows, IsJob
    <2> SUFFICES ASSUME NEW i \in DOMAIN row', NEW j \in DOMAIN row', IsJob(i)', IsJob(j)',
                        row'[i].key = row'[j].key, row'[i].key # NoKey
                 PROVE  i = j
      BY DEF UniqueKeys
    <2>2. CASE i \in DOMAIN row /\ j \in DOMAIN row
      BY <1>1, <2>2 DEF Sound, UniqueKeys, IsJob
    <2>3. CASE i = n /\ j \in DOMAIN row
      BY <1>1, <2>1, <2>3 DEF IsJob
    <2>4. CASE i \in DOMAIN row /\ j = n
      BY <1>1, <2>1, <2>4 DEF IsJob
    <2> QED
      BY <1>2, <2>2, <2>3, <2>4
  <1>9. HeardIsTrue'
    BY <1>1, <1>2 DEF Sound, HeardIsTrue, IsJob
  <1>10. Table'
    BY <1>1, <1>4, <1>6, <1>7 DEF Table
  <1> QED
    BY <1>1, <1>2, <1>3, <1>8, <1>9, <1>10 DEF n

Rewrites(i, now, step) ==
    row' = [row EXCEPT ![i].status = now, ![i].steps = @ \cup {step}]

LEMMA RowRewritten ==
    ASSUME Sound, heard' = heard, ran' = ran,
           NEW i \in DOMAIN row, NEW now \in RowStatuses, NEW step \in Steps,
           Rewrites(i, now, step),
           Follows(row[i].kind, now, row[i].steps \cup {step}),
           row[i].kind = "job" /\ now = "COMPLETED" => i \in ran
    PROVE  Grown /\ Table' /\ UniqueKeys' /\ HeardIsTrue'
  <1> DEFINE x == [row[i] EXCEPT !.status = now, !.steps = @ \cup {step}]
  <1>1. row[i] \in Columns /\ row \in Seq(Columns) /\ DOMAIN row = 1..Len(row)
    BY DEF Sound, Table
  <1>2. /\ x \in Columns
        /\ x.kind = row[i].kind /\ x.of = row[i].of /\ x.key = row[i].key
        /\ x.status = now /\ x.steps = row[i].steps \cup {step}
    BY <1>1 DEF Columns
  <1>3. row' = [row EXCEPT ![i] = x]
    BY <1>1 DEF Rewrites
  <1> HIDE DEF x
  <1>4. /\ row' \in Seq(Columns) /\ DOMAIN row' = DOMAIN row
        /\ \A j \in DOMAIN row : row'[j] = IF j = i THEN x ELSE row[j]
    <2>1. i \in 1..Len(row)
      BY <1>1
    <2>2. /\ [row EXCEPT ![i] = x] \in Seq(Columns)
          /\ Len([row EXCEPT ![i] = x]) = Len(row)
          /\ \A j \in 1..Len(row) : [row EXCEPT ![i] = x][j] = IF j = i THEN x ELSE row[j]
      BY <1>1, <1>2, <2>1, ExceptSeq
    <2>3. DOMAIN row' = 1..Len(row')
      BY <1>3, <2>2
    <2> QED
      BY <1>1, <1>3, <2>2, <2>3
  <1>5. Grown
    BY <1>2, <1>4 DEF Grown
  <1>6. \A j \in DOMAIN row' : Follows(row'[j].kind, row'[j].status, row'[j].steps)
    BY <1>2, <1>4 DEF Sound, Table
  <1>7. \A j : Signed(j) => Signed(j)'
    BY <1>5 DEF Grown, Signed
  <1>8. \A j \in DOMAIN row' : \A card :
            IsJob(j)' /\ row'[j].of = card /\ card # 0 => Signed(card)'
    BY <1>2, <1>4, <1>7 DEF Sound, Table, IsJob
  <1>9. \A j \in DOMAIN row' : IsJob(j)' /\ row'[j].status = "COMPLETED" => j \in ran'
    BY <1>2, <1>4 DEF Sound, Table, IsJob
  <1>10. Table'
    BY <1>4, <1>6, <1>8, <1>9 DEF Table
  <1>11. UniqueKeys' /\ HeardIsTrue'
    BY <1>2, <1>4 DEF Sound, UniqueKeys, HeardIsTrue, IsJob
  <1> QED
    BY <1>5, <1>10, <1>11

\* A call that only reads, and goes on with what is true.
LEMMA Reading ==
    ASSUME Sound, row' = row, heard' = heard, ran \subseteq ran', NEW r \in Requests, NEW h,
           req' = [req EXCEPT ![r] = h], Knows(h)
    PROVE  Sound'
  <1>1. Grown /\ Table' /\ UniqueKeys' /\ HeardIsTrue'
    BY NothingWritten
  <1>2. Knows(h)'
    BY <1>1, KnowledgeKeeps
  <1> QED
    BY <1>1, <1>2, OneHandler DEF Sound

LEMMA IdleKnows == Knows(Idle) /\ Knows(Idle)'
  BY DEF Idle, Knows, AtJob, Ran

\* A call that rewrites a row and goes on with what is true.
LEMMA Rewriting ==
    ASSUME Sound, heard' = heard, ran' = ran, NEW r \in Requests, NEW h,
           NEW i \in DOMAIN row, NEW now \in RowStatuses, NEW step \in Steps,
           Rewrites(i, now, step),
           Follows(row[i].kind, now, row[i].steps \cup {step}),
           row[i].kind = "job" /\ now = "COMPLETED" => i \in ran,
           req' = [req EXCEPT ![r] = h], Knows(h)
    PROVE  Sound'
  <1>1. Grown /\ Table' /\ UniqueKeys' /\ HeardIsTrue'
    BY RowRewritten
  <1>2. Knows(h)'
    BY <1>1, KnowledgeKeeps
  <1> QED
    BY <1>1, <1>2, OneHandler DEF Sound

\* A call that adds a row which is no job, and goes on with what is true.
LEMMA Adding ==
    ASSUME Sound, heard' = heard, ran' = ran, NEW r \in Requests, NEW h,
           NEW x \in Columns, row' = Append(row, x), x.kind # "job",
           Follows(x.kind, x.status, x.steps),
           req' = [req EXCEPT ![r] = h], Knows(h)
    PROVE  Sound'
  <1>1. Grown /\ Table' /\ UniqueKeys' /\ HeardIsTrue'
    BY RowAdded
  <1>2. Knows(h)'
    BY <1>1, KnowledgeKeeps
  <1> QED
    BY <1>1, <1>2, OneHandler DEF Sound

LEMMA NewRow ==
    ASSUME NEW kind \in RowKinds, NEW of \in Stays \cup Nat, NEW now \in NewStatuses
    PROVE  LET x == New(kind, of, now) IN
           /\ x \in Columns /\ x.kind = kind /\ x.of = of /\ x.status = now
           /\ x.key = NoKey /\ x.version = 0
           /\ Follows(x.kind, x.status, x.steps)
  BY DEF New, Columns, Follows, RowStatuses, NewStatuses

-----------------------------------------------------------------------------
(* Hardware jobs *)

LEMMA JobsBegin ==
    ASSUME Sound, NEW r \in Requests,
           \/ \E i \in DOMAIN row, key \in Keys \cup {NoKey} : PrintCard(r, i, key)
           \/ \E key \in Keys : KeyedJob(r, key)
           \/ \E then \in {"run", "simulate"} : PanelJob(r, then)
    PROVE  Sound'
  <1>1. PICK key \in Keys \cup {NoKey}, card \in Nat, then \in Thens :
            /\ req' = [req EXCEPT ![r] = [op |-> "findJob", key |-> key, card |-> card,
                                         then |-> then]]
            /\ card # 0 => Signed(card)
            /\ row' = row /\ heard' = heard /\ ran' = ran
    <2>1. ASSUME NEW i \in DOMAIN row, NEW key \in Keys \cup {NoKey}, PrintCard(r, i, key)
          PROVE  i \in Nat /\ Signed(i)
      BY <2>1 DEF PrintCard, Sound, Table, Follows, Signed
    <2> QED
      BY <2>1 DEF PrintCard, KeyedJob, PanelJob, Begin, Thens
  <1> DEFINE h == [op |-> "findJob", key |-> key, card |-> card, then |-> then]
  <1>2. Knows(h)
    BY <1>1 DEF Knows, AtJob, Ran
  <1> HIDE DEF h
  <1> QED
    BY <1>1, <1>2, Reading DEF h

LEMMA KnowsGot ==
    ASSUME NEW key \in Keys \cup {NoKey}, NEW i \in Nat, NEW then \in Thens
    PROVE  LET h == [op |-> "gotJob", key |-> key, job |-> i, then |-> then] IN
           /\ IsJob(i) /\ (key # NoKey => row[i].key = key) => Knows(h)
           /\ IsJob(i)' /\ (key # NoKey => row'[i].key = key) => Knows(h)'
  BY DEF Knows, AtJob, Ran

LEMMA FindJobStep == ASSUME Sound, NEW r \in Requests, FindJob(r) PROVE Sound'
  <1>0. PICK h : h = req[r]
    OBVIOUS
  <1>1. /\ h \in [op : {"findJob", "insertJob"}, key : Keys \cup {NoKey}, card : Nat,
                  then : Thens]
        /\ h.card # 0 => Signed(h.card)
    BY <1>0 DEF Sound, Handlers, Knows, FindJob
  <1>2. row' = row /\ heard' = heard /\ ran' = ran
    BY DEF FindJob
  <1>3. CASE JobsOf(h.key) = {}
    <2> DEFINE g == [h EXCEPT !.op = "insertJob"]
    <2>1. req' = [req EXCEPT ![r] = g]
      BY <1>0, <1>3 DEF FindJob, Goto
    <2>2. Knows(g)
      BY <1>1 DEF Knows, AtJob, Ran
    <2> HIDE DEF g
    <2> QED
      BY <1>2, <2>1, <2>2, Reading
  <1>4. CASE JobsOf(h.key) # {}
    <2>1. PICK i \in JobsOf(h.key) :
            req' = [req EXCEPT ![r] = [op |-> "gotJob", key |-> h.key, job |-> i,
                                       then |-> h.then]]
      BY <1>0, <1>4 DEF FindJob, Got, Continue
    <2> DEFINE g == [op |-> "gotJob", key |-> h.key, job |-> i, then |-> h.then]
    <2>2. IsJob(i) /\ i \in Nat /\ row[i].key = h.key
      BY DEF JobsOf, Rows, IsJob, Sound, Table
    <2>3. Knows(g)
      BY <1>1, <2>2, KnowsGot
    <2> HIDE DEF g
    <2> QED
      BY <1>2, <2>1, <2>3, Reading DEF g
  <1> QED
    BY <1>3, <1>4

LEMMA InsertJobStep == ASSUME Sound, NEW r \in Requests, InsertJob(r) PROVE Sound'
  <1>0. PICK h : h = req[r]
    OBVIOUS
  <1>1. /\ h \in [op : {"findJob", "insertJob"}, key : Keys \cup {NoKey}, card : Nat,
                  then : Thens]
        /\ h.card # 0 => Signed(h.card)
    BY <1>0 DEF Sound, Handlers, Knows, InsertJob
  <1>2. heard' = heard /\ ran' = ran
    BY DEF InsertJob
  <1>3. CASE JobsOf(h.key) = {}
    <2>0. PICK n : n = Len(row) + 1
      OBVIOUS
    <2> DEFINE x == [New("job", h.card, "PENDING") EXCEPT !.key = h.key]
               g == [op |-> "gotJob", key |-> h.key, job |-> n, then |-> h.then]
    <2>1. row' = Append(row, x) /\ req' = [req EXCEPT ![r] = g]
      BY <1>0, <1>3, <2>0 DEF InsertJob, Insert, Got, Continue
    <2>2. /\ x \in Columns /\ x.kind = "job" /\ x.of = h.card /\ x.status = "PENDING"
          /\ x.key = h.key /\ Follows(x.kind, x.status, x.steps)
      <3> DEFINE y == New("job", h.card, "PENDING")
      <3>1. /\ y \in Columns /\ y.kind = "job" /\ y.of = h.card /\ y.status = "PENDING"
            /\ Follows(y.kind, y.status, y.steps)
        BY <1>1, NewRow DEF RowKinds, NewStatuses
      <3> HIDE DEF y
      <3>2. x = [y EXCEPT !.key = h.key]
        BY DEF y
      <3> QED
        BY <1>1, <3>1, <3>2 DEF Columns
    <2> HIDE DEF x
    <2>3. /\ Grown /\ Table' /\ UniqueKeys' /\ HeardIsTrue'
          /\ Len(row) + 1 \in DOMAIN row' /\ row'[Len(row) + 1] = x
      BY <1>1, <1>2, <1>3, <2>1, <2>2, RowAdded
    <2>4. n \in Nat
      BY <2>0 DEF Sound, Table
    <2>5. IsJob(n)' /\ row'[n].key = h.key
      BY <2>0, <2>2, <2>3 DEF IsJob
    <2>6. Knows(g)'
      BY <1>1, <2>4, <2>5, KnowsGot
    <2> HIDE DEF g
    <2> QED
      BY <2>1, <2>3, <2>6, OneHandler DEF Sound
  <1>4. CASE JobsOf(h.key) # {}
    <2>1. row' = row
      BY <1>0, <1>4 DEF InsertJob
    <2>2. PICK i \in JobsOf(h.key) :
            req' = [req EXCEPT ![r] = [op |-> "gotJob", key |-> h.key, job |-> i,
                                       then |-> h.then]]
      BY <1>0, <1>4 DEF InsertJob, Got, Continue
    <2> DEFINE g == [op |-> "gotJob", key |-> h.key, job |-> i, then |-> h.then]
    <2>3. IsJob(i) /\ i \in Nat /\ row[i].key = h.key
      BY DEF JobsOf, Rows, IsJob, Sound, Table
    <2>4. Knows(g)
      BY <1>1, <2>3, KnowsGot
    <2> HIDE DEF g
    <2> QED
      BY <1>2, <2>1, <2>2, <2>4, Reading DEF g
  <1> QED
    BY <1>3, <1>4

LEMMA HearJobStep == ASSUME Sound, NEW r \in Requests, HearJob(r) PROVE Sound'
  <1>0. PICK h : h = req[r]
    OBVIOUS
  <1>1. /\ h \in [op : {"gotJob"}, key : Keys \cup {NoKey}, job : Nat, then : Thens]
        /\ IsJob(h.job)
        /\ h.key # NoKey => row[h.job].key = h.key
    BY <1>0 DEF Sound, Handlers, Knows, HearJob
  <1>2. row' = row /\ ran' = ran
    BY DEF HearJob
  <1>3. Grown /\ Table' /\ UniqueKeys'
    BY <1>2 DEF Grown, Sound, Table, UniqueKeys, IsJob, Signed
  <1>4. HeardIsTrue'
    BY <1>0, <1>1, <1>2 DEF HearJob, Sound, HeardIsTrue, IsJob
  <1>5. CASE h.then = "answer"
    BY <1>0, <1>3, <1>4, <1>5, IdleKnows, OneHandler DEF HearJob, End, Sound
  <1>6. CASE h.then # "answer"
    <2> DEFINE g == [op |-> h.then, job |-> h.job]
    <2>1. req' = [req EXCEPT ![r] = g]
      BY <1>0, <1>6 DEF HearJob, Continue
    <2>2. Knows(g)
      BY <1>1, <1>6 DEF Knows, AtJob, Ran, Thens
    <2> HIDE DEF g
    <2>3. Knows(g)'
      BY <1>3, <2>2, KnowledgeKeeps
    <2> QED
      BY <1>3, <1>4, <2>1, <2>3, OneHandler DEF Sound
  <1> QED
    BY <1>5, <1>6

\* A handler of a job that goes on to another place of the same job.
LEMMA KnowsAtJob ==
    ASSUME NEW h, h \in [op : AtJob, job : Nat], IsJob(h.job), NEW op \in AtJob
    PROVE  /\ [h EXCEPT !.op = op] = [op |-> op, job |-> h.job]
           /\ (op \in Ran => h.job \in ran) => Knows([op |-> op, job |-> h.job])
           /\ row' = row /\ (op \in Ran => h.job \in ran') => Knows([op |-> op, job |-> h.job])'
  BY DEF Knows, AtJob, Ran, IsJob

LEMMA AtJobStep ==
    ASSUME Sound, NEW r \in Requests,
           \/ RunLocal(r) \/ CompleteRead(r) \/ SimulateRead(r) \/ CompleteWrite(r)
           \/ FailRead(r) \/ FailWrite(r)
    PROVE  Sound'
  <1>0. PICK h : h = req[r]
    OBVIOUS
  <1> DEFINE g(op) == [op |-> op, job |-> h.job]
  <1>1. /\ h \in [op : AtJob, job : Nat] /\ IsJob(h.job)
        /\ h.op \in Ran => h.job \in ran
    BY <1>0 DEF Sound, Handlers, Knows, RunLocal, CompleteRead, SimulateRead, CompleteWrite,
        FailRead, FailWrite, AtJob, Ran
  <1>2. \A op \in AtJob : Goto(r, op) => req' = [req EXCEPT ![r] = g(op)]
    BY <1>0, <1>1, KnowsAtJob DEF Goto
  <1>3. \A op \in AtJob : (op \in Ran => h.job \in ran) => Knows(g(op))
    BY <1>1, KnowsAtJob
  <1>4. \A op \in AtJob : row' = row /\ (op \in Ran => h.job \in ran') => Knows(g(op))'
    BY <1>1, KnowsAtJob
  <1>5. h.job \in DOMAIN row /\ row[h.job].kind = "job"
    BY <1>1 DEF IsJob
  <1> HIDE DEF g
  <1>6. CASE RunLocal(r)
    <2>1. PICK op \in {"complete", "fail"} :
            /\ Goto(r, op) /\ row' = row /\ heard' = heard /\ ran \subseteq ran'
            /\ op \in Ran => h.job \in ran'
      BY <1>0, <1>6 DEF RunLocal, Ran
    <2>2. op \in AtJob
      BY DEF AtJob, Ran
    <2>3. req' = [req EXCEPT ![r] = g(op)] /\ Knows(g(op))'
      BY <1>2, <1>4, <2>1, <2>2
    <2>4. Grown /\ Table' /\ UniqueKeys' /\ HeardIsTrue'
      BY <2>1, NothingWritten
    <2> QED
      BY <2>3, <2>4, OneHandler DEF Sound
  <1>7. CASE CompleteRead(r)
    <2>1. PICK op \in {"completeWrite", "fail"} :
            Goto(r, op) /\ row' = row /\ heard' = heard /\ ran' = ran
      BY <1>0, <1>7 DEF CompleteRead
    <2>2. op \in AtJob /\ h.job \in ran
      BY <1>0, <1>1, <1>7 DEF AtJob, Ran, CompleteRead
    <2> QED
      BY <1>2, <1>3, <2>1, <2>2, Reading
  <1>8. CASE SimulateRead(r)
    <2>1. /\ Goto(r, "simulateWrite") /\ row' = row /\ heard' = heard
          /\ ran \subseteq ran' /\ h.job \in ran'
      BY <1>0, <1>8 DEF SimulateRead
    <2>2. "simulateWrite" \in AtJob
      BY DEF AtJob, Ran
    <2>3. req' = [req EXCEPT ![r] = g("simulateWrite")] /\ Knows(g("simulateWrite"))'
      BY <1>2, <1>4, <2>1, <2>2
    <2>4. Grown /\ Table' /\ UniqueKeys' /\ HeardIsTrue'
      BY <2>1, NothingWritten
    <2> QED
      BY <2>3, <2>4, OneHandler DEF Sound
  <1>9. CASE CompleteWrite(r)
    <2>1. /\ Rewrites(h.job, "COMPLETED", "complete")
          /\ heard' = heard /\ ran' = ran /\ h.job \in ran
          /\ End(r) \/ Goto(r, "fail")
      BY <1>0, <1>1, <1>9 DEF CompleteWrite, Ran, Rewrites
    <2>2. Follows(row[h.job].kind, "COMPLETED", row[h.job].steps \cup {"complete"})
      BY <1>5 DEF Follows
    <2>3. PICK k : req' = [req EXCEPT ![r] = k] /\ Knows(k)
      <3>1. "fail" \in AtJob
        BY DEF AtJob
      <3>2. CASE End(r)
        BY <3>2, IdleKnows DEF End
      <3>3. CASE Goto(r, "fail")
        BY <1>2, <1>3, <2>1, <3>1, <3>3
      <3> QED
        BY <2>1, <3>2, <3>3
    <2> QED
      BY <1>5, <2>1, <2>2, <2>3, Rewriting DEF RowStatuses, Steps
  <1>10. CASE FailRead(r)
    <2>1. /\ row' = row /\ heard' = heard /\ ran' = ran
          /\ Goto(r, "failWrite") \/ End(r)
      BY <1>0, <1>10 DEF FailRead
    <2>2. "failWrite" \in AtJob /\ "failWrite" \notin Ran
      BY DEF AtJob, Ran
    <2>3. CASE Goto(r, "failWrite")
      BY <1>2, <1>3, <2>1, <2>2, <2>3, Reading
    <2>4. CASE End(r)
      BY <2>1, <2>4, IdleKnows, Reading DEF End
    <2> QED
      BY <2>1, <2>3, <2>4
  <1>11. CASE FailWrite(r)
    <2>1. /\ Rewrites(h.job, "FAILED", "fail")
          /\ heard' = heard /\ ran' = ran
          /\ req' = [req EXCEPT ![r] = Idle]
      BY <1>0, <1>11 DEF FailWrite, End, Rewrites
    <2>2. Follows(row[h.job].kind, "FAILED", row[h.job].steps \cup {"fail"})
      BY <1>5 DEF Follows
    <2> QED
      BY <1>5, <2>1, <2>2, IdleKnows, Rewriting DEF RowStatuses, Steps
  <1> QED
    BY <1>6, <1>7, <1>8, <1>9, <1>10, <1>11

-----------------------------------------------------------------------------
(* The desk's rows *)

\* A status change asks for a status from which the next one follows.
Leads(kind, step, from, to) ==
    \A now \in from, steps \in SUBSET Steps :
        Follows(kind, now, steps) => Follows(kind, to, steps \cup {step})

LEMMA TakeStep ==
    ASSUME Sound, NEW r \in Requests, NEW i \in DOMAIN row, NEW kind \in RowKinds,
           NEW step \in Steps, NEW from, NEW to \in RowStatuses,
           Take(r, i, kind, step, from, to), kind # "job", Leads(kind, step, from, to)
    PROVE  Sound'
  <1> DEFINE h == [op |-> "write", id |-> i, step |-> step, to |-> to]
  <1>1. /\ row[i].kind = kind /\ row[i].status \in from /\ req' = [req EXCEPT ![r] = h]
        /\ row' = row /\ heard' = heard /\ ran' = ran
    BY DEF Take, Begin
  <1>2. row[i].steps \in SUBSET Steps /\ Follows(kind, row[i].status, row[i].steps)
    <2>1. row[i] \in Columns
      BY RowType DEF Sound
    <2> QED
      BY <1>1, <2>1 DEF Columns, Sound, Table
  <1>3. Follows(kind, to, row[i].steps \cup {step})
    BY <1>1, <1>2 DEF Leads
  <1>4. Knows(h)
    BY <1>1, <1>3 DEF Knows, AtJob, Ran
  <1> HIDE DEF h
  <1> QED
    BY <1>1, <1>4, Reading

\* Every status change of the desk does.
LEMMA AllLead ==
    /\ Leads("key", "revoke", {"ACTIVE"}, "REVOKED")
    /\ Leads("call", "complete", {"SCHEDULED"}, "COMPLETED")
    /\ Leads("call", "miss", {"SCHEDULED"}, "MISSED")
    /\ Leads("call", "cancel", {"SCHEDULED"}, "CANCELLED")
    /\ Leads("item", "claim", {"FOUND"}, "CLAIMED")
    /\ Leads("item", "return", {"CLAIMED"}, "RETURNED")
    /\ Leads("item", "dispose", {"FOUND"}, "DISPOSED")
    /\ Leads("complaint", "start", {"OPEN"}, "IN_PROGRESS")
    /\ Leads("complaint", "resolve", {"OPEN", "IN_PROGRESS"}, "RESOLVED")
    /\ Leads("complaint", "close", {"RESOLVED"}, "CLOSED")
    /\ Leads("feedback", "review", {"OPEN"}, "REVIEWED")
    /\ Leads("message", "read", {"UNREAD"}, "READ")
    /\ Leads("card", "sign", {"DRAFT"}, "SIGNED")
    /\ Leads("card", "void", {"SIGNED"}, "VOID")
    /\ Leads("report", "submit", {"PENDING"}, "SUBMITTED")
    /\ Leads("report", "confirm", {"SUBMITTED"}, "CONFIRMED")
    /\ Leads("report", "fail", {"SUBMITTED"}, "FAILED")
  BY DEF Leads, Follows

LEMMA StatusChanges ==
    ASSUME Sound, NEW r \in Requests, NEW i \in DOMAIN row,
           \/ RevokeKey(r, i) \/ CompleteCall(r, i) \/ MissCall(r, i) \/ CancelCall(r, i)
           \/ ClaimItem(r, i) \/ ReturnItem(r, i) \/ DisposeItem(r, i)
           \/ StartComplaint(r, i) \/ ResolveComplaint(r, i) \/ CloseComplaint(r, i)
           \/ ReviewFeedback(r, i) \/ MarkRead(r, i) \/ SignCard(r, i) \/ VoidCard(r, i)
           \/ SubmitReport(r, i) \/ ConfirmReport(r, i) \/ FailReport(r, i)
    PROVE  Sound'
  <1> USE AllLead, TakeStep
  <1> USE DEF RowKinds, Steps, RowStatuses, NewStatuses
  <1>1. CASE RevokeKey(r, i)
    BY <1>1 DEF RevokeKey
  <1>2. CASE CompleteCall(r, i)
    BY <1>2 DEF CompleteCall
  <1>3. CASE MissCall(r, i)
    BY <1>3 DEF MissCall
  <1>4. CASE CancelCall(r, i)
    BY <1>4 DEF CancelCall
  <1>5. CASE ClaimItem(r, i)
    BY <1>5 DEF ClaimItem
  <1>6. CASE ReturnItem(r, i)
    BY <1>6 DEF ReturnItem
  <1>7. CASE DisposeItem(r, i)
    BY <1>7 DEF DisposeItem
  <1>8. CASE StartComplaint(r, i)
    BY <1>8 DEF StartComplaint
  <1>9. CASE ResolveComplaint(r, i)
    BY <1>9 DEF ResolveComplaint
  <1>10. CASE CloseComplaint(r, i)
    BY <1>10 DEF CloseComplaint
  <1>11. CASE ReviewFeedback(r, i)
    BY <1>11 DEF ReviewFeedback
  <1>12. CASE MarkRead(r, i)
    BY <1>12 DEF MarkRead
  <1>13. CASE SignCard(r, i)
    BY <1>13 DEF SignCard
  <1>14. CASE VoidCard(r, i)
    BY <1>14 DEF VoidCard
  <1>15. CASE SubmitReport(r, i)
    BY <1>15 DEF SubmitReport
  <1>16. CASE ConfirmReport(r, i)
    BY <1>16 DEF ConfirmReport
  <1>17. CASE FailReport(r, i)
    BY <1>17 DEF FailReport
  <1> QED
    BY <1>1, <1>2, <1>3, <1>4, <1>5, <1>6, <1>7, <1>8, <1>9, <1>10, <1>11, <1>12, <1>13, <1>14, <1>15, <1>16, <1>17

LEMMA WriteStatusStep == ASSUME Sound, NEW r \in Requests, WriteStatus(r) PROVE Sound'
  <1>0. PICK h : h = req[r]
    OBVIOUS
  <1>1. /\ h.step \in Steps /\ h.to \in RowStatuses
        /\ h.id \in DOMAIN row /\ row[h.id].kind # "job"
        /\ Follows(row[h.id].kind, h.to, row[h.id].steps \cup {h.step})
    BY <1>0 DEF Sound, Handlers, Knows, WriteStatus
  <1>2. /\ Rewrites(h.id, h.to, h.step) /\ req' = [req EXCEPT ![r] = Idle]
        /\ heard' = heard /\ ran' = ran
    BY <1>0 DEF WriteStatus, End, Rewrites
  <1> QED
    BY <1>1, <1>2, IdleKnows, Rewriting

LEMMA ForStayStep ==
    ASSUME Sound, NEW r \in Requests, NEW s \in Stays, NEW kind \in RowKinds \ {"job"},
           NEW now \in NewStatuses, NEW statuses, ForStay(r, s, kind, now, statuses)
    PROVE  Sound'
  <1> DEFINE x == New(kind, s, now)
             h == [op |-> "insert", row |-> x]
  <1>1. /\ req' = [req EXCEPT ![r] = h] /\ row' = row /\ heard' = heard /\ ran' = ran
    BY DEF ForStay, Begin
  <1>2. x \in Columns /\ x.kind # "job" /\ Follows(x.kind, x.status, x.steps)
    BY NewRow
  <1> HIDE DEF x
  <1>3. Knows(h)
    BY <1>2 DEF Knows, AtJob, Ran
  <1> HIDE DEF h
  <1> QED
    BY <1>1, <1>3, Reading

LEMMA NewRows ==
    ASSUME Sound, NEW r \in Requests, NEW s \in Stays,
           \/ IssueKey(r, s) \/ ScheduleCall(r, s) \/ KeepItem(r, s) \/ OpenComplaint(r, s)
           \/ GiveFeedback(r, s) \/ SendMessage(r, s)
    PROVE  Sound'
  <1> USE DEF RowKinds, NewStatuses
  <1>1. CASE IssueKey(r, s)
    BY <1>1, ForStayStep DEF IssueKey
  <1>2. CASE ScheduleCall(r, s)
    BY <1>2, ForStayStep DEF ScheduleCall
  <1>3. CASE KeepItem(r, s)
    BY <1>3, ForStayStep DEF KeepItem
  <1>4. CASE OpenComplaint(r, s)
    BY <1>4, ForStayStep DEF OpenComplaint
  <1>5. CASE GiveFeedback(r, s)
    BY <1>5, ForStayStep DEF GiveFeedback
  <1>6. CASE SendMessage(r, s)
    BY <1>6, ForStayStep DEF SendMessage
  <1> QED
    BY <1>1, <1>2, <1>3, <1>4, <1>5, <1>6

LEMMA InsertRowStep == ASSUME Sound, NEW r \in Requests, InsertRow(r) PROVE Sound'
  <1>0. PICK h : h = req[r]
    OBVIOUS
  <1>1. /\ h.row \in Columns /\ h.row.kind # "job"
        /\ Follows(h.row.kind, h.row.status, h.row.steps)
    BY <1>0 DEF Sound, Handlers, Knows, InsertRow
  <1>2. /\ row' = Append(row, h.row) /\ req' = [req EXCEPT ![r] = Idle]
        /\ heard' = heard /\ ran' = ran
    BY <1>0 DEF InsertRow, Insert, End
  <1> QED
    BY <1>1, <1>2, IdleKnows, Adding

-----------------------------------------------------------------------------
(* Registration cards and reports *)

LEMMA CardStep ==
    ASSUME Sound, NEW r \in Requests,
           (\E s \in Stays : DraftRead(r, s)) \/ DraftLatest(r) \/ DraftInsert(r)
    PROVE  Sound'
  <1>0. PICK h : h = req[r]
    OBVIOUS
  <1>1. CASE \E s \in Stays : DraftRead(r, s)
    <2>1. PICK s \in Stays : DraftRead(r, s)
      BY <1>1
    <2> DEFINE g == [op |-> "draftLatest", of |-> s]
    <2>2. /\ req' = [req EXCEPT ![r] = g] /\ row' = row /\ heard' = heard /\ ran' = ran
      BY <2>1 DEF DraftRead, Begin
    <2>3. Knows(g)
      BY DEF Knows, AtJob, Ran
    <2> HIDE DEF g
    <2> QED
      BY <2>2, <2>3, Reading
  <1>2. CASE DraftLatest(r)
    <2>1. h.of \in Stays
      BY <1>0, <1>2 DEF Sound, Handlers, Knows, DraftLatest
    <2>2. \A i \in Latest(h.of) : row[i].version + 1 \in Nat
      <3>1. \A i \in DOMAIN row : row[i].version \in Nat
        BY RowType DEF Sound, Columns
      <3> QED
        BY <3>1 DEF Latest, CardsOf, Rows
    <2>3. PICK version \in Nat :
            req' = [req EXCEPT ![r] = [op |-> "draftInsert", of |-> h.of,
                                       version |-> version]]
      <3> DEFINE versions == {row[i].version + 1 : i \in Latest(h.of)}
                                \cup (IF Latest(h.of) = {} THEN {1} ELSE {})
      <3>1. \A v \in versions : v \in Nat
        BY <2>2
      <3>2. \E v \in versions : Continue(r, [op |-> "draftInsert", of |-> h.of, version |-> v])
        BY <1>0, <1>2 DEF DraftLatest
      <3> HIDE DEF versions
      <3> QED
        BY <3>1, <3>2 DEF Continue
    <2> DEFINE g == [op |-> "draftInsert", of |-> h.of, version |-> version]
    <2>4. Knows(g)
      BY <2>1 DEF Knows, AtJob, Ran
    <2>5. row' = row /\ heard' = heard /\ ran' = ran
      BY <1>2 DEF DraftLatest
    <2> HIDE DEF g
    <2> QED
      BY <2>3, <2>4, <2>5, Reading DEF g
  <1>3. CASE DraftInsert(r)
    <2>1. h.of \in Stays /\ h.version \in Nat
      BY <1>0, <1>3 DEF Sound, Handlers, Knows, DraftInsert
    <2> DEFINE y == New("card", h.of, "DRAFT")
               x == [y EXCEPT !.version = h.version]
    <2>2. /\ heard' = heard /\ ran' = ran /\ req' = [req EXCEPT ![r] = Idle]
          /\ row' = row \/ row' = Append(row, x)
      BY <1>0, <1>3 DEF DraftInsert, Insert, End
    <2>3. y \in Columns /\ y.kind = "card" /\ Follows(y.kind, y.status, y.steps)
      BY <2>1, NewRow DEF RowKinds, NewStatuses
    <2> HIDE DEF y
    <2>4. x \in Columns /\ x.kind # "job" /\ Follows(x.kind, x.status, x.steps)
      BY <2>1, <2>3 DEF Columns
    <2> HIDE DEF x
    <2>5. CASE row' = row
      BY <2>2, <2>5, IdleKnows, Reading
    <2>6. CASE row' = Append(row, x)
      BY <2>2, <2>4, <2>6, IdleKnows, Adding
    <2> QED
      BY <2>2, <2>5, <2>6
  <1> QED
    BY <1>1, <1>2, <1>3

LEMMA GenerateReading ==
    ASSUME Sound, NEW r \in Requests,
           \/ GenerateRead(r) \/ (\E s \in Stays : GenerateFind(r, s)) \/ GenerateAnswer(r)
    PROVE  Sound'
  <1>0. PICK h : h = req[r]
    OBVIOUS
  <1>1. row' = row /\ heard' = heard /\ ran' = ran
    BY DEF GenerateRead, GenerateFind, GenerateAnswer
  <1>2. CASE GenerateRead(r)
    <2>1. PICK listed : req' = [req EXCEPT ![r] =
                                    [op |-> "generate", listed |-> listed, todo |-> listed]]
      BY <1>2 DEF GenerateRead, Begin
    <2> DEFINE g == [op |-> "generate", listed |-> listed, todo |-> listed]
    <2>2. Knows(g)
      BY DEF Knows, AtJob, Ran
    <2> HIDE DEF g
    <2> QED
      BY <1>1, <2>1, <2>2, Reading DEF g
  <1>3. CASE \E s \in Stays : GenerateFind(r, s)
    <2>1. PICK s \in Stays : GenerateFind(r, s)
      BY <1>3
    <2>2. PICK op \in {"generate", "report"} :
            /\ op = (IF ReportsOf(s) = {} THEN "report" ELSE "generate")
            /\ req' = [req EXCEPT ![r] = [op |-> op, of |-> s, listed |-> h.listed,
                                         todo |-> h.todo \ {s}]]
      BY <1>0, <2>1 DEF GenerateFind, Continue
    <2>3. \A t \in h.listed \ h.todo : ReportsOf(t) # {}
      BY <1>0, <2>1 DEF Sound, Handlers, Knows, GenerateFind
    <2> DEFINE g == [op |-> op, of |-> s, listed |-> h.listed, todo |-> h.todo \ {s}]
    <2>4. /\ g.op = op /\ g.of = s /\ g.listed = h.listed /\ g.todo = h.todo \ {s}
          /\ op = "report" => g \in [op : {"report"}, of : Stays, listed : {g.listed},
                                    todo : {g.todo}]
      OBVIOUS
    <2> HIDE DEF g
    <2>5. op = "generate" => \A t \in g.listed \ g.todo : ReportsOf(t) # {}
      BY <2>2, <2>3, <2>4
    <2>6. op = "report" => \A t \in g.listed \ (g.todo \cup {g.of}) : ReportsOf(t) # {}
      BY <2>3, <2>4
    <2>7. Knows(g)
      BY <2>4, <2>5, <2>6 DEF Knows, AtJob, Ran
    <2> QED
      BY <1>1, <2>2, <2>7, Reading DEF g
  <1>4. CASE GenerateAnswer(r)
    BY <1>1, <1>4, IdleKnows, Reading DEF GenerateAnswer, End
  <1> QED
    BY <1>2, <1>3, <1>4

LEMMA GenerateInsertStep == ASSUME Sound, NEW r \in Requests, GenerateInsert(r) PROVE Sound'
  <1>0. PICK h : h = req[r]
    OBVIOUS
  <1>1. /\ h \in [op : {"report"}, of : Stays, listed : {h.listed}, todo : {h.todo}]
        /\ \A s \in h.listed \ (h.todo \cup {h.of}) : ReportsOf(s) # {}
    BY <1>0 DEF Sound, Handlers, Knows, GenerateInsert
  <1>2. heard' = heard /\ ran' = ran
    BY DEF GenerateInsert
  <1>3. CASE ReportsOf(h.of) = {}
    <2>0. PICK x : x = New("report", h.of, "PENDING")
      OBVIOUS
    <2> DEFINE g == [h EXCEPT !.op = "generate"]
    <2>1. row' = Append(row, x) /\ req' = [req EXCEPT ![r] = g]
      BY <1>0, <1>3, <2>0 DEF GenerateInsert, Insert, Goto
    <2>2. /\ x \in Columns /\ x.kind = "report" /\ x.of = h.of
          /\ Follows(x.kind, x.status, x.steps)
      BY <1>1, <2>0, NewRow DEF RowKinds, NewStatuses
    <2>3. /\ Grown /\ Table' /\ UniqueKeys' /\ HeardIsTrue'
          /\ Len(row) + 1 \in DOMAIN row' /\ row'[Len(row) + 1] = x
      BY <1>2, <2>1, <2>2, RowAdded
    <2>4. ReportsOf(h.of)' # {}
      BY <2>2, <2>3 DEF ReportsOf, Rows
    <2>5. \A s \in h.listed \ h.todo : ReportsOf(s)' # {}
      BY <1>1, <2>3, <2>4, ReportsStay
    <2>6. g.op = "generate" /\ g.listed = h.listed /\ g.todo = h.todo
      BY <1>1
    <2> HIDE DEF g
    <2>7. Knows(g)'
      BY <2>5, <2>6 DEF Knows, AtJob, Ran
    <2> QED
      BY <2>1, <2>3, <2>7, OneHandler DEF Sound
  <1>4. CASE ReportsOf(h.of) # {}
    BY <1>0, <1>2, <1>4, IdleKnows, Reading DEF GenerateInsert, End
  <1> QED
    BY <1>3, <1>4

-----------------------------------------------------------------------------
(* The theorems *)

LEMMA SoundInit == Init => Sound
  <1> SUFFICES ASSUME Init PROVE Sound
    OBVIOUS
  <1>1. row \in Seq(Columns) /\ DOMAIN row = {}
    BY DEF Init
  <1>2. Table /\ UniqueKeys /\ HeardIsTrue
    BY <1>1 DEF Init, Table, UniqueKeys, HeardIsTrue
  <1>3. Handlers
    BY IdleKnows DEF Init, Handlers
  <1> QED
    BY <1>2, <1>3 DEF Sound

LEMMA SoundStep == Sound /\ [Next]_vars => Sound'
  <1> SUFFICES ASSUME Sound, [Next]_vars PROVE Sound'
    OBVIOUS
  <1>1. CASE UNCHANGED <<row, req, ran, heard>>
    <2>1. Grown /\ Table' /\ UniqueKeys' /\ HeardIsTrue'
      BY <1>1, NothingWritten
    <2>2. ASSUME NEW r \in Requests, NEW h, h = req'[r] PROVE Knows(h)'
      <3>1. Knows(h)
        BY <1>1, <2>2 DEF Sound, Handlers
      <3> QED
        BY <2>1, <3>1, KnowledgeKeeps
    <2>3. Handlers'
      BY <1>1, <2>2 DEF Sound, Handlers
    <2> QED
      BY <2>1, <2>3 DEF Sound
  <1>2. ASSUME NEW r \in Requests, HardwareNext(r) PROVE Sound'
    BY <1>2, JobsBegin, FindJobStep, InsertJobStep, HearJobStep, AtJobStep DEF HardwareNext
  <1>3. ASSUME NEW r \in Requests, DeskNext(r) PROVE Sound'
    BY <1>3, NewRows, StatusChanges, InsertRowStep, WriteStatusStep, CardStep,
        GenerateReading, GenerateInsertStep DEF DeskNext
  <1>4. ASSUME NEW r \in Requests, Fail(r) PROVE Sound'
    BY <1>4, IdleKnows, Reading DEF Fail, End
  <1> QED
    BY <1>1, <1>2, <1>3, <1>4 DEF Next, StayMoves, vars

LEMMA AlwaysSound == Spec => []Sound
  BY SoundInit, SoundStep, PTL DEF Spec

\* However many calls with one key race, fail and are repeated, there is one
\* job for the key, and it is the job that every caller was given.
THEOREM KeysHold == Spec => []OneJobPerKey
  <1>1. Sound => OneJobPerKey
    <2> SUFFICES ASSUME Sound PROVE OneJobPerKey
      OBVIOUS
    <2>1. ASSUME NEW key \in Keys PROVE Cardinality(JobsOf(key)) <= 1
      <3>1. \A i, j \in JobsOf(key) : i = j
        BY DEF JobsOf, Rows, Sound, UniqueKeys, IsJob
      <3>2. CASE JobsOf(key) = {}
        BY <3>2, FS_EmptySet
      <3>3. CASE JobsOf(key) # {}
        <4>1. PICK i : i \in JobsOf(key)
          BY <3>3
        <4>2. JobsOf(key) = {i}
          BY <3>1, <4>1
        <4> QED
          BY <4>2, FS_Singleton
      <3> QED
        BY <3>2, <3>3
    <2>2. \A a, b \in heard : a[1] = b[1] => a[2] = b[2]
      BY DEF Sound, HeardIsTrue, UniqueKeys, IsJob
    <2> QED
      BY <2>1, <2>2 DEF OneJobPerKey
  <1> QED
    BY <1>1, AlwaysSound, PTL

\* A job logged COMPLETED has been carried out, however many browsers and
\* agents work on it and whichever answers are lost.
THEOREM LogIsTrue == Spec => []CompletedWasDone
  <1>1. Sound => CompletedWasDone
    BY DEF Sound, Table, IsJob, Rows, CompletedWasDone
  <1> QED
    BY <1>1, AlwaysSound, PTL

\* No row reaches a status around the step it presupposes, whatever races on it.
THEOREM NoStepSkipped == Spec => []StepsWereTaken
  <1>1. Sound => StepsWereTaken
    <2> SUFFICES ASSUME Sound, NEW i \in DOMAIN row
                 PROVE  LET x == row[i] IN
                        /\ x.status = "RETURNED" => "claim" \in x.steps
                        /\ x.kind = "report" /\ x.status \in {"CONFIRMED", "FAILED"}
                                => "submit" \in x.steps
                        /\ x.status = "CLOSED" => "resolve" \in x.steps
                        /\ x.status = "VOID" => "sign" \in x.steps
                        /\ x.kind = "job" /\ x.of # 0 => "sign" \in row[x.of].steps
      BY DEF StepsWereTaken
    <2>1. Follows(row[i].kind, row[i].status, row[i].steps)
      BY DEF Sound, Table
    <2>2. row[i].kind = "job" /\ row[i].of # 0 => "sign" \in row[row[i].of].steps
      BY DEF Sound, Table, IsJob, Signed
    <2> QED
      BY <2>1, <2>2 DEF Follows
  <1> QED
    BY <1>1, AlwaysSound, PTL

\* Whom a generation of reports has passed has a report, whichever call wrote it.
THEOREM NobodyForgotten == Spec => []GeneratedMeansCovered
  <1>1. Sound => GeneratedMeansCovered
    BY DEF Sound, Handlers, Knows, GeneratedMeansCovered
  <1> QED
    BY <1>1, AlwaysSound, PTL

-----------------------------------------------------------------------------
(* The guest's page *)

Kinds == {"lookup", "rooms", "select", "checkIn"}
Sent == [kind : Kinds, number : Bookings, lost : BOOLEAN,
         at : {"sent", "found", "arriving", "arrived", "folio", "failed"}]
Answered == [kind : Kinds, number : Bookings, lost : BOOLEAN, at : {"answered"},
             view : Views]
Pages == [typed : Bookings \cup {Null}, shown : Views \cup {Null},
          step : {"lookup", "room-select", "success"}, rooms : BOOLEAN,
          lookupLoading : BOOLEAN, roomsLoading : BOOLEAN, actionLoading : BOOLEAN]

Typed ==
    /\ status \in [Bookings -> Statuses]
    /\ folios \in [Bookings -> Nat]
    /\ page \in Pages
    /\ call \in [Slots -> {Free} \cup Sent \cup Answered]
    /\ told \subseteq Bookings

\* An answer to a check-in shows its own row, checked in and with a folio.
AnswersAreTrue ==
    \A k \in Slots :
        call[k] \in Answered /\ call[k].kind = "checkIn" =>
            /\ call[k].view.number = call[k].number
            /\ call[k].view.status = "CHECKED_IN"
            /\ folios[call[k].number] > 0

Honest == Typed /\ AnswersAreTrue /\ SuccessIsReal

-----------------------------------------------------------------------------
(* What the three ways to write a call do *)

LEMMA NullIsNone == Null \notin Bookings /\ Null \notin Views
  BY SelfServiceAssumption

LEMMA Distinct ==
    /\ Free \notin Sent /\ Free \notin Answered
    /\ \A c \in Sent : c.at # "answered"
    /\ \A c \in Answered : c.at = "answered"
  BY DEF Free, Sent, Answered, Kinds

\* A step that writes one call keeps Typed and AnswersAreTrue when what it
\* writes is a call and, if it is an answer, is true.
LEMMA OneCall ==
    ASSUME Honest, NEW k \in Slots, NEW c \in {Free} \cup Sent \cup Answered,
           call' = [call EXCEPT ![k] = c],
           folios' = folios,
           c \in Answered /\ c.kind = "checkIn" =>
                /\ c.view.number = c.number
                /\ c.view.status = "CHECKED_IN"
                /\ folios[c.number] > 0
    PROVE  /\ call' \in [Slots -> {Free} \cup Sent \cup Answered]
           /\ AnswersAreTrue'
  <1>1. call' \in [Slots -> {Free} \cup Sent \cup Answered]
    BY DEF Honest, Typed
  <1>2. \A j \in Slots : call'[j] = IF j = k THEN c ELSE call[j]
    BY DEF Honest, Typed
  <1>3. AnswersAreTrue'
    BY <1>2 DEF Honest, AnswersAreTrue
  <1> QED
    BY <1>1, <1>3

LEMMA SendEffect ==
    ASSUME Honest, folios' = folios, NEW kind \in Kinds, NEW n \in Bookings,
           NEW unheard \in BOOLEAN, Send(kind, n, unheard)
    PROVE  call' \in [Slots -> {Free} \cup Sent \cup Answered] /\ AnswersAreTrue'
  <1> DEFINE c == [kind |-> kind, number |-> n, at |-> "sent", lost |-> unheard]
  <1>1. PICK k \in Slots : call' = [call EXCEPT ![k] = c]
    BY DEF Send
  <1>2. c \in Sent
    BY DEF Sent
  <1> HIDE DEF c
  <1> QED
    BY <1>1, <1>2, OneCall, Distinct

LEMMA MoveEffect ==
    ASSUME Honest, folios' = folios, NEW k \in Slots, call[k] \in Sent,
           NEW at \in {"found", "arriving", "arrived", "folio", "failed"}, Move(k, at)
    PROVE  call' \in [Slots -> {Free} \cup Sent \cup Answered] /\ AnswersAreTrue'
  <1> DEFINE c == [call[k] EXCEPT !.at = at]
  <1>1. c \in Sent
    BY DEF Sent
  <1>2. call' = [call EXCEPT ![k] = c]
    BY DEF Move
  <1> HIDE DEF c
  <1> QED
    BY <1>1, <1>2, OneCall, Distinct

\* The answer that Answer(k, view) sends.
Reply(k, view) == [kind |-> call[k].kind, number |-> call[k].number, at |-> "answered",
                   lost |-> call[k].lost, view |-> view]

LEMMA ReplyType ==
    ASSUME NEW k \in Slots, call[k] \in Sent, NEW view \in Views
    PROVE  /\ Reply(k, view) \in Answered
           /\ Reply(k, view).kind = call[k].kind
           /\ Reply(k, view).number = call[k].number
           /\ Reply(k, view).view = view
  BY DEF Reply, Sent, Answered

LEMMA AnswerEffect ==
    ASSUME Honest, folios' = folios, NEW k \in Slots, call[k] \in Sent,
           NEW view \in Views, Answer(k, view),
           call[k].kind = "checkIn" =>
                /\ view.number = call[k].number /\ view.status = "CHECKED_IN"
                /\ folios[call[k].number] > 0
    PROVE  call' \in [Slots -> {Free} \cup Sent \cup Answered] /\ AnswersAreTrue'
  <1>1. call' = [call EXCEPT ![k] = Reply(k, view)]
    BY DEF Answer, Reply
  <1> QED
    BY <1>1, ReplyType, OneCall

\* A call that stands at a place of the handler has been sent.
LEMMA OnItsWay ==
    ASSUME Honest, NEW k \in Slots, call[k] # Free, call[k].at # "answered"
    PROVE  call[k] \in Sent
  BY Distinct DEF Honest, Typed

-----------------------------------------------------------------------------
(* The steps *)

\* What is neither told nor shown as a success stays true.
LEMMA PageUntouched ==
    ASSUME Honest, folios' = folios, told' = told,
           page' = page \/ page'.step # "success"
    PROVE  SuccessIsReal'
  BY DEF Honest, SuccessIsReal

LEMMA GuestStep == ASSUME Honest, Guest, device' = device PROVE Honest'
  <1> USE NullIsNone
  <1>1. ASSUME NEW n \in Bookings, Type(n) PROVE Honest'
    <2>1. page' \in Pages /\ page'.step = "lookup"
      BY <1>1 DEF Honest, Typed, Pages, Type
    <2>2. AnswersAreTrue'
      BY <1>1 DEF Honest, AnswersAreTrue, Type
    <2> QED
      BY <1>1, <2>1, <2>2, PageUntouched DEF Honest, Typed, Type
  <1>2. CASE Lookup
    <2>1. page' \in Pages /\ page'.step = "lookup"
      BY <1>2 DEF Honest, Typed, Pages, Lookup
    <2>2. page.typed \in Bookings
      BY <1>2 DEF Honest, Typed, Pages, Lookup
    <2>3. call' \in [Slots -> {Free} \cup Sent \cup Answered] /\ AnswersAreTrue'
      BY <1>2, <2>2, SendEffect DEF Lookup, Kinds
    <2> QED
      BY <1>2, <2>1, <2>3, PageUntouched DEF Honest, Typed, Lookup
  <1>3. CASE ShowRoomOptions
    <2>1. page' \in Pages /\ page'.step = "lookup"
      BY <1>3 DEF Honest, Typed, Pages, ShowRoomOptions, CanCheckIn, Shows
    <2>2. page.shown.number \in Bookings
      BY <1>3 DEF Honest, Typed, Pages, Views, ShowRoomOptions, CanCheckIn, Shows
    <2>3. call' \in [Slots -> {Free} \cup Sent \cup Answered] /\ AnswersAreTrue'
      BY <1>3, <2>2, SendEffect DEF ShowRoomOptions, Kinds
    <2> QED
      BY <1>3, <2>1, <2>3, PageUntouched DEF Honest, Typed, ShowRoomOptions
  <1>4. CASE SelectRoom
    <2>1. page' \in Pages /\ page'.step = "room-select"
      BY <1>4 DEF Honest, Typed, Pages, SelectRoom, Shows
    <2>2. page.shown.number \in Bookings
      BY <1>4 DEF Honest, Typed, Pages, Views, SelectRoom, Shows
    <2>3. call' \in [Slots -> {Free} \cup Sent \cup Answered] /\ AnswersAreTrue'
      BY <1>4, <2>2, SendEffect DEF SelectRoom, Kinds
    <2> QED
      BY <1>4, <2>1, <2>3, PageUntouched DEF Honest, Typed, SelectRoom
  <1>5. CASE CancelSelection
    <2>1. page' \in Pages /\ page'.step = "lookup"
      BY <1>5 DEF Honest, Typed, Pages, CancelSelection
    <2>2. AnswersAreTrue'
      BY <1>5 DEF Honest, AnswersAreTrue, CancelSelection
    <2> QED
      BY <1>5, <2>1, <2>2, PageUntouched DEF Honest, Typed, CancelSelection
  <1>6. CASE CheckIn
    <2>1. page' \in Pages /\ page'.step = "lookup"
      BY <1>6 DEF Honest, Typed, Pages, CheckIn, CanCheckIn, Shows
    <2>2. page.shown.number \in Bookings
      BY <1>6 DEF Honest, Typed, Pages, Views, CheckIn, CanCheckIn, Shows
    <2>3. call' \in [Slots -> {Free} \cup Sent \cup Answered] /\ AnswersAreTrue'
      BY <1>6, <2>2, SendEffect DEF CheckIn, Kinds
    <2> QED
      BY <1>6, <2>1, <2>3, PageUntouched DEF Honest, Typed, CheckIn
  <1>7. CASE Reset
    <2>1. page' \in Pages /\ page'.step = "lookup"
      BY <1>7 DEF Honest, Typed, Pages, Reset
    <2>2. AnswersAreTrue'
      BY <1>7 DEF Honest, AnswersAreTrue, Reset
    <2> QED
      BY <1>7, <2>1, <2>2, PageUntouched DEF Honest, Typed, Reset
  <1> QED
    BY <1>1, <1>2, <1>3, <1>4, <1>5, <1>6, <1>7 DEF Guest

LEMMA ElsewhereStep == ASSUME Honest, Elsewhere PROVE Honest'
  <1>1. call' \in [Slots -> {Free} \cup Sent \cup Answered] /\ AnswersAreTrue'
    BY SendEffect DEF Elsewhere, Kinds
  <1> QED
    BY <1>1, PageUntouched DEF Honest, Typed, Elsewhere

LEMMA DeskStep == ASSUME Honest, Desk PROVE Honest'
  <1>1. status' \in [Bookings -> Statuses]
    BY DEF Honest, Typed, Desk, Statuses
  <1>2. AnswersAreTrue'
    BY DEF Honest, AnswersAreTrue, Desk
  <1> QED
    BY <1>1, <1>2, PageUntouched DEF Honest, Typed, Desk

LEMMA ServerStep ==
    ASSUME Honest, NEW k \in Slots,
           \/ Find(k) \/ Choose(k) \/ ArriveRead(k) \/ ArriveWrite(k)
           \/ ArriveFolioFind(k) \/ ArriveFolioCreate(k) \/ Throw(k)
    PROVE  Honest'
  <1>1. call[k] \in Sent
    BY OnItsWay DEF Find, Choose, ArriveRead, ArriveWrite, ArriveFolioFind,
        ArriveFolioCreate, Throw, At
  <1>2. View(call[k].number) \in Views
    BY <1>1 DEF View, Views, Honest, Typed, Sent
  <1>3. CASE Find(k)
    <2>1. call' \in [Slots -> {Free} \cup Sent \cup Answered] /\ AnswersAreTrue'
      BY <1>1, <1>2, <1>3, MoveEffect, AnswerEffect DEF Find
    <2> QED
      BY <1>3, <2>1, PageUntouched DEF Honest, Typed, Find
  <1>4. CASE Choose(k)
    <2>1. call' \in [Slots -> {Free} \cup Sent \cup Answered] /\ AnswersAreTrue'
      BY <1>1, <1>2, <1>4, MoveEffect, AnswerEffect DEF Choose, At
    <2> QED
      BY <1>4, <2>1, PageUntouched DEF Honest, Typed, Choose
  <1>5. CASE ArriveRead(k)
    <2>1. call' \in [Slots -> {Free} \cup Sent \cup Answered] /\ AnswersAreTrue'
      BY <1>1, <1>5, MoveEffect DEF ArriveRead
    <2> QED
      BY <1>5, <2>1, PageUntouched DEF Honest, Typed, ArriveRead
  <1>6. CASE ArriveWrite(k)
    <2>1. call' \in [Slots -> {Free} \cup Sent \cup Answered] /\ AnswersAreTrue'
      BY <1>1, <1>6, MoveEffect DEF ArriveWrite
    <2>2. status' \in [Bookings -> Statuses]
      BY <1>1, <1>6 DEF Honest, Typed, ArriveWrite, Statuses
    <2> QED
      BY <1>6, <2>1, <2>2, PageUntouched DEF Honest, Typed, ArriveWrite
  <1>7. /\ [number |-> call[k].number, status |-> "CHECKED_IN"] \in Views
        /\ call[k].number \in Bookings
    BY <1>1 DEF Views, Statuses, Sent
  <1>8. CASE ArriveFolioFind(k)
    <2>1. folios[call[k].number] \in Nat
      BY <1>7 DEF Honest, Typed
    <2>2. folios[call[k].number] # 0 => folios[call[k].number] > 0
      BY <2>1
    <2>3. call' \in [Slots -> {Free} \cup Sent \cup Answered] /\ AnswersAreTrue'
      BY <1>1, <1>7, <1>8, <2>2, MoveEffect, AnswerEffect DEF ArriveFolioFind, Arrived
    <2> QED
      BY <1>8, <2>3, PageUntouched DEF Honest, Typed, ArriveFolioFind
  <1>9. CASE ArriveFolioCreate(k)
    <2> DEFINE c == Reply(k, [number |-> call[k].number, status |-> "CHECKED_IN"])
    <2>1. call' = [call EXCEPT ![k] = c]
      BY <1>9 DEF ArriveFolioCreate, Arrived, Answer, Reply
    <2>2. /\ c \in Answered /\ c.number = call[k].number
          /\ c.view = [number |-> call[k].number, status |-> "CHECKED_IN"]
      BY <1>1, <1>7, ReplyType
    <2> HIDE DEF c
    <2>3. /\ folios' \in [Bookings -> Nat]
          /\ folios'[call[k].number] > 0
          /\ \A n \in Bookings : folios[n] > 0 => folios'[n] > 0
      BY <1>7, <1>9 DEF Honest, Typed, ArriveFolioCreate
    <2>4. call' \in [Slots -> {Free} \cup Sent \cup Answered]
      BY <2>1, <2>2 DEF Honest, Typed
    <2>5. AnswersAreTrue'
      <3> SUFFICES ASSUME NEW j \in Slots, call'[j] \in Answered, call'[j].kind = "checkIn"
                   PROVE  /\ call'[j].view.number = call'[j].number
                          /\ call'[j].view.status = "CHECKED_IN"
                          /\ folios'[call'[j].number] > 0
        BY DEF AnswersAreTrue
      <3>1. CASE j = k
        BY <3>1, <2>1, <2>2, <2>3 DEF Honest, Typed
      <3>2. CASE j # k
        <4>1. call'[j] = call[j] /\ call[j].number \in Bookings
          BY <3>2, <2>1 DEF Honest, Typed, Answered
        <4> QED
          BY <4>1, <2>3 DEF Honest, AnswersAreTrue
      <3> QED
        BY <3>1, <3>2
    <2>6. SuccessIsReal'
      BY <1>9, <2>3 DEF Honest, Typed, SuccessIsReal, ArriveFolioCreate
    <2> QED
      BY <1>9, <2>3, <2>4, <2>5, <2>6 DEF Honest, Typed, ArriveFolioCreate
  <1>10. CASE Throw(k)
    <2>1. call' \in [Slots -> {Free} \cup Sent \cup Answered] /\ AnswersAreTrue'
      BY <1>1, <1>10, MoveEffect DEF Throw
    <2> QED
      BY <1>10, <2>1, PageUntouched DEF Honest, Typed, Throw
  <1> QED
    BY <1>3, <1>4, <1>5, <1>6, <1>8, <1>9, <1>10

\* A flag of the page is a flag whatever it is set to.
LEMMA FlagCleared ==
    ASSUME NEW p \in Pages, NEW kind \in Kinds
    PROVE  /\ [p EXCEPT ![Flag(kind)] = FALSE] \in Pages
           /\ [p EXCEPT ![Flag(kind)] = FALSE].step = p.step
           /\ [p EXCEPT ![Flag(kind)] = FALSE].shown = p.shown
  <1>1. Flag(kind) \in {"lookupLoading", "roomsLoading", "actionLoading"}
    BY DEF Flag, Kinds
  <1> QED
    BY <1>1 DEF Pages

LEMMA BrowserStep ==
    ASSUME Honest, NEW k \in Slots, device' = device,
           Hear(k) \/ HearFailure(k) \/ Lose(k) \/ Unheard(k)
    PROVE  Honest'
  <1>1. call[k] \in Sent \cup Answered /\ call[k].kind \in Kinds
    BY DEF Honest, Typed, Hear, HearFailure, Lose, Unheard, Sent, Answered
  <1>2. call' = [call EXCEPT ![k] = Free] =>
            call' \in [Slots -> {Free} \cup Sent \cup Answered]
    BY DEF Honest, Typed
  <1>3. call' = [call EXCEPT ![k] = Free] /\ folios' = folios => AnswersAreTrue'
    BY OneCall, Distinct
  <1>4. CASE Hear(k)
    <2> DEFINE c == call[k]
    <2>1. c \in Answered /\ c.view \in Views /\ c.number \in Bookings
      BY <1>1, <1>4, Distinct DEF Hear, Answered
    <2>2. Received(c) \in Pages
      BY <1>1, <2>1 DEF Received, PhoneReceives, KioskReceives, Honest, Typed, Pages
    <2>3. /\ Received(c).step = "success" => c.kind = "checkIn" /\ Received(c).shown = c.view
      BY <1>1, <2>1 DEF Received, PhoneReceives, KioskReceives, Honest, Typed, Pages
    <2>4. /\ page' \in Pages
          /\ page'.step = Received(c).step /\ page'.shown = Received(c).shown
      BY <1>1, <1>4, <2>2, FlagCleared DEF Hear
    <2>5. /\ status' = status /\ folios' = folios /\ call' = [call EXCEPT ![k] = Free]
          /\ told' = IF c.kind = "checkIn" THEN told \cup {c.number} ELSE told
      BY <1>4 DEF Hear
    <2>6. c.kind = "checkIn" => /\ c.view.number = c.number
                                /\ c.view.status = "CHECKED_IN" /\ folios[c.number] > 0
      BY <2>1 DEF Honest, AnswersAreTrue
    <2> HIDE DEF c
    <2>7. SuccessIsReal'
      BY <2>1, <2>3, <2>4, <2>5, <2>6, NullIsNone DEF Honest, SuccessIsReal
    <2> QED
      BY <1>2, <1>3, <2>1, <2>4, <2>5, <2>7 DEF Honest, Typed
  <1>5. CASE HearFailure(k)
    <2>1. page' \in Pages /\ page'.step = page.step /\ page'.shown = page.shown
      BY <1>1, <1>5, FlagCleared DEF HearFailure, Honest, Typed
    <2>2. /\ status' = status /\ folios' = folios /\ told' = told
          /\ call' = [call EXCEPT ![k] = Free]
      BY <1>5 DEF HearFailure
    <2>3. SuccessIsReal'
      BY <2>1, <2>2 DEF Honest, SuccessIsReal
    <2> QED
      BY <1>2, <1>3, <2>1, <2>2, <2>3 DEF Honest, Typed
  <1>6. CASE Lose(k)
    <2>1. page' \in Pages /\ page'.step = page.step /\ page'.shown = page.shown
      BY <1>1, <1>6, FlagCleared DEF Lose, Honest, Typed
    <2> DEFINE c == [call[k] EXCEPT !.lost = TRUE]
    <2>2. /\ c \in Sent \cup Answered
          /\ c \in Answered => call[k] \in Answered /\ c.view = call[k].view
          /\ c.kind = call[k].kind /\ c.number = call[k].number
      BY <1>1 DEF Sent, Answered
    <2>3. call' = [call EXCEPT ![k] = c]
      BY <1>6 DEF Lose
    <2> HIDE DEF c
    <2>4. status' = status /\ folios' = folios /\ told' = told
      BY <1>6 DEF Lose
    <2>5. c \in Answered /\ c.kind = "checkIn" =>
            /\ c.view.number = c.number /\ c.view.status = "CHECKED_IN"
            /\ folios[c.number] > 0
      BY <2>2 DEF Honest, AnswersAreTrue
    <2>6. call' \in [Slots -> {Free} \cup Sent \cup Answered] /\ AnswersAreTrue'
      BY <2>2, <2>3, <2>4, <2>5, OneCall
    <2>7. SuccessIsReal'
      BY <2>1, <2>4 DEF Honest, SuccessIsReal
    <2> QED
      BY <2>1, <2>4, <2>6, <2>7 DEF Honest, Typed
  <1>7. CASE Unheard(k)
    BY <1>2, <1>3, <1>7, PageUntouched DEF Unheard, Honest, Typed
  <1> QED
    BY <1>4, <1>5, <1>6, <1>7

-----------------------------------------------------------------------------
\* Whatever calls race, get lost or answer late: who is told to be checked in
\* has a folio, and the phone's last screen shows a reservation that is.
THEOREM ToldIsTrue == FairSpec => []SuccessIsReal
  <1>1. SelfInit => Honest
    <2> SUFFICES ASSUME SelfInit PROVE Honest
      OBVIOUS
    <2>1. Typed
      BY DEF SelfInit, Typed, Statuses, Blank, Pages
    <2>2. AnswersAreTrue
      BY Distinct DEF SelfInit, AnswersAreTrue
    <2>3. SuccessIsReal
      BY DEF SelfInit, SuccessIsReal, Blank
    <2> QED
      BY <2>1, <2>2, <2>3 DEF Honest
  <1>2. Honest /\ [SelfNext /\ UNCHANGED device]_<<selfVars, device>> => Honest'
    <2> SUFFICES ASSUME Honest, [SelfNext /\ UNCHANGED device]_<<selfVars, device>>
                 PROVE  Honest'
      OBVIOUS
    <2>1. CASE UNCHANGED <<selfVars, device>>
      BY <2>1 DEF selfVars, Honest, Typed, AnswersAreTrue, SuccessIsReal
    <2>2. CASE SelfNext /\ device' = device
      BY <2>2, GuestStep, ElsewhereStep, DeskStep, ServerStep, BrowserStep
        DEF SelfNext, Proceed
    <2> QED
      BY <2>1, <2>2
  <1>3. Honest => SuccessIsReal
    BY DEF Honest
  <1> QED
    BY <1>1, <1>2, <1>3, PTL DEF FairSpec

=============================================================================

------------------------------ MODULE Workstation ------------------------------
(***************************************************************************)
(* A clerk at one of the screens of StaffScreens and StaffPages, with      *)
(* TanStack Query's cache or a page's own state between the screen and the *)
(* API, a connection that comes and goes, and other desks at work on the   *)
(* same rows.                                                              *)
(*                                                                         *)
(* One of the screen's queries is followed, `query`. Panels over it show a *)
(* row's buttons by the status it had when it was read; panels over the    *)
(* screen's other queries can show any row in any status.                  *)
(*                                                                         *)
(* The API serves a call in one step here: how its calls race among        *)
(* themselves is GuestServices', Settlement's and FrontOffice's.           *)
(*                                                                         *)
(* Left out: the second within which the cache is saved, the retry of a    *)
(* fetch before it counts as failed, and the error some screens show in    *)
(* place of their list after one.                                          *)
(***************************************************************************)
EXTENDS StaffPages, Integers

CONSTANTS Screens,   \* the screens a run looks at
          Rows,      \* the rows there can be
          NoRow,     \* no row of them: a form makes one
          MaxCalls,  \* bound: the clerk's calls under way at once
          MaxWrites, \* bound: changes the API makes
          Busy,      \* bound: where a second call is made under a first, and more
                     \*        than one change by the API
          Flaky      \* bound: where the connection comes and goes

ASSUME ScreensAssumption ==
    Screens \subseteq DOMAIN AllScreens /\ Busy \subseteq Screens /\ Flaky \subseteq Screens
ASSUME BoundsAssumption == MaxWrites \in Nat /\ MaxCalls \in Nat

VARIABLES screen, query, \* what the clerk looks at; never change
          row,        \* the database: the status of each row
          writes,     \* how many changes the API has made
          changed,    \* history: the last of them to each row
          online,     \* whether there is a connection
          heardOnline, \* what the browser's events have told the cache of it
          mounted,    \* whether the screen is open
          list,       \* the followed query's entry in the cache, or the page's state
          call,       \* the clerk's calls
          own         \* the last change of the clerk's own that `list` owes her

deskVars ==
    <<screen, query, row, writes, changed, online, heardOnline, mounted, list, call, own>>

-----------------------------------------------------------------------------
The == AllScreens[screen]
Calls == 1..MaxCalls
Handmade == screen \in ByHand
Steps == DOMAIN The.service
Unmade == [r \in Rows |-> "NONE"]

\* Rows may begin in any status some step leaves them in.
Outcomes(s) == UNION {The.service[s].to[status] : status \in The.service[s].from}
Statuses == UNION {Outcomes(s) \cup The.service[s].from : s \in Steps}

\* What the query answers: the rows its filter leaves in.
Answer == [r \in Rows |-> IF row[r] \in The.hooks.leavesOut[query] THEN "NONE" ELSE row[r]]

NoList == [have |-> FALSE, rows |-> Unmade, at |-> 0, stale |-> TRUE,
           fetch |-> "no", got |-> Unmade, gotAt |-> 0]
Asked(l) == [l EXCEPT !.fetch = "asked", !.got = Unmade, !.gotAt = 0]
Stopped(l) == [l EXCEPT !.fetch = "no", !.got = Unmade, !.gotAt = 0]

\* invalidateQueries: what is cached is stale; an open screen asks again,
\* and drops an answer on its way unless it has nothing to show without it.
Invalidated(l) ==
    LET marked == [l EXCEPT !.stale = TRUE]
    IN IF mounted /\ (l.have \/ l.fetch = "no") THEN Asked(marked) ELSE marked

\* A page drops no answer: of two on their way either may be the last.
ReadAgain(l) ==
    IF ~Handmade THEN {Invalidated(l)}
    ELSE IF l.fetch = "no" THEN {Asked(l)} ELSE {Asked(l), l}
NoOlderAnswerDue(l) == l.fetch = "no" \/ (~Handmade /\ mounted /\ l.have)

\* What is seen where no status is.
Unread == {"?", "LOADING"}

NoCall == [phase |-> "idle", step |-> "none", row |-> NoRow,
           seen |-> "?", since |-> 0, found |-> "?", moved |-> 0, wrote |-> 0,
           online |-> TRUE, held |-> FALSE]

DeskInit ==
    /\ screen \in Screens
    /\ query \in DOMAIN The.hooks.leavesOut
    /\ row \in [Rows -> Statuses]
    /\ writes = 0 /\ changed = [r \in Rows |-> 0]
    /\ online = TRUE /\ heardOnline = TRUE
    /\ mounted = TRUE
    /\ list = Asked(NoList)
    /\ call = [c \in Calls |-> NoCall]
    /\ own = 0

-----------------------------------------------------------------------------
(* The clerk *)

Panels == DOMAIN The.panels
Held(p, step) ==
    step \in The.panels[p].held /\ \E c \in Calls : call[c].step = step /\ call[c].held

\* The last change that what is on the screen ought to show.
Due == IF list.fetch = "no" /\ ~list.stale /\ own > list.at THEN own ELSE list.at

\* A mutation pauses when the browser has said that it is offline; what the
\* API client itself finds offline it blocks, and nothing is sent.
Make(c, step, r, seen) ==
    LET paused == ~heardOnline /\ step \notin DirectSteps /\ ~Handmade IN
    /\ call[c].phase = "idle"
    /\ \A other \in 1..(c - 1) : call[other].phase # "idle"
    /\ screen \in Busy \/ c = 1
    /\ paused \/ online
    /\ call' = [call EXCEPT ![c] = [NoCall EXCEPT
           !.phase = IF paused THEN "paused" ELSE "sent", !.step = step,
           !.row = r, !.seen = seen, !.since = Due, !.online = online, !.held = TRUE]]
    /\ UNCHANGED <<screen, query, row, writes, changed, online, heardOnline, mounted, list, own>>

Shown(p, r) ==
    IF The.panels[p].list # query THEN {"?"} ELSE IF list.have THEN {list.rows[r]} ELSE {"LOADING"}
ButtonsFor(p, status) ==
    LET buttons == The.panels[p].buttons IN
    IF status = "?" THEN UNION {buttons[s] : s \in DOMAIN buttons}
    ELSE IF status \in DOMAIN buttons THEN buttons[status] ELSE {}

\* While it reads, a page shows that it does and nothing else.
Reading == Handmade /\ list.fetch # "no"

Click(c) ==
    /\ mounted /\ ~Reading
    /\ \E p \in Panels, r \in Rows : \E status \in Shown(p, r) :
         \E step \in ButtonsFor(p, status) : ~Held(p, step) /\ Make(c, step, r, status)

FillForm(c) ==
    /\ mounted
    /\ Handmade /\ screen \notin FormWhileReading => list.have /\ ~Reading
    /\ \E p \in Panels : \E step \in The.panels[p].forms : ~Held(p, step) /\ Make(c, step, NoRow, "?")

\* Leaving a screen loses sight of the calls under way, not the calls; a
\* page's state goes with it.
Unseen(calls) == [c \in Calls |-> [calls[c] EXCEPT !.held = FALSE]]

LeaveScreen ==
    /\ mounted
    /\ mounted' = FALSE
    /\ list' = IF Handmade THEN NoList ELSE list
    /\ call' = Unseen(call)
    /\ UNCHANGED <<screen, query, row, writes, changed, online, heardOnline, own>>

Return ==
    /\ ~mounted
    /\ mounted' = TRUE
    /\ list' = IF list.stale /\ list.fetch = "no" THEN Asked(list) ELSE list
    /\ UNCHANGED <<screen, query, row, writes, changed, online, heardOnline, call, own>>

\* Of the cache only some queries are kept over a reload; a paused call's
\* function is not, so that it cannot be resumed.
Reload ==
    /\ mounted' = TRUE
    /\ heardOnline' = TRUE
    /\ list' = LET kept == IF query \in PersistedQueries THEN Stopped(list) ELSE NoList
               IN IF kept.stale THEN Asked(kept) ELSE kept
    /\ call' = [c \in Calls |-> NoCall]
    /\ own' = 0
    /\ UNCHANGED <<screen, query, row, writes, changed, online>>

-----------------------------------------------------------------------------
(* The API *)

\* A form is about any row it makes, or finds as it would make it.
About(k) == IF k.row # NoRow THEN {k.row} ELSE Rows
AsItIs(k) == \E r \in About(k) : row[r] \in The.service[k.step].same

Served(k, phase, wrote) ==
    [k EXCEPT !.phase = phase, !.row = NoRow, !.seen = "?", !.since = 0, !.wrote = wrote]

Change(step, r) ==
    /\ writes < MaxWrites /\ (writes = 0 \/ screen \in Busy)
    /\ \E status \in The.service[step].to[row[r]] : row' = [row EXCEPT ![r] = status]
    /\ writes' = writes + 1
    /\ changed' = [changed EXCEPT ![r] = writes']

\* What it takes, what it answers with the row as it is, and what it
\* refuses for the row's status.
ServeChange(c) ==
    LET k == call[c] IN
    /\ k.phase = "sent"
    /\ ~AsItIs(k)
    /\ \E r \in About(k) :
         /\ row[r] \in The.service[k.step].from
         /\ Change(k.step, r)
    /\ call' = [call EXCEPT ![c] = Served(k, "done", writes')]
    /\ UNCHANGED <<screen, query, online, heardOnline, mounted, list, own>>

ServeSame(c) ==
    LET k == call[c] IN
    /\ k.phase = "sent" /\ AsItIs(k)
    /\ call' = [call EXCEPT ![c] = Served(k, "done", 0)]
    /\ UNCHANGED <<screen, query, row, writes, changed, online, heardOnline, mounted, list, own>>

Refuse(c) ==
    LET k == call[c] IN
    /\ k.phase = "sent" /\ k.row # NoRow
    /\ row[k.row] \notin The.service[k.step].from \cup The.service[k.step].same
    /\ call' = [call EXCEPT ![c].phase = "refused", ![c].found = row[k.row],
                             ![c].moved = changed[k.row]]
    /\ UNCHANGED <<screen, query, row, writes, changed, online, heardOnline, mounted, list, own>>

\* Whatever the status, what was typed may be refused.
Decline(c) ==
    /\ call[c].phase = "sent"
    /\ call' = [call EXCEPT ![c] = Served(call[c], "declined", 0)]
    /\ UNCHANGED <<screen, query, row, writes, changed, online, heardOnline, mounted, list, own>>

AnotherDesk ==
    /\ \E step \in Steps, r \in Rows :
         row[r] \in The.service[step].from /\ Change(step, r)
    /\ UNCHANGED <<screen, query, online, heardOnline, mounted, list, call, own>>

ReadList ==
    /\ online /\ list.fetch = "asked"
    /\ list' = [list EXCEPT !.fetch = "read", !.got = Answer, !.gotAt = writes]
    /\ UNCHANGED <<screen, query, row, writes, changed, online, heardOnline, mounted, call, own>>

-----------------------------------------------------------------------------
(* What comes back *)

Owes(k) ==
    /\ k.wrote > 0
    /\ query \in The.service[k.step].changes
    /\ <<k.step, query>> \notin LeftBehind
    /\ NoOlderAnswerDue(list)

\* onSuccess asks again for what the hook names, a page that is still the
\* same reads again or is left; onError shows a toast.
Succeeds(k) == k.phase = "done" /\ (Handmade => k.held)
Closes(k) == Succeeds(k) /\ <<screen, k.step>> \in LeavesPage
Rereads(k) == Succeeds(k) /\ query \in The.hooks.invalidates[k.step]

Hear(c) ==
    LET k == call[c]
        rest == [call EXCEPT ![c] = NoCall]
    IN
    /\ online /\ k.phase \in {"done", "refused", "declined"}
    /\ \/ Rereads(k) /\ list' \in ReadAgain(list) /\ call' = rest /\ UNCHANGED mounted
       \/ Closes(k) /\ list' = NoList /\ call' = Unseen(rest) /\ mounted' = FALSE
       \/ ~Rereads(k) /\ ~Closes(k) /\ call' = rest /\ UNCHANGED <<list, mounted>>
    /\ own' = IF Succeeds(k) /\ Owes(k) /\ k.wrote > own THEN k.wrote ELSE own
    /\ UNCHANGED <<screen, query, row, writes, changed, online, heardOnline>>

\* The connection breaks under a call. The API may still serve it, which is
\* then to the screen as if AnotherDesk had made it.
Lose(c) ==
    /\ call[c].phase \notin {"idle", "paused"}
    /\ call' = [call EXCEPT ![c] = NoCall]
    /\ UNCHANGED <<screen, query, row, writes, changed, online, heardOnline, mounted, list, own>>

Arrive ==
    /\ online /\ list.fetch = "read"
    /\ list' = Stopped([list EXCEPT !.have = TRUE, !.rows = list.got, !.at = list.gotAt,
                                    !.stale = FALSE])
    /\ UNCHANGED <<screen, query, row, writes, changed, online, heardOnline, mounted, call, own>>

FetchFails ==
    /\ list.fetch # "no"
    /\ list' = IF Handmade /\ screen \notin KeepsRows THEN NoList
               ELSE Stopped([list EXCEPT !.stale = TRUE])
    /\ UNCHANGED <<screen, query, row, writes, changed, online, heardOnline, mounted, call, own>>

GrowStale ==
    /\ ~Handmade
    /\ list.have /\ ~list.stale
    /\ list' = [list EXCEPT !.stale = TRUE]
    /\ UNCHANGED <<screen, query, row, writes, changed, online, heardOnline, mounted, call, own>>

TryAgain ==
    /\ mounted /\ list.fetch = "no"
    /\ screen \in ReadsAgain \/ (screen \in TriesAgain /\ ~list.have)
    /\ list' = Asked(list)
    /\ UNCHANGED <<screen, query, row, writes, changed, online, heardOnline, mounted, call, own>>

-----------------------------------------------------------------------------
(* The connection *)

GoOffline ==
    /\ screen \in Flaky
    /\ online
    /\ online' = FALSE /\ heardOnline' = FALSE
    /\ UNCHANGED <<screen, query, row, writes, changed, mounted, list, call, own>>

\* Back online the cache resumes what it paused and then refetches.
GoOnline ==
    /\ ~online
    /\ online' = TRUE /\ heardOnline' = TRUE
    /\ UNCHANGED <<screen, query, row, writes, changed, mounted, list, call, own>>

Resume(c) ==
    /\ heardOnline /\ call[c].phase = "paused"
    /\ call' = [call EXCEPT ![c].phase = "sent"]
    /\ UNCHANGED <<screen, query, row, writes, changed, online, heardOnline, mounted, list, own>>

Refetch ==
    /\ ~Handmade
    /\ heardOnline /\ mounted
    /\ \A c \in Calls : call[c].phase # "paused"
    /\ list.stale /\ list.fetch = "no"
    /\ list' = Asked(list)
    /\ UNCHANGED <<screen, query, row, writes, changed, online, heardOnline, mounted, call, own>>

-----------------------------------------------------------------------------
DeskNext ==
    \/ \E c \in Calls :
         \/ Click(c) \/ FillForm(c) \/ Resume(c) \/ Hear(c) \/ Lose(c)
         \/ ServeChange(c) \/ ServeSame(c) \/ Refuse(c) \/ Decline(c)
    \/ LeaveScreen \/ Return \/ Reload
    \/ AnotherDesk \/ ReadList \/ Arrive \/ FetchFails \/ GrowStale \/ TryAgain \/ Refetch
    \/ GoOffline \/ GoOnline

DeskSpec == DeskInit /\ [][DeskNext]_deskVars

-----------------------------------------------------------------------------
(* A refusal is somebody else's doing, or news that was on its way: when   *)
(* the API refuses what a clerk asks of a row for the row's status, the    *)
(* row was written again after the list that she asked it from was read,   *)
(* and after any change of her own that this list already had to show      *)
(* her. No screen offers what the API would refuse of the very row it      *)
(* shows, except what it offers whatever the status (OfferedAnyway), and   *)
(* no hook leaves her with a list that her own call has overtaken.         *)
RefusalsAreExplained ==
    \A c \in Calls :
        LET k == call[c] IN
        /\ k.phase = "refused" /\ k.seen \notin Unread
        /\ <<screen, k.step, k.found>> \notin OfferedAnyway
        => k.moved > k.since

(* What a clerk was told has succeeded is in what she sees: a list that is *)
(* neither being read nor due to be was read after her last change to it,  *)
(* whatever answers were on their way when the change was made. Not owed   *)
(* are the changes a hook forgets (LeftBehind), those heard while an older *)
(* answer is due that is not dropped, and those of a page left since.      *)
OwnChangesShow ==
    list.have /\ list.fetch = "no" /\ ~list.stale => list.at >= own

(* ADR 008: changes are blocked offline and none is queued in silence: a   *)
(* call that the API took was made while there was a connection.           *)
MutationsBlockedOffline ==
    \A c \in Calls : call[c].phase = "done" => call[c].online
=============================================================================

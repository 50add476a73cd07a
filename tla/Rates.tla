-------------------------------- MODULE Rates --------------------------------
(***************************************************************************)
(* Rate plans that derive from one another, and the yield recommendations  *)
(* that change them. updateRate writes a rate and then walks down the      *)
(* derived ones, reading the children of each and writing them one by one, *)
(* outside any transaction. Amounts are in the smallest unit of money.     *)
(***************************************************************************)
EXTENDS Integers, Sequences, FiniteSets

CONSTANTS
    Requests,       \* calls in flight
    Null,
    MaxRows,        \* bound: Rate and YieldRecommendation rows together
    MaxAmount,      \* bound: a rate is not raised by recommendations beyond this
    NewRates,       \* what rates are created with
    Changes,        \* what updates carry: records of the fields given
    Horizon,        \* YIELD_HORIZON_DAYS from the business date
    Occupancies,    \* inputs of recommendAmount, in percent
    CompetitorAmounts

VARIABLES
    rate,           \* Rate rows of one property and room type, by id
    recommendation, \* YieldRecommendation rows
    req,            \* handlers in flight
    stale           \* history: rates that a cascade which stopped has not reached

vars == <<rate, recommendation, req, stale>>

ASSUME RatesAssumption ==
    /\ MaxRows \in Nat /\ MaxAmount \in Nat
    /\ Null \notin Int /\ Null \notin CompetitorAmounts
    /\ \A dto \in NewRates : DOMAIN dto = {"parent", "mode", "value", "amount", "active"}
    /\ \A c \in Changes : DOMAIN c \subseteq {"parent", "mode", "value", "amount", "active"}

RateId == DOMAIN rate
RowCount == Len(rate) + Len(recommendation)
Idle == [op |-> "idle"]
Begin(r, h) == req[r] = Idle /\ req' = [req EXCEPT ![r] = h]
Continue(r, h) == req' = [req EXCEPT ![r] = h]
End(r) == req' = [req EXCEPT ![r] = Idle]

Init == rate = <<>> /\ recommendation = <<>> /\ req = [r \in Requests |-> Idle] /\ stale = {}

-----------------------------------------------------------------------------
(* rate-derive.ts *)

\* Rounded to the smallest unit, a half upwards.
Derived(parentAmount, mode, value) ==
    IF mode = "PERCENT_OFFSET" THEN (parentAmount * (100 + value) + 50) \div 100
    ELSE parentAmount + value

DerivationFieldsOk(parent, mode, value) ==
    \/ parent = Null /\ mode = Null /\ value = Null
    \/ parent # Null /\ mode # Null /\ value # Null

\* The parent, its parent, and so on.
Ancestors(i) ==
    LET up[n \in 0..Len(rate)] ==
            IF n = 0 THEN i
            ELSE IF up[n-1] = Null THEN Null ELSE rate[up[n-1]].parent
    IN  {up[n] : n \in 0..Len(rate)} \ {Null}

\* Mutant: a rate is not derived from itself; longer loops are not looked for.
ParentIsAnother(i, parent) == parent # i

NoCycle(i, parent) == i \notin Ancestors(parent)

Children(i) == {c \in RateId : rate[c].parent = i}
Descendants(i) == {c \in RateId : i \in Ancestors(c)} \ {i}

-----------------------------------------------------------------------------
(* rates-ops.ts *)

\* The parent is read and the row inserted with nothing written between.
CreateRate(r, dto) ==
    /\ req[r] = Idle
    /\ RowCount < MaxRows
    /\ DerivationFieldsOk(dto.parent, dto.mode, dto.value)
    /\ dto.parent # Null => dto.parent \in RateId
    /\ LET amount == IF dto.parent = Null THEN dto.amount
                     ELSE Derived(rate[dto.parent].amount, dto.mode, dto.value)
       IN  /\ amount >= 0
           /\ rate' = Append(rate, [dto EXCEPT !.amount = amount])
    /\ UNCHANGED <<recommendation, req, stale>>

Given(c, field, row) == IF field \in DOMAIN c THEN c[field] ELSE row[field]

\* A write gives some columns of a row and leaves the others.
Over(given, row) ==
    [f \in DOMAIN given \cup DOMAIN row |-> IF f \in DOMAIN given THEN given[f] ELSE row[f]]

NextParent(i, c) == Given(c, "parent", rate[i])
NextAmount(i, c) ==
    IF NextParent(i, c) = Null THEN Given(c, "amount", rate[i])
    ELSE Derived(rate[NextParent(i, c)].amount, Given(c, "mode", rate[i]),
                 Given(c, "value", rate[i]))

UpdateAllowed(i, c) ==
    /\ DerivationFieldsOk(NextParent(i, c), Given(c, "mode", rate[i]), Given(c, "value", rate[i]))
    /\ NextParent(i, c) # Null =>
        /\ "amount" \notin DOMAIN c
        /\ NextParent(i, c) \in RateId
        /\ NoCycle(i, NextParent(i, c))
    /\ NextAmount(i, c) >= 0

\* What the update is going to write, and the recommendation it applies or 0.
Update(i, c, rec) ==
    [op |-> "update", id |-> i, rec |-> rec,
     data |-> Over([mode |-> Given(c, "mode", rate[i]), value |-> Given(c, "value", rate[i]),
                    amount |-> NextAmount(i, c)], c)]

UpdateRead(r, i, c) ==
    /\ UpdateAllowed(i, c)
    /\ Begin(r, Update(i, c, 0))
    /\ UNCHANGED <<rate, recommendation, stale>>

\* The cascade keeps a frame for each rate whose children it is at: the
\* amount to derive from and the children, as read, that are still to do.
UpdateWrite(r) ==
    /\ req[r].op = "update"
    /\ LET i == req[r].id IN
        /\ rate' = [rate EXCEPT ![i] = Over(req[r].data, @)]
        /\ stale' = stale \ {i}
        /\ Continue(r, [op |-> "children", of |-> i, amount |-> req[r].data.amount,
                        frames |-> <<>>, rec |-> req[r].rec])
    /\ UNCHANGED recommendation

\* Mutant: the cascade stops at the children.
CascadeOneLevel(r) ==
    /\ req[r].op = "children"
    /\ Continue(r, [op |-> "cascade", rec |-> req[r].rec, frames |->
           Append(req[r].frames,
                  [amount |-> req[r].amount,
                   left |-> {[id |-> c, mode |-> rate[c].mode, value |-> rate[c].value] :
                                c \in IF req[r].frames = <<>> THEN Children(req[r].of) ELSE {}}])])
    /\ UNCHANGED <<rate, recommendation, stale>>

CascadeRead(r) ==
    /\ req[r].op = "children"
    /\ Continue(r, [op |-> "cascade", rec |-> req[r].rec, frames |->
           Append(req[r].frames,
                  [amount |-> req[r].amount,
                   left |-> {[id |-> c, mode |-> rate[c].mode, value |-> rate[c].value] :
                                c \in Children(req[r].of)}])])
    /\ UNCHANGED <<rate, recommendation, stale>>

Top(r) == req[r].frames[Len(req[r].frames)]

\* One child, which is then descended into. A negative amount throws: the
\* rates that are left keep the amounts they had.
CascadeWrite(r) ==
    /\ req[r].op = "cascade"
    /\ \E child \in Top(r).left :
        LET amount == Derived(Top(r).amount, child.mode, child.value)
            frames == [req[r].frames EXCEPT ![Len(req[r].frames)].left = @ \ {child}]
        IN  /\ amount >= 0
            /\ rate' = [rate EXCEPT ![child.id].amount = amount]
            /\ stale' = stale \ {child.id}
            /\ Continue(r, [op |-> "children", of |-> child.id, amount |-> amount,
                            frames |-> frames, rec |-> req[r].rec])
    /\ UNCHANGED recommendation

\* What a handler that ends here leaves undone.
Left(h) ==
    LET ids == IF h.op = "children" THEN Children(h.of) ELSE {}
        waiting == {child.id : child \in
                        UNION {h.frames[n].left : n \in DOMAIN h.frames}}
    IN  UNION {{c} \cup Descendants(c) : c \in ids \cup waiting}

CascadeThrows(r) ==
    /\ req[r].op = "cascade"
    /\ \E child \in Top(r).left : Derived(Top(r).amount, child.mode, child.value) < 0
    /\ stale' = stale \cup Left(req[r])
    /\ End(r)
    /\ UNCHANGED <<rate, recommendation>>

CascadeUp(r) ==
    /\ req[r].op = "cascade"
    /\ Top(r).left = {}
    /\ LET frames == SubSeq(req[r].frames, 1, Len(req[r].frames) - 1) IN
        IF frames # <<>> THEN req' = [req EXCEPT ![r].frames = frames]
        ELSE IF req[r].rec = 0 THEN End(r)
        ELSE Continue(r, [op |-> "applied", rec |-> req[r].rec])
    /\ UNCHANGED <<rate, recommendation, stale>>

\* An await throws or the process dies.
Fail(r) ==
    /\ req[r] # Idle
    /\ stale' = IF req[r].op \in {"children", "cascade"} THEN stale \cup Left(req[r]) ELSE stale
    /\ End(r)
    /\ UNCHANGED <<rate, recommendation>>

-----------------------------------------------------------------------------
(* yield-recommend.ts, yield-ops.ts *)

HIGH_OCCUPANCY_PCT == 85
LOW_OCCUPANCY_PCT == 40
MATCH_OCCUPANCY_MAX_PCT == 70
COMP_GAP_PCT == 8
PACE_BEHIND_PP == 10

\* The amount recommended, or Null.
RecommendAmount(current, occupancy, lastYear, competitor) ==
    LET other(amount) == IF amount # current THEN amount ELSE Null
        undercut == /\ competitor # Null /\ competitor > 0
                    /\ occupancy < MATCH_OCCUPANCY_MAX_PCT
                    /\ (current - competitor) * 100 >= COMP_GAP_PCT * current
    IN  IF current <= 0 THEN Null
        ELSE IF occupancy >= HIGH_OCCUPANCY_PCT THEN other(Derived(current, "PERCENT_OFFSET", 10))
        ELSE IF undercut THEN other(competitor)
        ELSE IF occupancy <= LOW_OCCUPANCY_PCT /\ occupancy - lastYear <= -PACE_BEHIND_PP
             THEN LET lower == Derived(current, "PERCENT_OFFSET", -10)
                  IN  IF lower <= 0 THEN Null ELSE other(lower)
        ELSE Null

\* Of the active rates that derive from none, the first by id; all cover all days.
CoveringRates == {i \in RateId : rate[i].active /\ rate[i].parent = Null}
PendingKeys == {<<x.rate, x.day>> : x \in
                   {recommendation[n] : n \in {m \in DOMAIN recommendation :
                                                 recommendation[m].status = "PENDING"}}}

GenerateRead(r) ==
    /\ CoveringRates # {}
    /\ LET first == CHOOSE i \in CoveringRates : \A j \in CoveringRates : i <= j IN
        Begin(r, [op |-> "generate", rate |-> first, current |-> rate[first].amount,
                  days |-> {d \in Horizon : <<first, d>> \notin PendingKeys}])
    /\ UNCHANGED <<rate, recommendation, stale>>

\* The days in order; a day without a suggestion is passed over.
GenerateDay(r) ==
    /\ req[r].op = "generate"
    /\ \E occupancy, lastYear \in Occupancies, competitor \in CompetitorAmounts \cup {Null} :
        LET day == CHOOSE d \in req[r].days : \A e \in req[r].days : d <= e
            amount == RecommendAmount(req[r].current, occupancy, lastYear, competitor)
        IN  /\ req[r].days # {}
            /\ RowCount < MaxRows
            /\ req' = [req EXCEPT ![r].days = @ \ {day}]
            /\ IF amount = Null THEN UNCHANGED recommendation
               ELSE /\ amount <= MaxAmount
                    /\ recommendation' = Append(recommendation,
                           [rate |-> req[r].rate, day |-> day, amount |-> amount,
                            status |-> "PENDING"])
    /\ UNCHANGED <<rate, stale>>

GenerateEnd(r) ==
    /\ req[r].op = "generate"
    /\ req[r].days = {} \/ RowCount = MaxRows
    /\ End(r)
    /\ UNCHANGED <<rate, recommendation, stale>>

\* applyRecommendation is an update, with its checks and its cascade.
ApplyRead(r, n) ==
    LET i == recommendation[n].rate
        c == [amount |-> recommendation[n].amount]
    IN  /\ recommendation[n].status = "PENDING"
        /\ UpdateAllowed(i, c)
        /\ Begin(r, Update(i, c, n))
        /\ UNCHANGED <<rate, recommendation, stale>>

ApplyWrite(r) ==
    /\ req[r].op = "applied"
    /\ recommendation' = [recommendation EXCEPT ![req[r].rec].status = "APPLIED"]
    /\ End(r)
    /\ UNCHANGED <<rate, stale>>

\* The check and the write of dismissRecommendation.
DismissRead(r, n) ==
    /\ recommendation[n].status = "PENDING"
    /\ Begin(r, [op |-> "dismiss", rec |-> n])
    /\ UNCHANGED <<rate, recommendation, stale>>

DismissWrite(r) ==
    /\ req[r].op = "dismiss"
    /\ recommendation' = [recommendation EXCEPT ![req[r].rec].status = "DISMISSED"]
    /\ End(r)
    /\ UNCHANGED <<rate, stale>>

-----------------------------------------------------------------------------
Starts(r) ==
    \/ \E dto \in NewRates : CreateRate(r, dto)
    \/ \E i \in RateId, c \in Changes : UpdateRead(r, i, c)
    \/ GenerateRead(r)
    \/ \E n \in DOMAIN recommendation : ApplyRead(r, n) \/ DismissRead(r, n)

Continues(r) ==
    \/ UpdateWrite(r) \/ CascadeRead(r) \/ CascadeWrite(r) \/ CascadeThrows(r) \/ CascadeUp(r)
    \/ GenerateDay(r) \/ GenerateEnd(r) \/ ApplyWrite(r) \/ DismissWrite(r)

Next == \E r \in Requests : Starts(r) \/ Continues(r) \/ Fail(r)

Spec == Init /\ [][Next]_vars

-----------------------------------------------------------------------------
\* What the properties ask of the callers.
OneAtATime == \A p, q \in Requests : p = q

Follows(i) ==
    rate[i].amount = Derived(rate[rate[i].parent].amount, rate[i].mode, rate[i].value)

\* One call at a time: between calls every derived rate has the amount its
\* formula gives for its parent, however deep, apart from the rates that a
\* cascade which threw or died has not come to.
DerivedFollowParents ==
    (\A r \in Requests : req[r] = Idle) =>
        \A i \in RateId \ stale : rate[i].parent # Null => Follows(i)

\* rates.service.spec.ts:198 'should reject a derivation cycle', of whatever
\* length and through whatever updates, one call at a time: the cascade, which
\* recurses without a limit, goes down a tree and ends.
NoRateDerivesFromItself ==
    \A i \in RateId : rate[i].parent # Null => i \notin Ancestors(rate[i].parent)
=============================================================================

-------------------------- MODULE ReviewQueueProofs ---------------------------
(***************************************************************************)
(* Proofs about ReviewQueue, for any number of messages, moderators and    *)
(* concurrent requests.                                                    *)
(***************************************************************************)
EXTENDS ReviewQueue, TLAPS

-------------------------------------------------------------------------------
(* What the statements make of a row.                                      *)

LEMMA EnqueuedOK ==
  ASSUME NEW t \in Nat
  PROVE  /\ Enqueued(t) \in Row /\ RowOK(Enqueued(t))
         /\ Enqueued(t).status = "pending" /\ Enqueued(t).created_at = t
BY DEF Enqueued, Absent, Row, RowOK

LEMMA AgedOK ==
  ASSUME NEW r \in Row, RowOK(r), r.claimed_at = "recent"
  PROVE  /\ Aged(r) \in Row /\ RowOK(Aged(r))
         /\ Aged(r).status = r.status /\ Aged(r).reviewer = r.reviewer
         /\ Aged(r).decision = r.decision /\ Aged(r).created_at = r.created_at
BY DEF Aged, Row, RowOK

LEMMA ClaimedOK ==
  ASSUME NEW r \in Row, RowOK(r), r.status = "pending", NEW m \in Moderators
  PROVE  /\ Claimed(r, m) \in Row /\ RowOK(Claimed(r, m))
         /\ Claimed(r, m).status = "claimed" /\ Claimed(r, m).reviewer = m
         /\ Claimed(r, m).created_at = r.created_at
BY ConstantsAssumption DEF Claimed, Row, RowOK

LEMMA GivenBackOK ==
  ASSUME NEW r \in Row, RowOK(r), r.status = "claimed"
  PROVE  /\ GivenBack(r) \in Row /\ RowOK(GivenBack(r))
         /\ GivenBack(r).status = "pending" /\ GivenBack(r).created_at = r.created_at
BY DEF GivenBack, Row, RowOK

LEMMA DecidedOK ==
  ASSUME NEW r \in Row, RowOK(r), r.status \in {"pending", "claimed"},
         NEW m \in Moderators, NEW d \in Decisions
  PROVE  /\ Decided(r, m, d) \in Row /\ RowOK(Decided(r, m, d))
         /\ Decided(r, m, d).status = "done" /\ Decided(r, m, d).reviewer = m
         /\ Decided(r, m, d).created_at = r.created_at
BY ConstantsAssumption DEF Decided, Row, RowOK

-------------------------------------------------------------------------------
(* What a step may do to one row: stay, or one of the statements.          *)

RowStep(i) ==
  \/ row'[i] = row[i]
  \/ /\ row[i].status = "absent" /\ row'[i] = Enqueued(now)
     /\ now' = now + 1 /\ call' = call /\ card' = card /\ released' = released
  \/ row[i].claimed_at = "recent" /\ row'[i] = Aged(row[i])
  \/ row[i].status = "claimed" /\ row'[i] = GivenBack(row[i]) /\ i \in released'
  \/ \E s \in Slots :
       /\ call[s].at = "claim" /\ call[s].item = i /\ row[i].status = "pending"
       /\ row'[i] = Claimed(row[i], call[s].by)
       /\ call' = [call EXCEPT ![s] = Moved(@, "handed", i)]
  \/ \E s \in Slots :
       /\ call[s].at = "submit" /\ call[s].item = i
       /\ row[i].status \in {"pending", "claimed"}
       /\ row'[i] = Decided(row[i], call[s].by, call[s].decision)

LEMMA RowSteps ==
  ASSUME TypeOK, [Next]_vars
  PROVE  row' = [i \in Items |-> row'[i]] /\ \A i \in Items : RowStep(i)
<1>. USE DEF TypeOK
<1>1. CASE row' = row
  BY <1>1 DEF RowStep
<1>2. ASSUME NEW batch \in SUBSET Items, Enqueue(batch)
      PROVE  row' = [i \in Items |-> row'[i]] /\ \A i \in Items : RowStep(i)
  BY <1>2 DEF Enqueue, RowStep
<1>3. ASSUME NEW j \in Items, ClaimAges(j)
      PROVE  row' = [i \in Items |-> row'[i]] /\ \A i \in Items : RowStep(i)
  BY <1>3 DEF ClaimAges, RowStep
<1>4. ASSUME NEW s \in Slots, ReleaseStale(s)
      PROVE  row' = [i \in Items |-> row'[i]] /\ \A i \in Items : RowStep(i)
  BY <1>4 DEF ReleaseStale, Stale, RowStep
<1>5. ASSUME NEW s \in Slots, ClaimRow(s)
      PROVE  row' = [i \in Items |-> row'[i]] /\ \A i \in Items : RowStep(i)
  BY <1>5 DEF ClaimRow, Goto, RowStep
<1>6. ASSUME NEW s \in Slots, SubmitReview(s)
      PROVE  row' = [i \in Items |-> row'[i]] /\ \A i \in Items : RowStep(i)
  <2>1. call[s].item \in Items /\ row[call[s].item].status \in {"absent", "pending", "claimed", "done"}
    BY <1>6 DEF SubmitReview, CallOK, Row
  <2>2. row[call[s].item].status # "absent"
    BY <1>6 DEF SubmitReview, CallOK
  <2>. QED
    BY <1>6, <2>1, <2>2 DEF SubmitReview, RowStep
<1>7. ASSUME NEW s \in Slots, SelectOldest(s) \/ Show(s) \/ Settle(s) \/ Fail(s)
      PROVE  row' = row
  BY <1>7 DEF SelectOldest, Show, Settle, Fail
<1>8. ASSUME NEW m \in Moderators, \/ NextItem(m) \/ Reload(m)
                                   \/ \E d \in Decisions : Decide(m, d)
      PROVE  row' = row
  BY <1>8 DEF NextItem, Reload, Decide
<1>9. CASE UNCHANGED vars
  BY <1>1, <1>9 DEF vars
<1>. QED
  BY <1>1, <1>2, <1>3, <1>4, <1>5, <1>6, <1>7, <1>8, <1>9 DEF Next, Serve

\* Whatever a step does to a row, its columns still agree, it stays in the table, and it
\* keeps its time of creation.
LEMMA RowsKept ==
  ASSUME TypeOK, [Next]_vars, NEW i \in Items
  PROVE  /\ row'[i] \in Row /\ RowOK(row'[i])
         /\ row[i].status # "absent" => /\ row'[i].status # "absent"
                                        /\ row'[i].created_at = row[i].created_at
<1>. DEFINE Kept == /\ row'[i] \in Row /\ RowOK(row'[i])
                    /\ row[i].status # "absent" => /\ row'[i].status # "absent"
                                                   /\ row'[i].created_at = row[i].created_at
<1>1. row[i] \in Row /\ RowOK(row[i]) /\ now \in Nat
  BY DEF TypeOK
<1>2. CASE row'[i] = row[i]
  BY <1>1, <1>2
<1>3. CASE row[i].status = "absent" /\ row'[i] = Enqueued(now)
  BY <1>1, <1>3, EnqueuedOK
<1>4. CASE row[i].claimed_at = "recent" /\ row'[i] = Aged(row[i])
  BY <1>1, <1>4, AgedOK
<1>5. CASE row[i].status = "claimed" /\ row'[i] = GivenBack(row[i])
  <2>1. GivenBack(row[i]).status # "absent"
    BY <1>1, <1>5, GivenBackOK
  <2>. QED
    BY <1>1, <1>5, <2>1, GivenBackOK
<1>6. ASSUME NEW s \in Slots, call[s].at = "claim", row[i].status = "pending",
             row'[i] = Claimed(row[i], call[s].by)
      PROVE  Kept
  <2>1. call[s].by \in Moderators
    BY <1>6 DEF TypeOK, CallOK
  <2>. QED
    BY <1>1, <1>6, <2>1, ClaimedOK
<1>7. ASSUME NEW s \in Slots, call[s].at = "submit",
             row[i].status \in {"pending", "claimed"},
             row'[i] = Decided(row[i], call[s].by, call[s].decision)
      PROVE  Kept
  <2>1. call[s].by \in Moderators /\ call[s].decision \in Decisions
    BY <1>7 DEF TypeOK, CallOK
  <2>. QED
    BY <1>1, <1>7, <2>1, DecidedOK
<1>8. RowStep(i)
  BY RowSteps
<1>. QED
  BY <1>2, <1>3, <1>4, <1>5, <1>6, <1>7, <1>8 DEF RowStep

-------------------------------------------------------------------------------
(* What a step may do to one request.                                      *)

CallStep(u) ==
  \/ call'[u] = call[u]
  \/ call'[u] = Idle
  \/ \E m \in Moderators : call'[u] = ClaimCall(m)
  \/ \E m \in Moderators, d \in Decisions :
       card[m] # NoItem /\ card' = card /\ row' = row /\ call'[u] = DecideCall(m, d)
  \/ call'[u] = Unheard(call[u])
  \/ call[u].at = "release" /\ call'[u] = Moved(call[u], "select", NoItem)
  \/ call[u].at \in {"select", "claim"} /\ call'[u] = Moved(call[u], "empty", NoItem)
  \/ /\ call[u].at = "select" /\ row' = row /\ released' = released
     /\ \E i \in Oldest : call'[u] = Moved(call[u], "claim", i)
  \/ /\ call[u].at = "claim" /\ row[call[u].item].status = "pending"
     /\ row' = [row EXCEPT ![call[u].item] = Claimed(@, call[u].by)]
     /\ call'[u] = Moved(call[u], "handed", call[u].item)
  \/ call[u].at = "submit" /\ call'[u] = Accepted(call[u])

LEMMA CallSteps ==
  ASSUME TypeOK, [Next]_vars
  PROVE  call' = [u \in Slots |-> call'[u]] /\ \A u \in Slots : CallStep(u)
<1>. DEFINE P == call' = [u \in Slots |-> call'[u]] /\ \A u \in Slots : CallStep(u)
<1>. USE DEF TypeOK
<1>1. CASE call' = call
  BY <1>1 DEF CallStep
<1>2. ASSUME NEW batch \in SUBSET Items, Enqueue(batch) PROVE P
  BY <1>1, <1>2 DEF Enqueue
<1>3. ASSUME NEW i \in Items, ClaimAges(i) PROVE P
  BY <1>1, <1>3 DEF ClaimAges
<1>4. ASSUME NEW m \in Moderators, NextItem(m) PROVE P
  BY <1>4 DEF NextItem, Send, CallStep
<1>5. ASSUME NEW m \in Moderators, Reload(m) PROVE P
  BY <1>5 DEF Reload, CallStep
<1>6. ASSUME NEW m \in Moderators, NEW d \in Decisions, Decide(m, d) PROVE P
  BY <1>6 DEF Decide, Send, CallStep
<1>7. ASSUME NEW s \in Slots, ReleaseStale(s) PROVE P
  BY <1>7 DEF ReleaseStale, Goto, CallStep
<1>8. ASSUME NEW s \in Slots, SelectOldest(s) PROVE P
  BY <1>8 DEF SelectOldest, Goto, CallStep
<1>9. ASSUME NEW s \in Slots, ClaimRow(s) PROVE P
  BY <1>9 DEF ClaimRow, Goto, CallStep
<1>10. ASSUME NEW s \in Slots, SubmitReview(s) PROVE P
  BY <1>10 DEF SubmitReview, CallStep
<1>11. ASSUME NEW s \in Slots, Show(s) PROVE P
  BY <1>11 DEF Show, CallStep
<1>12. ASSUME NEW s \in Slots, Settle(s) PROVE P
  BY <1>12 DEF Settle, CallStep, CallOK
<1>13. ASSUME NEW s \in Slots, Fail(s) PROVE P
  BY <1>13 DEF Fail, CallStep
<1>14. CASE UNCHANGED vars
  BY <1>1, <1>14 DEF vars
<1>. QED
  BY <1>2, <1>3, <1>4, <1>5, <1>6, <1>7, <1>8, <1>9, <1>10, <1>11, <1>12, <1>13, <1>14
     DEF Next, Serve

\* A request keeps its type, and the row it names stays in the table.
LEMMA CallsKept ==
  ASSUME TypeOK, [Next]_vars, NEW u \in Slots
  PROVE  call'[u] \in Call /\ CallOK(call[u])'
<1>. DEFINE P == call'[u] \in Call /\ CallOK(call[u])'
<1>1. call[u] \in Call /\ CallOK(call[u])
  BY DEF TypeOK
<1>2. call[u].item \in Items /\ row[call[u].item].status # "absent"
        => row'[call[u].item].status # "absent"
  BY RowsKept
<1>3. CASE call'[u] = call[u]
  BY <1>1, <1>2, <1>3 DEF CallOK
<1>4. CASE call'[u] = Idle
  BY <1>4 DEF Idle, Call, CallOK
<1>5. ASSUME NEW m \in Moderators, call'[u] = ClaimCall(m) PROVE P
  BY <1>5 DEF ClaimCall, Idle, Call, CallOK, Stages
<1>6. ASSUME NEW m \in Moderators, NEW d \in Decisions,
             card[m] # NoItem, row' = row, call'[u] = DecideCall(m, d) PROVE P
  <2>1. card[m] \in Items /\ row[card[m]].status # "absent"
    BY <1>6 DEF TypeOK
  <2>. QED
    BY <1>6, <2>1 DEF DecideCall, Call, CallOK, Stages
<1>7. CASE call'[u] = Unheard(call[u])
  <2>1. /\ Unheard(call[u]) \in Call
        /\ Unheard(call[u]).at = call[u].at /\ Unheard(call[u]).by = call[u].by
        /\ Unheard(call[u]).item = call[u].item
        /\ Unheard(call[u]).decision = call[u].decision
    BY <1>1 DEF Unheard, Call
  <2>. QED
    BY <1>1, <1>2, <1>7, <2>1 DEF CallOK
<1>8. ASSUME NEW stage \in {"select", "empty"}, call[u].at # "idle",
             call'[u] = Moved(call[u], stage, NoItem) PROVE P
  BY <1>1, <1>8 DEF Moved, Call, CallOK, Stages
<1>9. ASSUME NEW i \in Oldest, call[u].at = "select", row' = row,
             call'[u] = Moved(call[u], "claim", i) PROVE P
  BY <1>1, <1>9 DEF Oldest, Pending, Moved, Call, CallOK, Stages
<1>10. ASSUME call[u].at = "claim", call'[u] = Moved(call[u], "handed", call[u].item) PROVE P
  BY <1>1, <1>2, <1>10 DEF Moved, Call, CallOK, Stages
<1>11. CASE call[u].at = "submit" /\ call'[u] = Accepted(call[u])
  BY <1>1, <1>11 DEF Accepted, Idle, Call, CallOK, Stages
<1>12. CallStep(u)
  BY CallSteps
<1>. QED
  BY <1>3, <1>4, <1>5, <1>6, <1>7, <1>8, <1>9, <1>10, <1>11, <1>12 DEF CallStep

-------------------------------------------------------------------------------
(* Type correctness.                                                       *)

LEMMA TypeInit == Init => TypeOK
BY ConstantsAssumption DEF Init, TypeOK, RowOK, CallOK, Row, Call, Stages, Absent, Idle

\* A page changes its card only when it is closed and when an answer comes.
LEMMA CardSteps ==
  ASSUME TypeOK, [Next]_vars
  PROVE  \/ card' = card
         \/ \E m \in Moderators : card' = [card EXCEPT ![m] = NoItem]
         \/ \E s \in Slots : /\ call[s].at \in {"handed", "empty"} /\ row' = row
                             /\ released' = released
                             /\ card' = [card EXCEPT ![call[s].by] = call[s].item]
<1>1. ASSUME NEW s \in Slots, Serve(s) \/ Settle(s) \/ Fail(s) PROVE card' = card
  BY <1>1 DEF Serve, ReleaseStale, SelectOldest, ClaimRow, SubmitReview, Settle, Fail
<1>2. ASSUME NEW m \in Moderators, NextItem(m) \/ \E d \in Decisions : Decide(m, d)
      PROVE  card' = card
  BY <1>2 DEF NextItem, Decide
<1>. QED
  BY <1>1, <1>2 DEF Next, Enqueue, ClaimAges, Reload, Show, vars

LEMMA OthersKept ==
  ASSUME TypeOK, [Next]_vars
  PROVE  /\ now' \in Nat /\ now' >= now
         /\ released' \in SUBSET Items /\ released \subseteq released'
         /\ failures' \in Nat /\ reloads' \in Nat
<1>. DEFINE P == /\ now' \in Nat /\ now' >= now
                 /\ released' \in SUBSET Items /\ released \subseteq released'
                 /\ failures' \in Nat /\ reloads' \in Nat
<1>. USE DEF TypeOK
<1>1. ASSUME NEW s \in Slots, Serve(s) PROVE P
  BY <1>1 DEF Serve, ReleaseStale, Stale, SelectOldest, ClaimRow, SubmitReview
<1>2. ASSUME NEW s \in Slots, Show(s) \/ Settle(s) \/ Fail(s) PROVE P
  BY <1>2 DEF Show, Settle, Fail
<1>3. ASSUME NEW m \in Moderators, \/ NextItem(m) \/ Reload(m)
                                   \/ \E d \in Decisions : Decide(m, d)
      PROVE  P
  BY <1>3 DEF NextItem, Reload, Decide
<1>4. ASSUME NEW batch \in SUBSET Items, Enqueue(batch) PROVE P
  BY <1>4 DEF Enqueue
<1>5. ASSUME NEW i \in Items, ClaimAges(i) PROVE P
  BY <1>5 DEF ClaimAges
<1>6. CASE UNCHANGED vars
  BY <1>6 DEF vars
<1>. QED
  BY <1>1, <1>2, <1>3, <1>4, <1>5, <1>6 DEF Next

LEMMA TypeStep == TypeOK /\ [Next]_vars => TypeOK'
<1>. SUFFICES ASSUME TypeOK, [Next]_vars PROVE TypeOK'
  OBVIOUS
<1>1. row' \in [Items -> Row] /\ \A i \in Items : RowOK(row'[i])
  BY RowSteps, RowsKept
<1>2. call' \in [Slots -> Call] /\ \A s \in Slots : CallOK(call[s])'
  BY CallSteps, CallsKept
<1>. DEFINE CardOK ==
       /\ card' \in [Moderators -> Items \cup {NoItem}]
       /\ \A m \in Moderators : card'[m] # NoItem => row'[card'[m]].status # "absent"
<1>3. CardOK
  <2>1. ASSUME NEW m \in Moderators, card[m] # NoItem PROVE row'[card[m]].status # "absent"
    BY <2>1, RowsKept DEF TypeOK
  <2>2. CASE card' = card
    BY <2>1, <2>2 DEF TypeOK
  <2>3. ASSUME NEW n \in Moderators, card' = [card EXCEPT ![n] = NoItem]
        PROVE  CardOK
    BY <2>1, <2>3 DEF TypeOK
  <2>4. ASSUME NEW s \in Slots, call[s].at \in {"handed", "empty"}, row' = row,
               card' = [card EXCEPT ![call[s].by] = call[s].item]
        PROVE  CardOK
    <3>1. call[s] \in Call /\ CallOK(call[s])
      BY DEF TypeOK
    <3>2. call[s].item \in Items \cup {NoItem}
      BY <3>1 DEF Call
    <3>3. call[s].item # NoItem => row[call[s].item].status # "absent"
      BY <2>4, <3>1 DEF CallOK
    <3>. QED
      BY <2>4, <3>2, <3>3 DEF TypeOK
  <2>. QED
    BY <2>2, <2>3, <2>4, CardSteps
<1>. QED
  BY <1>1, <1>2, <1>3, OthersKept DEF TypeOK

\* The columns of a row always agree with its status, and no page or request refers to
\* a row that is not in the table, whatever requests overlap, fail or go stale.
THEOREM TypeCorrect == Spec => []TypeOK
<1>. QED
  BY TypeInit, TypeStep, PTL DEF Spec

-------------------------------------------------------------------------------
(* Decisions are final.                                                    *)

\* A message decided by a human stays as it was decided: no second answer, stale claim
\* or replay by a worker reaches a row that is done.
THEOREM DecisionStaysFinal == Spec => DecisionIsFinal
<1>1. ASSUME TypeOK, [Next]_vars, NEW i \in Items, row[i].status = "done"
      PROVE  /\ row'[i].status = "done" /\ row'[i].decision = row[i].decision
             /\ row'[i].reviewer = row[i].reviewer
  <2>1. row[i] \in Row /\ RowOK(row[i]) /\ RowStep(i)
    BY <1>1, RowSteps DEF TypeOK
  <2>2. row'[i] = row[i] \/ (row[i].claimed_at = "recent" /\ row'[i] = Aged(row[i]))
    BY <1>1, <2>1 DEF RowStep
  <2>. QED
    BY <1>1, <2>1, <2>2, AgedOK
<1>2. TypeOK /\ [Next]_vars =>
        [\A i \in Items :
           row[i].status = "done" => /\ row'[i].status = "done"
                                     /\ row'[i].decision = row[i].decision
                                     /\ row'[i].reviewer = row[i].reviewer]_vars
  BY <1>1
<1>. QED
  BY <1>2, TypeCorrect, PTL DEF Spec, DecisionIsFinal

-------------------------------------------------------------------------------
(* Nobody decides what another holds.                                      *)

LEMMA HeldInit == Init => HeldIsClaimed
BY ConstantsAssumption DEF Init, HeldIsClaimed, Holds, Open, Absent

\* A moderator who holds an undecided message after a step held it before, or has
\* just won it.
LEMMA HoldSteps ==
  ASSUME TypeOK, [Next]_vars, NEW m \in Moderators, NEW i \in Items, Holds(m, i)'
  PROVE  \/ Holds(m, i)
         \/ row[i].status = "pending" /\ row'[i] = Claimed(row[i], m)
<1>1. CASE card'[m] = i
  <2>1. CASE card' = card
    BY <1>1, <2>1 DEF Holds
  <2>2. ASSUME NEW n \in Moderators, card' = [card EXCEPT ![n] = NoItem] PROVE card[m] = i
    BY <1>1, <2>2, ConstantsAssumption DEF TypeOK
  <2>3. ASSUME NEW s \in Slots, call[s].at \in {"handed", "empty"},
               card' = [card EXCEPT ![call[s].by] = call[s].item]
        PROVE  Holds(m, i)
    <3>1. CASE m # call[s].by
      BY <1>1, <2>3, <3>1 DEF Holds, TypeOK
    <3>2. CASE m = call[s].by
      <4>1. call[s].item = i
        BY <1>1, <2>3, <3>2 DEF TypeOK
      <4>2. call[s].at # "empty"
        BY <4>1, ConstantsAssumption DEF TypeOK, CallOK
      <4>. QED
        BY <2>3, <3>2, <4>1, <4>2 DEF Holds
    <3>. QED
      BY <3>1, <3>2
  <2>. QED
    BY <2>1, <2>2, <2>3, CardSteps DEF Holds
<1>2. ASSUME NEW u \in Slots, call'[u].by = m, call'[u].item = i,
             call'[u].at \in {"handed", "submit"}
      PROVE  Holds(m, i) \/ (row[i].status = "pending" /\ row'[i] = Claimed(row[i], m))
  <2>. DEFINE Goal == Holds(m, i) \/ (row[i].status = "pending" /\ row'[i] = Claimed(row[i], m))
  <2>1. call[u] \in Call
    BY DEF TypeOK
  <2>2. CASE call'[u] = call[u]
    BY <1>2, <2>2 DEF Holds
  <2>3. CASE call'[u] = Idle
    BY <1>2, <2>3 DEF Idle
  <2>4. ASSUME NEW n \in Moderators, call'[u] = ClaimCall(n) PROVE Goal
    BY <1>2, <2>4 DEF ClaimCall, Idle
  <2>5. ASSUME NEW n \in Moderators, NEW d \in Decisions, call'[u] = DecideCall(n, d)
        PROVE  Goal
    BY <1>2, <2>5 DEF DecideCall, Holds
  <2>6. CASE call'[u] = Unheard(call[u])
    BY <1>2, <2>1, <2>6 DEF Unheard, Call, Holds
  <2>7. ASSUME NEW stage \in {"select", "empty", "claim"}, NEW j \in Items \cup {NoItem},
               call'[u] = Moved(call[u], stage, j)
        PROVE  Goal
    BY <1>2, <2>1, <2>7 DEF Moved, Call
  <2>8. ASSUME call[u].at = "claim", row[call[u].item].status = "pending",
               row' = [row EXCEPT ![call[u].item] = Claimed(@, call[u].by)],
               call'[u] = Moved(call[u], "handed", call[u].item)
        PROVE  Goal
    <3>1. call[u].item = i /\ call[u].by = m
      BY <1>2, <2>1, <2>8 DEF Moved, Call
    <3>. QED
      BY <2>8, <3>1 DEF TypeOK
  <2>9. CASE call'[u] = Accepted(call[u])
    BY <1>2, <2>9 DEF Accepted, Idle
  <2>10. CallStep(u)
    BY CallSteps
  <2>. QED
    BY <2>2, <2>3, <2>4, <2>5, <2>6, <2>7, <2>8, <2>9, <2>10
       DEF CallStep, Oldest, Pending
<1>. QED
  BY <1>1, <1>2 DEF Holds

LEMMA HeldStep ==
  ASSUME TypeOK, HeldIsClaimed, [Next]_vars PROVE HeldIsClaimed'
<1>. SUFFICES ASSUME NEW m \in Moderators, NEW i \in Items,
                     Holds(m, i)', Open(i)', i \notin released'
              PROVE  row'[i].status = "claimed" /\ row'[i].reviewer = m
  BY DEF HeldIsClaimed
<1>1. row[i] \in Row /\ RowOK(row[i]) /\ i \notin released
  BY OthersKept DEF TypeOK
<1>2. CASE row[i].status = "pending" /\ row'[i] = Claimed(row[i], m)
  BY <1>1, <1>2, ClaimedOK
<1>3. CASE Holds(m, i)
  <2>1. Open(i) => row[i].status = "claimed" /\ row[i].reviewer = m
    BY <1>1, <1>3 DEF HeldIsClaimed
  <2>2. row[i].status # "absent"
    BY <1>3, ConstantsAssumption DEF Holds, TypeOK, CallOK
  <2>3. CASE row'[i] = row[i]
    BY <2>1, <2>3 DEF Open
  <2>4. CASE row[i].claimed_at = "recent" /\ row'[i] = Aged(row[i])
    BY <1>1, <2>1, <2>4, AgedOK DEF Open
  <2>5. CASE row[i].status = "pending"
    BY <2>1, <2>5 DEF Open
  <2>6. ASSUME NEW s \in Slots, call[s].at = "submit", row[i].status \in {"pending", "claimed"},
               row'[i] = Decided(row[i], call[s].by, call[s].decision)
        PROVE  FALSE
    <3>1. call[s].by \in Moderators /\ call[s].decision \in Decisions
      BY <2>6 DEF TypeOK, CallOK
    <3>2. row'[i].status = "done"
      BY <1>1, <2>6, <3>1, DecidedOK
    <3>. QED
      BY <3>2 DEF Open
  <2>7. RowStep(i)
    BY RowSteps
  <2>. QED
    BY <2>2, <2>3, <2>4, <2>5, <2>6, <2>7 DEF RowStep
<1>. QED
  BY <1>2, <1>3, HoldSteps

-------------------------------------------------------------------------------
(* Oldest first.                                                           *)

LEMMA OldestInit == Init => ClaimsAreOldest
BY DEF Init, ClaimsAreOldest, Absent, Idle

\* What waits after a step waited before it, came in with it, or was given back by it.
LEMMA PendingSteps ==
  ASSUME TypeOK, [Next]_vars, NEW j \in Items, row'[j].status = "pending"
  PROVE  \/ row[j].status = "pending" /\ row'[j].created_at = row[j].created_at
         \/ /\ row[j].status = "absent" /\ row'[j].created_at = now /\ call' = call
            /\ now' = now + 1
         \/ j \in released'
<1>1. row[j] \in Row /\ RowOK(row[j]) /\ now \in Nat
  BY DEF TypeOK
<1>2. CASE row'[j] = row[j]
  BY <1>2
<1>3. CASE row[j].status = "absent" /\ row'[j] = Enqueued(now) /\ call' = call /\ now' = now + 1
  BY <1>1, <1>3, EnqueuedOK
<1>4. CASE row[j].claimed_at = "recent" /\ row'[j] = Aged(row[j])
  BY <1>1, <1>4, AgedOK
<1>5. ASSUME NEW s \in Slots, call[s].at = "claim", row[j].status = "pending",
             row'[j] = Claimed(row[j], call[s].by)
      PROVE  FALSE
  <2>1. call[s].by \in Moderators
    BY <1>5 DEF TypeOK, CallOK
  <2>. QED
    BY <1>1, <1>5, <2>1, ClaimedOK
<1>6. ASSUME NEW s \in Slots, call[s].at = "submit", row[j].status \in {"pending", "claimed"},
             row'[j] = Decided(row[j], call[s].by, call[s].decision)
      PROVE  FALSE
  <2>1. call[s].by \in Moderators /\ call[s].decision \in Decisions
    BY <1>6 DEF TypeOK, CallOK
  <2>. QED
    BY <1>1, <1>6, <2>1, DecidedOK
<1>7. RowStep(j)
  BY RowSteps
<1>. QED
  BY <1>2, <1>3, <1>4, <1>5, <1>6, <1>7 DEF RowStep

\* A request that is about to claim an item after a step was about to before it, or has
\* just selected it.
LEMMA ClaimingSteps ==
  ASSUME TypeOK, [Next]_vars, NEW u \in Slots, call'[u].at = "claim"
  PROVE  \/ call[u].at = "claim" /\ call'[u].item = call[u].item
         \/ call'[u].item \in Oldest /\ row' = row
<1>1. call[u] \in Call
  BY DEF TypeOK
<1>2. ASSUME NEW m \in Moderators, call'[u] = ClaimCall(m) PROVE FALSE
  <2>1. ClaimCall(m).at = "release"
    BY DEF Idle, ClaimCall
  <2>. QED
    BY <1>2, <2>1
<1>3. CASE \E m \in Moderators, d \in Decisions : call'[u] = DecideCall(m, d)
  BY <1>3 DEF DecideCall
<1>4. CASE call'[u] = Unheard(call[u])
  BY <1>1, <1>4 DEF Unheard, Call
<1>5. ASSUME NEW stage \in {"select", "empty", "handed"}, NEW j \in Items \cup {NoItem},
             call'[u] = Moved(call[u], stage, j)
      PROVE  FALSE
  BY <1>1, <1>5 DEF Moved, Call
<1>6. ASSUME row' = row, NEW i \in Oldest, call'[u] = Moved(call[u], "claim", i)
      PROVE  call'[u].item \in Oldest /\ row' = row
  BY <1>1, <1>6 DEF Moved, Call
<1>7. CASE call'[u] = Accepted(call[u])
  BY <1>7 DEF Accepted, Idle
<1>8. call[u].item \in Items \cup {NoItem}
  BY <1>1 DEF Call
<1>9. CallStep(u)
  BY CallSteps
<1>10. call'[u] # Idle
  BY DEF Idle
<1>. QED
  BY <1>2, <1>3, <1>4, <1>5, <1>6, <1>7, <1>8, <1>9, <1>10 DEF CallStep

LEMMA OldestStep ==
  ASSUME TypeOK, ClaimsAreOldest, [Next]_vars PROVE ClaimsAreOldest'
<1>1. ASSUME NEW i \in Items, row'[i].status # "absent" PROVE row'[i].created_at < now'
  <2>1. row[i] \in Row /\ row'[i] \in Row /\ now \in Nat /\ now' \in Nat /\ now' >= now
    BY OthersKept, RowsKept DEF TypeOK
  <2>2. CASE row[i].status # "absent"
    <3>1. row'[i].created_at = row[i].created_at /\ row[i].created_at < now
      BY <2>2, RowsKept DEF ClaimsAreOldest
    <3>2. row[i].created_at \in Nat
      BY <2>1 DEF Row
    <3>. QED
      BY <2>1, <3>1, <3>2
  <2>3. CASE row[i].status = "absent"
    <3>1. row'[i] = Enqueued(now) /\ now' = now + 1
      <4>1. row'[i] # row[i]
        BY <1>1, <2>3
      <4>2. row[i].claimed_at = "null"
        BY <2>3 DEF TypeOK, RowOK
      <4>3. RowStep(i)
        BY RowSteps
      <4>. QED
        BY <2>3, <4>1, <4>2, <4>3 DEF RowStep
    <3>. QED
      BY <2>1, <3>1, EnqueuedOK
  <2>. QED
    BY <2>2, <2>3
<1>2. ASSUME NEW s \in Slots, NEW j \in Items,
             call'[s].at = "claim", row'[j].status = "pending",
             row'[j].created_at < row'[call'[s].item].created_at
      PROVE  j \in released'
  <2>1. released \subseteq released'
    BY OthersKept
  <2>2. CASE call'[s].item \in Oldest /\ row' = row
    <3>1. row[j].created_at \in Nat /\ row[call'[s].item].created_at \in Nat
      BY <2>2 DEF TypeOK, Row, Oldest, Pending
    <3>2. row[call'[s].item].created_at <= row[j].created_at
      BY <1>2, <2>2 DEF Oldest, Pending
    <3>. QED
      BY <1>2, <2>2, <3>1, <3>2
  <2>3. CASE call[s].at = "claim" /\ call'[s].item = call[s].item
    <3>. DEFINE i == call[s].item
    <3>1. i \in Items /\ row[i].status # "absent"
      BY <2>3 DEF TypeOK, CallOK
    <3>2. row'[i].created_at = row[i].created_at
      BY <3>1, RowsKept
    <3>3. CASE row[j].status = "pending" /\ row'[j].created_at = row[j].created_at
      BY <1>2, <2>1, <2>3, <3>2, <3>3 DEF ClaimsAreOldest
    <3>4. CASE row'[j].created_at = now
      <4>1. row[i].created_at < now /\ row[i].created_at \in Nat /\ now \in Nat
        BY <3>1 DEF ClaimsAreOldest, TypeOK, Row
      <4>. QED
        BY <1>2, <2>3, <3>2, <3>4, <4>1
    <3>. QED
      BY <1>2, <3>3, <3>4, PendingSteps
  <2>. QED
    BY <1>2, <2>2, <2>3, ClaimingSteps
<1>. QED
  BY <1>1, <1>2 DEF ClaimsAreOldest

-------------------------------------------------------------------------------
(* The theorems.                                                           *)

\* The strengthened invariant: rows, requests and cards agree, an undecided message that
\* was never given back belongs to whoever holds it, and requests hold the oldest.
THEOREM InductiveInvariant == Spec => []Inductive
<1>1. Init => Inductive
  BY TypeInit, HeldInit, OldestInit DEF Inductive
<1>2. Inductive /\ [Next]_vars => Inductive'
  <2>. SUFFICES ASSUME Inductive, [Next]_vars PROVE Inductive'
    OBVIOUS
  <2>1. TypeOK'
    BY TypeStep DEF Inductive
  <2>2. HeldIsClaimed'
    BY HeldStep DEF Inductive
  <2>3. ClaimsAreOldest'
    BY OldestStep DEF Inductive
  <2>. QED
    BY <2>1, <2>2, <2>3 DEF Inductive
<1>. QED
  BY <1>1, <1>2, PTL DEF Spec

\* The conditional UPDATE of claim_next_item is enough: two moderators have the same
\* undecided message on their cards only after its claim was given back as stale.
THEOREM NobodySharesACard == Spec => []NoDoubleHold
<1>1. Inductive => NoDoubleHold
  <2>. SUFFICES ASSUME Inductive, NEW m \in Moderators, NEW n \in Moderators,
                       m # n, card[m] = card[n], card[m] # NoItem, Open(card[m])
                PROVE  card[m] \in released
    BY DEF NoDoubleHold
  <2>1. card[m] \in Items
    BY DEF Inductive, TypeOK
  <2>2. Holds(m, card[m]) /\ Holds(n, card[m])
    BY DEF Holds
  <2>. QED
    BY <2>1, <2>2 DEF Inductive, HeldIsClaimed
<1>. QED
  BY <1>1, InductiveInvariant, PTL

\* submit_review does not ask who has claimed the message, and does not need to: one
\* that was never given back is decided by the moderator it was handed to.
THEOREM HolderDecides == Spec => DecidedByHolder
<1>1. ASSUME Inductive, [Next]_vars, NEW i \in Items,
             row[i].status # "done", row'[i].status = "done", i \notin released
      PROVE  row[i].status = "claimed" /\ row'[i].reviewer = row[i].reviewer
  <2>. TypeOK /\ HeldIsClaimed /\ ClaimsAreOldest
    BY <1>1 DEF Inductive
  <2>1. row[i] \in Row /\ RowOK(row[i]) /\ now \in Nat
    BY DEF TypeOK
  <2>2. ASSUME NEW s \in Slots, call[s].at = "submit", call[s].item = i,
               row[i].status \in {"pending", "claimed"},
               row'[i] = Decided(row[i], call[s].by, call[s].decision)
        PROVE  row[i].status = "claimed" /\ row'[i].reviewer = row[i].reviewer
    <3>1. call[s].by \in Moderators /\ call[s].decision \in Decisions
      BY <2>2 DEF TypeOK, CallOK
    <3>2. Holds(call[s].by, i) /\ Open(i)
      BY <2>2 DEF Holds, Open
    <3>3. row[i].status = "claimed" /\ row[i].reviewer = call[s].by
      BY <1>1, <3>1, <3>2 DEF HeldIsClaimed
    <3>. QED
      BY <2>1, <2>2, <3>1, <3>3, DecidedOK
  <2>3. CASE row[i].status = "absent" /\ row'[i] = Enqueued(now)
    BY <1>1, <2>1, <2>3, EnqueuedOK
  <2>4. CASE row[i].claimed_at = "recent" /\ row'[i] = Aged(row[i])
    BY <1>1, <2>1, <2>4, AgedOK
  <2>5. CASE row[i].status = "claimed" /\ row'[i] = GivenBack(row[i])
    BY <1>1, <2>1, <2>5, GivenBackOK
  <2>6. ASSUME NEW s \in Slots, call[s].at = "claim", row[i].status = "pending",
               row'[i] = Claimed(row[i], call[s].by)
        PROVE  FALSE
    <3>1. call[s].by \in Moderators
      BY <2>6 DEF TypeOK, CallOK
    <3>. QED
      BY <1>1, <2>1, <2>6, <3>1, ClaimedOK
  <2>7. RowStep(i)
    BY <1>1, RowSteps
  <2>. QED
    BY <1>1, <2>2, <2>3, <2>4, <2>5, <2>6, <2>7 DEF RowStep
<1>2. Inductive /\ [Next]_vars =>
        [\A i \in Items :
           row[i].status # "done" /\ row'[i].status = "done" /\ i \notin released
             => row[i].status = "claimed" /\ row'[i].reviewer = row[i].reviewer]_vars
  BY <1>1
<1>. QED
  BY <1>2, InductiveInvariant, PTL DEF Spec, DecidedByHolder

\* Between the SELECT that finds the oldest message and the UPDATE that claims it,
\* nothing older can come in unless a stale claim gives it back.
THEOREM HandedOutInOrder == Spec => OldestFirst
<1>1. ASSUME Inductive, [Next]_vars, NEW i \in Items, NEW j \in Items,
             row[i].status = "pending", row'[i].status = "claimed",
             row[j].status = "pending", row[j].created_at < row[i].created_at
      PROVE  j \in released
  <2>. TypeOK /\ HeldIsClaimed /\ ClaimsAreOldest
    BY <1>1 DEF Inductive
  <2>1. row[i] \in Row /\ RowOK(row[i])
    BY DEF TypeOK
  <2>2. ASSUME NEW s \in Slots, call[s].at = "claim", call[s].item = i PROVE j \in released
    BY <1>1, <2>2 DEF ClaimsAreOldest
  <2>3. CASE row[i].claimed_at = "recent" /\ row'[i] = Aged(row[i])
    BY <1>1, <2>1, <2>3, AgedOK
  <2>4. ASSUME NEW s \in Slots, call[s].at = "submit", row[i].status \in {"pending", "claimed"},
               row'[i] = Decided(row[i], call[s].by, call[s].decision)
        PROVE  FALSE
    <3>1. call[s].by \in Moderators /\ call[s].decision \in Decisions
      BY <2>4 DEF TypeOK, CallOK
    <3>. QED
      BY <1>1, <2>1, <2>4, <3>1, DecidedOK
  <2>5. RowStep(i)
    BY <1>1, RowSteps
  <2>. QED
    BY <1>1, <2>2, <2>3, <2>4, <2>5 DEF RowStep
<1>2. Inductive /\ [Next]_vars =>
        [\A i, j \in Items :
           /\ row[i].status = "pending" /\ row'[i].status = "claimed"
           /\ row[j].status = "pending" /\ row[j].created_at < row[i].created_at
           => j \in released]_vars
  BY <1>1
<1>. QED
  BY <1>2, InductiveInvariant, PTL DEF Spec, OldestFirst
===============================================================================

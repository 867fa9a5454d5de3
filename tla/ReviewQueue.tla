----------------------------- MODULE ReviewQueue ------------------------------
(***************************************************************************)
(* The human review queue: table review_items, the claim and decide        *)
(* handlers of api/app.py with the queries they make (storage/dao.py), and *)
(* the moderators' page (api/static/index.html).                           *)
(*                                                                         *)
(* Every handler runs on a connection of its own and every query commits   *)
(* by itself, so the queries of concurrent requests interleave.  A page    *)
(* does not wait for an answer before it sends the next request.           *)
(***************************************************************************)
EXTENDS Integers, FiniteSets

CONSTANTS
  Items,         \* the messages that may be escalated
  Moderators,    \* the moderators, each with one page open
  Slots,         \* bound: requests being handled at the same time
  Decisions,     \* what a moderator may answer: allow, delete
  NoItem, NoOne, NoDecision,
  MaxFailures,   \* bound: requests or answers that are lost
  MaxReloads     \* bound: pages closed and opened again

ASSUME ConstantsAssumption ==
  /\ NoItem \notin Items /\ NoOne \notin Moderators /\ NoDecision \notin Decisions
  /\ MaxFailures \in Nat /\ MaxReloads \in Nat

VARIABLES
  row,        \* review_items, one record for each item
  now,        \* the time, as far as created_at tells: one tick for each batch
  call,       \* the requests in flight
  card,       \* current: what each page shows
  released,   \* history: the items that a stale claim has ever given back
  failures, reloads

vars == <<row, now, call, card, released, failures, reloads>>

Absent == [status |-> "absent", reviewer |-> NoOne, decision |-> NoDecision,
           created_at |-> 0, claimed_at |-> "null"]

Idle == [by |-> NoOne, at |-> "idle", item |-> NoItem, decision |-> NoDecision,
         heard |-> FALSE]

\* A request is being served, or its answer is on the way: 200 with an item, 204, and
\* 200 for a decision.
Stages == {"release", "select", "claim", "submit", "handed", "empty", "accepted"}

Pending == {i \in Items : row[i].status = "pending"}
Open(i) == row[i].status \in {"pending", "claimed"}

\* Mistake: any waiting item will do.
Oldest_Any == Pending

\* ORDER BY created_at LIMIT 1: with equal timestamps the server picks.
Oldest == {i \in Pending : \A j \in Pending : row[i].created_at <= row[j].created_at}

\* What the statements make of a row, and what time does.
Enqueued(t) == [Absent EXCEPT !.status = "pending", !.created_at = t]
Claimed(r, m) == [r EXCEPT !.status = "claimed", !.reviewer = m, !.claimed_at = "recent"]
Aged(r) == [r EXCEPT !.claimed_at = "old"]
Decided(r, m, d) == [r EXCEPT !.status = "done", !.decision = d, !.reviewer = m]

\* Mistake: the claim is given back and the name stays.
GivenBack_KeepReviewer(r) == [r EXCEPT !.status = "pending", !.claimed_at = "null"]

GivenBack(r) == [r EXCEPT !.status = "pending", !.reviewer = NoOne, !.claimed_at = "null"]

Init ==
  /\ row = [i \in Items |-> Absent]
  /\ now = 0
  /\ call = [s \in Slots |-> Idle]
  /\ card = [m \in Moderators |-> NoItem]
  /\ released = {}
  /\ failures = 0 /\ reloads = 0

-------------------------------------------------------------------------------
(* A worker: enqueue_reviews.                                              *)

\* INSERT IGNORE: items that are in the table already stay as they are.
Enqueue(batch) ==
  /\ \E i \in batch : row[i].status = "absent"
  /\ now' = now + 1
  /\ row' = [i \in Items |->
               IF i \in batch /\ row[i].status = "absent" THEN Enqueued(now) ELSE row[i]]
  /\ UNCHANGED <<call, card, released, failures, reloads>>

\* Five minutes pass since claimed_at.
ClaimAges(i) ==
  /\ row[i].claimed_at = "recent"
  /\ row' = [row EXCEPT ![i] = Aged(@)]
  /\ UNCHANGED <<now, call, card, released, failures, reloads>>

-------------------------------------------------------------------------------
(* The page.  Its keys are never disabled.                                 *)

Send(s, c) == call[s] = Idle /\ call' = [call EXCEPT ![s] = c]

Unheard(c) == [c EXCEPT !.heard = FALSE]
ClaimCall(m) == [Idle EXCEPT !.by = m, !.at = "release", !.heard = TRUE]

\* nextItem(): the page loads, or the moderator presses S.
NextItem(m) ==
  /\ \E s \in Slots : Send(s, ClaimCall(m))
  /\ UNCHANGED <<row, now, card, released, failures, reloads>>

DecideCall(m, d) ==
  [by |-> m, at |-> "submit", item |-> card[m], decision |-> d, heard |-> TRUE]

\* decide(): the moderator presses A or D with an item on the card.
Decide(m, d) ==
  /\ card[m] # NoItem
  /\ \E s \in Slots : Send(s, DecideCall(m, d))
  /\ UNCHANGED <<row, now, card, released, failures, reloads>>

\* The answer to nextItem(): the card shows what came, or "All caught up".
Show(s) ==
  /\ call[s].at \in {"handed", "empty"}
  /\ card' = IF call[s].heard THEN [card EXCEPT ![call[s].by] = call[s].item] ELSE card
  /\ call' = [call EXCEPT ![s] = Idle]
  /\ UNCHANGED <<row, now, released, failures, reloads>>

\* The answer to decide(): the page asks for the next item.
Settle(s) ==
  /\ call[s].at = "accepted"
  /\ call' = [call EXCEPT ![s] = IF call[s].heard THEN ClaimCall(call[s].by) ELSE Idle]
  /\ UNCHANGED <<row, now, card, released, failures, reloads>>

\* The page is closed, and its requests go on unheard.  Opening it again is NextItem.
Reload(m) ==
  /\ reloads < MaxReloads
  /\ reloads' = reloads + 1
  /\ card' = [card EXCEPT ![m] = NoItem]
  /\ call' = [s \in Slots |-> IF call[s].by = m THEN Unheard(call[s]) ELSE call[s]]
  /\ UNCHANGED <<row, now, released, failures>>

\* The request does not arrive, a query raises, or the answer is lost.
Fail(s) ==
  /\ call[s] # Idle
  /\ failures < MaxFailures
  /\ failures' = failures + 1
  /\ call' = [call EXCEPT ![s] = Idle]
  /\ UNCHANGED <<row, now, card, released, reloads>>

-------------------------------------------------------------------------------
(* The API: claim.                                                         *)

Moved(c, stage, i) == [c EXCEPT !.at = stage, !.item = i]
Goto(s, stage, i) == call' = [call EXCEPT ![s] = Moved(@, stage, i)]

\* Mistake: every row with an old claimed_at, the finished ones too.
Stale_Any == {i \in Items : row[i].claimed_at = "old"}

\* The rows that release_stale_claims gives back.
Stale == {i \in Items : row[i].status = "claimed" /\ row[i].claimed_at = "old"}

\* Mistake: forget release_stale_claims.
ReleaseStale_Never(s) ==
  /\ call[s].at = "release"
  /\ Goto(s, "select", NoItem)
  /\ UNCHANGED <<row, now, card, released, failures, reloads>>

\* claim() gives back stale claims, everybody's, before it looks for an item.
ReleaseStale(s) ==
  /\ call[s].at = "release"
  /\ row' = [i \in Items |-> IF i \in Stale THEN GivenBack(row[i]) ELSE row[i]]
  /\ released' = released \cup Stale
  /\ Goto(s, "select", NoItem)
  /\ UNCHANGED <<now, card, failures, reloads>>

\* claim_next_item's first query.
SelectOldest(s) ==
  /\ call[s].at = "select"
  /\ IF Pending = {} THEN Goto(s, "empty", NoItem)
                     ELSE \E i \in Oldest : Goto(s, "claim", i)
  /\ UNCHANGED <<row, now, card, released, failures, reloads>>

\* Mistake: the UPDATE without AND status = 'pending'.
ClaimRow_Blind(s) ==
  LET i == call[s].item IN
    /\ call[s].at = "claim"
    /\ row' = [row EXCEPT ![i] = Claimed(@, call[s].by)]
    /\ Goto(s, "handed", i)
    /\ UNCHANGED <<now, card, released, failures, reloads>>

\* Its UPDATE: a row that is no longer pending is lost, and the answer is 204.  What
\* the last query reads of the row and the page shows never changes.
ClaimRow(s) ==
  LET i == call[s].item IN
    /\ call[s].at = "claim"
    /\ IF row[i].status = "pending"
       THEN /\ row' = [row EXCEPT ![i] = Claimed(@, call[s].by)]
            /\ Goto(s, "handed", i)
       ELSE /\ UNCHANGED row
            /\ Goto(s, "empty", NoItem)
    /\ UNCHANGED <<now, card, released, failures, reloads>>

-------------------------------------------------------------------------------
(* The API: decide.                                                        *)

Accepted(c) == [Idle EXCEPT !.by = c.by, !.at = "accepted", !.heard = c.heard]

\* submit_review: an item that is not done is decided, whoever has claimed it.  On 404
\* the page throws, and its card stays.
SubmitReview(s) ==
  LET i == call[s].item IN
    /\ call[s].at = "submit"
    /\ IF row[i].status # "done"
       THEN /\ row' = [row EXCEPT ![i] = Decided(@, call[s].by, call[s].decision)]
            /\ call' = [call EXCEPT ![s] = Accepted(call[s])]
       ELSE /\ UNCHANGED row
            /\ call' = [call EXCEPT ![s] = Idle]
    /\ UNCHANGED <<now, card, released, failures, reloads>>

-------------------------------------------------------------------------------
Serve(s) ==
  \/ ReleaseStale(s) \/ SelectOldest(s) \/ ClaimRow(s) \/ SubmitReview(s)

Next ==
  \/ \E batch \in SUBSET Items : Enqueue(batch)
  \/ \E i \in Items : ClaimAges(i)
  \/ \E m \in Moderators : \/ NextItem(m) \/ Reload(m)
                           \/ \E d \in Decisions : Decide(m, d)
  \/ \E s \in Slots : Serve(s) \/ Show(s) \/ Settle(s) \/ Fail(s)

Spec == Init /\ [][Next]_vars

(***************************************************************************)
(* Fairness.  The API answers, time passes, and every moderator works: one *)
(* who again and again has an open item on the card decides one of them in *)
(* the end, and one whose card is empty or already decided asks for        *)
(* another.  Nothing in the page asks by itself once it is "caught up".    *)
(***************************************************************************)
Fairness ==
  /\ \A s \in Slots : WF_vars(Serve(s)) /\ WF_vars(Show(s)) /\ WF_vars(Settle(s))
  /\ \A i \in Items : WF_vars(ClaimAges(i))
  /\ \A m \in Moderators :
       /\ SF_vars(\E d \in Decisions : Decide(m, d) /\ Open(card[m]))
       /\ SF_vars(NextItem(m) /\ (card[m] = NoItem \/ ~Open(card[m])))

FairSpec == Spec /\ Fairness

-------------------------------------------------------------------------------
(* Properties.                                                             *)

Row == [status : {"absent", "pending", "claimed", "done"},
        reviewer : Moderators \cup {NoOne}, decision : Decisions \cup {NoDecision},
        created_at : Nat, claimed_at : {"null", "recent", "old"}]

Call == [by : Moderators \cup {NoOne}, at : {"idle"} \cup Stages,
         item : Items \cup {NoItem}, decision : Decisions \cup {NoDecision},
         heard : BOOLEAN]

\* The columns of a row agree with its status.
RowOK(r) ==
  /\ r.status \in {"absent", "pending"} => r.reviewer = NoOne /\ r.claimed_at = "null"
  /\ r.status = "claimed" => r.reviewer # NoOne /\ r.claimed_at # "null"
  /\ r.status = "done" <=> r.decision # NoDecision

\* What the code may rely on about a request, given how far it is.
CallOK(c) ==
  /\ c.at # "idle" => c.by \in Moderators
  /\ c.at \in {"claim", "handed", "submit"} =>
       c.item \in Items /\ row[c.item].status # "absent"
  /\ c.at = "empty" => c.item = NoItem
  /\ c.at = "submit" => c.decision \in Decisions

\* Every variable has its type, the columns of every row agree with each other, and no
\* request or card names a row that is not there.
TypeOK ==
  /\ row \in [Items -> Row] /\ \A i \in Items : RowOK(row[i])
  /\ now \in Nat
  /\ call \in [Slots -> Call] /\ \A s \in Slots : CallOK(call[s])
  /\ card \in [Moderators -> Items \cup {NoItem}]
  /\ \A m \in Moderators : card[m] # NoItem => row[card[m]].status # "absent"
  /\ released \in SUBSET Items
  /\ failures \in Nat /\ reloads \in Nat

\* No two moderators have the same undecided message in front of them, unless its claim
\* has been given back as stale, whatever requests overlap, fail or are repeated.
NoDoubleHold ==
  \A m, n \in Moderators :
    m # n /\ card[m] = card[n] /\ card[m] # NoItem /\ Open(card[m]) => card[m] \in released

Holds(m, i) ==
  \/ card[m] = i
  \/ \E s \in Slots : /\ call[s].by = m /\ call[s].item = i
                      /\ call[s].at \in {"handed", "submit"}

\* What makes it so: an undecided message that was never given back, and that is on a
\* moderator's card, on its way there, or in an answer of theirs, is claimed by them.
HeldIsClaimed ==
  \A m \in Moderators, i \in Items :
    Holds(m, i) /\ Open(i) /\ i \notin released
      => row[i].status = "claimed" /\ row[i].reviewer = m

\* What keeps the order: a request that has chosen a message and not yet claimed it has
\* chosen one that is older than everything that waits, apart from what was given back.
ClaimsAreOldest ==
  /\ \A i \in Items : row[i].status # "absent" => row[i].created_at < now
  /\ \A s \in Slots, j \in Items :
       /\ call[s].at = "claim" /\ row[j].status = "pending"
       /\ row[j].created_at < row[call[s].item].created_at
       => j \in released

Inductive == TypeOK /\ HeldIsClaimed /\ ClaimsAreOldest

\* A message that was never given back is decided by the moderator who claimed it, while
\* they hold it: submit_review does not ask, and does not need to.
DecidedByHolder ==
  [][\A i \in Items :
       row[i].status # "done" /\ row'[i].status = "done" /\ i \notin released
         => row[i].status = "claimed" /\ row'[i].reviewer = row[i].reviewer]_vars

\* A human decision is final: neither a second answer, nor a stale claim, nor a replay
\* of the message by a worker changes it.
DecisionIsFinal ==
  [][\A i \in Items :
       row[i].status = "done" => /\ row'[i].status = "done"
                                 /\ row'[i].decision = row[i].decision
                                 /\ row'[i].reviewer = row[i].reviewer]_vars

\* Messages are handed out oldest first: when one is claimed, no older one is waiting
\* that was not given back in between.
OldestFirst ==
  [][\A i, j \in Items :
       /\ row[i].status = "pending" /\ row'[i].status = "claimed"
       /\ row[j].status = "pending" /\ row[j].created_at < row[i].created_at
       => j \in released]_vars

\* Every message that waits for a human is decided in the end, even if pages are
\* reloaded, requests fail and claims go stale on the way.
EveryItemDecided == \A i \in Items : row[i].status = "pending" ~> row[i].status = "done"

\* A page is told that there is nothing to review only when nothing is waiting.  Not
\* kept: a page that loses the race for the oldest message is told the same.
CaughtUpMeansEmpty ==
  [][\A s \in Slots : call[s].at # "empty" /\ call'[s].at = "empty" => Pending = {}]_vars
===============================================================================

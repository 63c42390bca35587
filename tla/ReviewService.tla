---------------------------- MODULE ReviewService ----------------------------
(***************************************************************************)
(* The reviews of one product (modules/review): written by customers who    *)
(* bought it, voted helpful, approved or rejected by moderators.  Reviews   *)
(* of different products share no row.  A moderation is a database          *)
(* transaction of several statements (READ COMMITTED): between them it      *)
(* holds the lock on its review and sees what others commit, not what they  *)
(* are about to.                                                           *)
(***************************************************************************)
EXTENDS Naturals, FiniteSets, FiniteSetsExt

CONSTANTS
  Customers,    (* the customers to whom the product was delivered          *)
  Stars,        (* the ratings they give                                    *)
  Reviewing     (* the calls in progress                                    *)

ASSUME ReviewAssumption == Stars \subseteq 1..5 /\ IsFiniteSet(Customers)

VARIABLES
  review,   (* review[u]: the review of customer u, of this product          *)
  votes,    (* the ReviewVote rows <<author, voter>>                        *)
  rating,   (* Product.ratingCount and ratingAverage, in hundredths          *)
  task      (* task[r]: where call r is, and what it holds                   *)

reviewVars == <<review, votes, rating, task>>

NoReview == [status |-> "none", stars |-> 0, helpfulCount |-> 0]
Status == {"PENDING", "APPROVED", "REJECTED"}

Unrated == [count |-> 0, average |-> 0]

(* missed is history: a moderation committed since this one's aggregate.     *)
NoTask == [pc |-> "idle", by |-> "nobody", of |-> "nobody", stars |-> 0,
           status |-> "none", agg |-> Unrated, missed |-> FALSE]

Written == {u \in Customers : review[u] # NoReview}

(* The aggregate of recomputeAggregate over the approved reviews; the       *)
(* average is rounded half up.                                              *)
RatingOf(status) ==
  LET approved == {u \in Customers : status[u] = "APPROVED"}
      n == Cardinality(approved)
      total == MapThenSumSet(LAMBDA u : review[u].stars, approved)
  IN IF n = 0 THEN Unrated ELSE [count |-> n, average |-> (200 * total + n) \div (2 * n)]

Committed == [u \in Customers |-> review[u].status]

InTransaction(r) == task[r].pc \in {"aggregate", "write"}
Locked(u) == \E r \in Reviewing : InTransaction(r) /\ task[r].of = u

-----------------------------------------------------------------------------
Become(r, t) == task' = [task EXCEPT ![r] = t]
End(r) == Become(r, NoTask)

(* create: the checks, then the row; the key (product, customer) is unique.  *)
CreateReview(r, u, s) ==
  /\ task[r].pc = "idle" /\ review[u] = NoReview
  /\ Become(r, [NoTask EXCEPT !.pc = "insert", !.of = u, !.stars = s])
  /\ UNCHANGED <<review, votes, rating>>

InsertReview(r) ==
  /\ task[r].pc = "insert"
  /\ review' = [review EXCEPT ![task[r].of] =
                  IF @ = NoReview
                  THEN [NoReview EXCEPT !.status = "PENDING", !.stars = task[r].stars]
                  ELSE @]
  /\ End(r)
  /\ UNCHANGED <<votes, rating>>

(* voteHelpful: the review is approved and not voted for when it is read.    *)
VoteHelpful(r, u, a) ==
  /\ task[r].pc = "idle"
  /\ review[a].status = "APPROVED" /\ <<a, u>> \notin votes
  /\ Become(r, [NoTask EXCEPT !.pc = "vote", !.by = u, !.of = a])
  /\ UNCHANGED <<review, votes, rating>>

(* Mutant: the vote is an upsert, which a repeat passes.                    *)
CastVote_mutant(r) ==
  LET a == task[r].of IN
  /\ task[r].pc = "vote" /\ ~Locked(a)
  /\ votes' = votes \cup {<<a, task[r].by>>}
  /\ review' = [review EXCEPT ![a].helpfulCount = @ + 1]
  /\ End(r)
  /\ UNCHANGED rating

(* Its transaction waits for a moderation of the same review; the key       *)
(* (review, voter) aborts a repeat.                                         *)
CastVote(r) ==
  LET a == task[r].of IN
  /\ task[r].pc = "vote" /\ ~Locked(a)
  /\ \/ /\ <<a, task[r].by>> \notin votes
        /\ votes' = votes \cup {<<a, task[r].by>>}
        /\ review' = [review EXCEPT ![a].helpfulCount = @ + 1]
     \/ /\ <<a, task[r].by>> \in votes
        /\ UNCHANGED <<review, votes>>
  /\ End(r)
  /\ UNCHANGED rating

-----------------------------------------------------------------------------
(* moderate (approve, reject) finds the review.                             *)
Moderate(r, a, status) ==
  /\ task[r].pc = "idle" /\ review[a] # NoReview
  /\ Become(r, [NoTask EXCEPT !.pc = "moderate", !.of = a, !.status = status])
  /\ UNCHANGED <<review, votes, rating>>

(* The transaction begins with the review's row, which it locks.            *)
UpdateReview(r) ==
  /\ task[r].pc = "moderate" /\ ~Locked(task[r].of)
  /\ Become(r, [task[r] EXCEPT !.pc = "aggregate"])
  /\ UNCHANGED <<review, votes, rating>>

(* Mutant: the aggregate does not see the transaction's own update.         *)
Aggregate_mutant(r) ==
  /\ task[r].pc = "aggregate"
  /\ Become(r, [task[r] EXCEPT !.pc = "write", !.agg = RatingOf(Committed)])
  /\ UNCHANGED <<review, votes, rating>>

(* recomputeAggregate reads what is committed, and its own update.          *)
Aggregate(r) ==
  /\ task[r].pc = "aggregate"
  /\ Become(r, [task[r] EXCEPT !.pc = "write",
                  !.agg = RatingOf([Committed EXCEPT ![task[r].of] = task[r].status])])
  /\ UNCHANGED <<review, votes, rating>>

(* It writes the product and commits.  The product's row lock is held only  *)
(* from this write to the commit, so that the two are one step.             *)
CommitModeration(r) ==
  /\ task[r].pc = "write"
  /\ review' = [review EXCEPT ![task[r].of].status = task[r].status]
  /\ rating' = task[r].agg
  /\ task' = [q \in Reviewing |->
                IF q = r THEN NoTask ELSE [task[q] EXCEPT !.missed = @ \/ task[q].pc = "write"]]
  /\ UNCHANGED votes

(* A restart, or a transaction that times out, is rolled back.              *)
RollBack(r) ==
  /\ task[r].pc # "idle"
  /\ End(r)
  /\ UNCHANGED <<review, votes, rating>>

-----------------------------------------------------------------------------
ReviewInit ==
  /\ review = [u \in Customers |-> NoReview]
  /\ votes = {} /\ rating = Unrated
  /\ task = [r \in Reviewing |-> NoTask]

StepReview(r) ==
  \/ InsertReview(r) \/ CastVote(r)
  \/ UpdateReview(r) \/ Aggregate(r) \/ CommitModeration(r) \/ RollBack(r)

ReviewNext ==
  \E r \in Reviewing :
    \/ StepReview(r)
    \/ \E u \in Customers, s \in Stars : CreateReview(r, u, s)
    \/ \E u, a \in Customers : VoteHelpful(r, u, a)
    \/ \E a \in Customers, status \in {"APPROVED", "REJECTED"} : Moderate(r, a, status)

ReviewSpec == ReviewInit /\ [][ReviewNext]_reviewVars

-----------------------------------------------------------------------------
(* voteHelpful promises "a repeat vote is a no-op": whatever calls of one    *)
(* customer run at once, a review counts each voter once.                   *)
HelpfulCountsVoters ==
  \A a \in Customers : review[a].helpfulCount = Cardinality({u \in Customers : <<a, u>> \in votes})

(* A moderation that no other crossed leaves the product with exactly the    *)
(* rating of its approved reviews, its own decision included, and thereby    *)
(* repairs what an earlier crossing left behind.                            *)
RatingCatchesUp ==
  [][\A r \in Reviewing :
       CommitModeration(r) /\ ~task[r].missed => rating' = RatingOf(Committed)']_reviewVars
=============================================================================

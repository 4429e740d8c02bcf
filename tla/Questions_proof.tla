-------------------------- MODULE Questions_proof --------------------------
(***************************************************************************)
(* Proofs about Questions, for any runs, requests, skills, plugins and     *)
(* settings and any number of answers and steps.                           *)
(*                                                                         *)
(* First the queues: which skills are asked about is left open, only that  *)
(* it depends on the request of the run is used.  Then the selection of    *)
(* skills, fold by fold: what is offered was asked for, and who is named   *)
(* is offered.  A fold is a function on the sets of places of a sequence,  *)
(* and what it computes is proved by induction on how many it has passed,  *)
(* which is the smallest element of a well-founded order.                  *)
(***************************************************************************)
EXTENDS Questions, FiniteSetTheorems, WellFoundedInduction, TLAPS

\* Each run has its fields, and the queues hold runs.
Shaped ==
  /\ DOMAIN run = Runs
  /\ \A r \in Runs : DOMAIN run[r] = DOMAIN Unborn
  /\ clarifies \subseteq Runs /\ DOMAIN confirms \subseteq Runs

IInv == Shaped /\ QueuesAreWaits

\* The point a run is at, in terms of which the queues are right.
Waits(r, pc) == run[r].pc = pc /\ ~run[r].aborted /\ Request(r).surface = "http"
RightFor(r) ==
  /\ r \in clarifies <=> Waits(r, "clarifying")
  /\ r \in DOMAIN confirms <=> Waits(r, "confirming")
  /\ r \in DOMAIN confirms => confirms[r] = Asked(r)[run[r].at].name

\* QueuesAreWaits says this of each run.
LEMMA RightForAll == QueuesAreWaits <=> \A r \in Runs : RightFor(r)
BY DEF QueuesAreWaits, RightFor, Waits

\* What the other runs have to do with a step of one: nothing.
OthersStay(r) ==
  \A q \in Runs \ {r} :
    /\ run'[q] = run[q]
    /\ q \in clarifies' <=> q \in clarifies
    /\ q \in DOMAIN confirms' <=> q \in DOMAIN confirms
    /\ q \in DOMAIN confirms => confirms'[q] = confirms[q]

\* A step of one run keeps the invariant when it keeps it for that run.
LEMMA OneRun ==
  ASSUME IInv, NEW r \in Runs, Shaped', OthersStay(r), RightFor(r)'
  PROVE  IInv'
<1>1. ASSUME NEW q \in Runs \ {r} PROVE RightFor(q)'
  <2>1. RightFor(q) /\ run'[q] = run[q]
    BY RightForAll DEF IInv, OthersStay
  <2>2. Asked(q)' = Asked(q) /\ Request(q)' = Request(q)
    BY <2>1 DEF Asked, Request, RunPolicy
  <2> QED
    BY <2>1, <2>2 DEF RightFor, Waits, OthersStay
<1>2. \A q \in Runs : RightFor(q)'
  BY <1>1
<1>3. QueuesAreWaits'
  BY <1>2 DEF QueuesAreWaits, RightFor, Waits
<1> QED
  BY <1>3 DEF IInv

\* A step after which the run keeps its request and waits for nothing, and no queue holds it.
Idles(r) ==
  /\ DOMAIN run' = Runs /\ DOMAIN run'[r] = DOMAIN Unborn
  /\ run'[r].pc \notin {"clarifying", "confirming"}
  /\ clarifies' = clarifies \ {r}
  /\ DOMAIN confirms' = DOMAIN confirms \ {r}
  /\ \A q \in Runs \ {r} : run'[q] = run[q] /\ (q \in DOMAIN confirms => confirms'[q] = confirms[q])

LEMMA IdleStep ==
  ASSUME IInv, NEW r \in Runs, Idles(r)
  PROVE  IInv'
<1>1. Shaped'
  BY DEF Idles, Shaped, IInv
<1>2. OthersStay(r)
  BY DEF Idles, OthersStay
<1>3. RightFor(r)'
  BY DEF Idles, RightFor, Waits
<1> QED
  BY <1>1, <1>2, <1>3, OneRun

\* A run that does not wait, goes on and still does not.
LEMMA GoesOn ==
  ASSUME IInv, NEW r \in Runs, run[r].pc \notin {"clarifying", "confirming"},
         DOMAIN run' = Runs, DOMAIN run'[r] = DOMAIN Unborn,
         \A q \in Runs \ {r} : run'[q] = run[q],
         run'[r].pc \notin {"clarifying", "confirming"},
         UNCHANGED <<clarifies, confirms>>
  PROVE  IInv'
<1>1. RightFor(r)
  BY RightForAll DEF IInv
<1>2. r \notin clarifies /\ r \notin DOMAIN confirms
  BY <1>1 DEF RightFor, Waits
<1> QED
  BY <1>2, IdleStep DEF Idles

\* A model step changes what the run offers.
LEMMA ModelStepFacts ==
  ASSUME NEW r, ModelStep(r)
  PROVE  /\ run[r].pc = "stepping" /\ UNCHANGED <<clarifies, confirms>>
         /\ \E offer : Offer(r, offer)
<1>1. run[r].pc = "stepping" /\ UNCHANGED <<clarifies, confirms>>
  BY DEF ModelStep
<1>2. PICK planning \in BOOLEAN, closing \in BOOLEAN,
          gated \in {MutationsGated(r, calls, modified) : calls \in SUBSET Calls, modified \in BOOLEAN} :
        /\ planning => Request(r).mode \in EditModes
        /\ Offer(r, StepOffer(r, planning, closing, gated))
  BY DEF ModelStep
<1> QED
  BY <1>1, <1>2

\* The steps of a run in which no question is asked and none is answered.
LEMMA QuietSteps ==
  ASSUME IInv, NEW r \in Runs,
         \/ Start(r) \/ RequestClarify(r) \/ TakeClarification(r) \/ RequestConfirm(r)
         \/ TakeConfirmations(r) \/ ModelStep(r) \/ ModelReplies(r) \/ End(r)
  PROVE  IInv'
<1>0. DOMAIN run = Runs /\ DOMAIN run[r] = DOMAIN Unborn
  BY DEF IInv, Shaped
<1>1. run[r].pc \notin {"clarifying", "confirming"} /\ UNCHANGED <<clarifies, confirms>>
  <2>1. CASE ModelStep(r)
    BY <2>1, ModelStepFacts
  <2>2. CASE End(r)
    BY <2>2 DEF End
  <2> QED
    BY <2>1, <2>2 DEF Start, RequestClarify, TakeClarification, RequestConfirm, TakeConfirmations,
                      ModelReplies
<1>2. /\ DOMAIN run' = Runs /\ DOMAIN run'[r] = DOMAIN Unborn
      /\ \A q \in Runs \ {r} : run'[q] = run[q]
      /\ run'[r].pc \notin {"clarifying", "confirming"}
  <2>1. CASE Start(r)
    BY <1>0, <2>1 DEF Start, Unborn
  <2>2. ASSUME NEW pc \in {"clarify", "choose", "stepping", "confirm"}, Goes(r, pc)
        PROVE  /\ DOMAIN run' = Runs /\ DOMAIN run'[r] = DOMAIN Unborn
               /\ \A q \in Runs \ {r} : run'[q] = run[q]
               /\ run'[r].pc \notin {"clarifying", "confirming"}
    BY <1>0, <2>2 DEF Goes, Unborn
  <2>3. CASE \/ RequestClarify(r) \/ TakeClarification(r) \/ RequestConfirm(r)
             \/ TakeConfirmations(r) \/ ModelReplies(r)
    <3>1. \E pc \in {"clarify", "choose", "stepping", "confirm"} : Goes(r, pc)
      BY <2>3 DEF RequestClarify, TakeClarification, RequestConfirm, TakeConfirmations,
                  ModelReplies
    <3> QED
      BY <2>2, <3>1
  <2>4. CASE ModelStep(r)
    <3>1. PICK offer : Offer(r, offer)
      BY <2>4, ModelStepFacts
    <3>2. run[r].pc = "stepping"
      BY <2>4, ModelStepFacts
    <3> QED
      BY <1>0, <3>1, <3>2 DEF Unborn, Offer
  <2>5. CASE End(r)
    BY <1>0, <2>5 DEF End, Unborn
  <2> QED
    BY <2>1, <2>3, <2>4, <2>5
<1> QED
  BY <1>0, <1>1, <1>2, GoesOn

\* The question about the task: an aborted run fails without it, one of the server waits in
\* the queue.
LEMMA AskClarifyStep ==
  ASSUME IInv, NEW r \in Runs, AskClarify(r)
  PROVE  IInv'
<1>0. /\ DOMAIN run = Runs /\ DOMAIN run[r] = DOMAIN Unborn /\ RightFor(r)
      /\ clarifies \subseteq Runs /\ DOMAIN confirms \subseteq Runs
  BY RightForAll DEF IInv, Shaped
<1>1. run[r].pc = "clarify" /\ UNCHANGED confirms
  BY DEF AskClarify
<1>2. r \notin clarifies /\ r \notin DOMAIN confirms
  BY <1>0, <1>1 DEF RightFor, Waits
<1>3. CASE run[r].aborted
  <2>1. clarifies' = clarifies /\ Goes(r, "failing")
    BY <1>3 DEF AskClarify, MayQueue
  <2> QED
    BY <1>0, <1>1, <2>1, GoesOn DEF Goes, Unborn
<1>4. CASE ~run[r].aborted
  <2>1. Goes(r, "clarifying")
    BY <1>4 DEF AskClarify
  <2>2. /\ DOMAIN run' = Runs /\ DOMAIN run'[r] = DOMAIN Unborn
        /\ \A q \in Runs \ {r} : run'[q] = run[q]
        /\ run'[r].pc = "clarifying" /\ run'[r].request = run[r].request
        /\ run'[r].aborted = run[r].aborted
    BY <1>0, <2>1 DEF Goes, Unborn
  <2>3. clarifies' = IF Request(r).surface = "http" THEN clarifies \cup {r} ELSE clarifies
    BY <1>4 DEF AskClarify, MayQueue
  <2>4. Shaped' /\ OthersStay(r)
    BY <1>0, <1>1, <2>2, <2>3 DEF IInv, Shaped, OthersStay
  <2>5. ~run'[r].aborted
    BY <1>4, <2>2
  <2>6. Request(r)' = Request(r)
    BY <2>2 DEF Request
  <2>7. RightFor(r)'
    BY <1>1, <1>2, <2>2, <2>3, <2>5, <2>6 DEF RightFor, Waits
  <2> QED
    BY <2>4, <2>7, OneRun
<1> QED
  BY <1>3, <1>4

\* An answer to the question about the task takes the run out of the queue.
LEMMA ClarifiedStep ==
  ASSUME IInv, NEW r \in Runs, run' = Clarified(r), clarifies' = clarifies \ {r},
         UNCHANGED confirms, run[r].pc = "clarifying"
  PROVE  IInv'
<1>0. DOMAIN run = Runs /\ DOMAIN run[r] = DOMAIN Unborn /\ RightFor(r)
  BY RightForAll DEF IInv, Shaped
<1>1. r \notin DOMAIN confirms
  BY <1>0 DEF RightFor, Waits
<1>2. /\ DOMAIN run' = Runs /\ DOMAIN run'[r] = DOMAIN Unborn /\ run'[r].pc = "clarified"
      /\ \A q \in Runs \ {r} : run'[q] = run[q]
  BY <1>0 DEF Clarified, Unborn
<1> QED
  BY <1>1, <1>2, IdleStep DEF Idles

\* The k-th question about a skill, or the end of them.
LEMMA QuestionStep ==
  ASSUME IInv, NEW r \in Runs, NEW k, NEW confirmed, ~run[r].aborted, r \notin clarifies,
         run' = Question(r, k, confirmed), confirms' = Queued(r, k), UNCHANGED clarifies
  PROVE  IInv'
<1>0. /\ DOMAIN run = Runs /\ DOMAIN run[r] = DOMAIN Unborn
      /\ clarifies \subseteq Runs /\ DOMAIN confirms \subseteq Runs
  BY DEF IInv, Shaped
<1> DEFINE more == k <= Len(Asked(r))
<1>1. PICK pc : pc = IF more THEN "confirming" ELSE "confirmed"
  OBVIOUS
<1>2. run' = [run EXCEPT ![r].at = k, ![r].confirmed = confirmed, ![r].pc = pc]
  BY <1>1 DEF Question
<1>3. /\ DOMAIN run' = Runs /\ DOMAIN run'[r] = DOMAIN Unborn
      /\ \A q \in Runs \ {r} : run'[q] = run[q]
      /\ run'[r].pc = pc /\ run'[r].request = run[r].request /\ run'[r].at = k
      /\ run'[r].aborted = run[r].aborted
  BY <1>0, <1>2 DEF Unborn
<1>4. ~run'[r].aborted /\ Request(r)' = Request(r) /\ Asked(r)' = Asked(r)
  BY <1>3 DEF Request, Asked, RunPolicy
<1> DEFINE asks == Request(r).surface = "http" /\ more
<1>5. confirms' = [q \in (DOMAIN confirms \ {r}) \cup (IF asks THEN {r} ELSE {}) |->
                     IF q = r THEN Asked(r)[k].name ELSE confirms[q]]
  BY DEF Queued
<1>6. /\ DOMAIN confirms' = (DOMAIN confirms \ {r}) \cup (IF asks THEN {r} ELSE {})
      /\ \A q \in DOMAIN confirms \ {r} : confirms'[q] = confirms[q]
      /\ asks => confirms'[r] = Asked(r)[k].name
  BY <1>5
<1>7. Shaped' /\ OthersStay(r)
  BY <1>0, <1>3, <1>6 DEF IInv, Shaped, OthersStay
<1> HIDE DEF more
<1>8. RightFor(r)'
  BY <1>1, <1>3, <1>4, <1>6 DEF RightFor, Waits
<1> QED
  BY <1>7, <1>8, OneRun

\* The first question about a skill.
LEMMA AskConfirmStep ==
  ASSUME IInv, NEW r \in Runs, AskConfirm(r)
  PROVE  IInv'
<1>0. DOMAIN run = Runs /\ DOMAIN run[r] = DOMAIN Unborn /\ RightFor(r)
  BY RightForAll DEF IInv, Shaped
<1>1. run[r].pc = "confirm" /\ UNCHANGED clarifies
  BY DEF AskConfirm
<1>2. r \notin clarifies
  BY <1>0, <1>1 DEF RightFor, Waits
<1>3. CASE run[r].aborted
  <2>1. confirms' = confirms /\ Goes(r, "failing")
    BY <1>3 DEF AskConfirm, MayQueue
  <2> QED
    BY <1>0, <1>1, <2>1, GoesOn DEF Goes, Unborn
<1>4. CASE ~run[r].aborted
  <2>1. run' = Question(r, 1, <<>>) /\ confirms' = Queued(r, 1)
    BY <1>4 DEF AskConfirm, MayQueue
  <2> QED
    BY <1>1, <1>2, <1>4, <2>1, QuestionStep
<1> QED
  BY <1>3, <1>4

\* A run at a terminal is in no queue, and its next question is in none either.
LEMMA TypeConfirmationStep ==
  ASSUME IInv, NEW r \in Runs, TypeConfirmation(r)
  PROVE  IInv'
<1>0. /\ DOMAIN run = Runs /\ DOMAIN run[r] = DOMAIN Unborn /\ RightFor(r)
      /\ clarifies \subseteq Runs /\ DOMAIN confirms \subseteq Runs
  BY RightForAll DEF IInv, Shaped
<1>1. Request(r).surface # "http" /\ UNCHANGED <<clarifies, confirms>>
  BY DEF TypeConfirmation, AtTerminal
<1>2. r \notin clarifies /\ r \notin DOMAIN confirms
  BY <1>0, <1>1 DEF RightFor, Waits
<1>3. PICK yes \in BOOLEAN : run' = Question(r, run[r].at + 1, Confirmed(r, yes))
  BY DEF TypeConfirmation
<1>4. PICK k, confirmed, pc :
        run' = [run EXCEPT ![r].at = k, ![r].confirmed = confirmed, ![r].pc = pc]
  BY <1>3, Zenon DEF Question
<1>5. /\ DOMAIN run' = Runs /\ DOMAIN run'[r] = DOMAIN Unborn
      /\ \A q \in Runs \ {r} : run'[q] = run[q]
      /\ run'[r].request = run[r].request
  BY <1>0, <1>4 DEF Unborn
<1>6. Request(r)' = Request(r)
  BY <1>5 DEF Request
<1>7. Shaped' /\ OthersStay(r)
  BY <1>0, <1>1, <1>5 DEF IInv, Shaped, OthersStay
<1>8. RightFor(r)'
  BY <1>1, <1>2, <1>6 DEF RightFor, Waits
<1> QED
  BY <1>7, <1>8, OneRun

\* An aborted run leaves both queues.
LEMMA AbortStep ==
  ASSUME IInv, NEW r \in Runs, Abort(r)
  PROVE  IInv'
<1>0. /\ DOMAIN run = Runs /\ DOMAIN run[r] = DOMAIN Unborn
  BY DEF IInv, Shaped
<1>1. run' = [run EXCEPT ![r].aborted = TRUE, ![r].pc = AbortedWait(r)]
      /\ clarifies' = clarifies \ {r}
      /\ confirms' = [q \in DOMAIN confirms \ {r} |-> confirms[q]]
  BY DEF Abort, Restrict
<1>2. PICK pc : pc = AbortedWait(r)
  OBVIOUS
<1>3. pc \notin {"clarifying", "confirming"}
  BY <1>2 DEF AbortedWait
<1>4. /\ DOMAIN run' = Runs /\ DOMAIN run'[r] = DOMAIN Unborn /\ run'[r].pc = pc
      /\ \A q \in Runs \ {r} : run'[q] = run[q]
  BY <1>0, <1>1, <1>2 DEF Unborn
<1>5. /\ DOMAIN confirms' = DOMAIN confirms \ {r}
      /\ \A q \in DOMAIN confirms \ {r} : confirms'[q] = confirms[q]
  BY <1>1
<1> QED
  BY <1>1, <1>3, <1>4, <1>5, IdleStep DEF Idles

\* An answer of a client takes a run on that waits for it, and no other.
LEMMA DeliverStep ==
  ASSUME IInv, NEW post, DeliverClarification(post) \/ DeliverConfirmation(post)
  PROVE  IInv'
<1> DEFINE r == post.run
<1>0. clarifies \subseteq Runs /\ DOMAIN confirms \subseteq Runs
  BY DEF IInv, Shaped
<1>1. CASE UNCHANGED <<run, clarifies, confirms>>
  BY <1>1 DEF IInv, Shaped, QueuesAreWaits, Request, Asked, RunPolicy
<1>2. CASE /\ r \in clarifies /\ clarifies' = clarifies \ {r} /\ run' = Clarified(r)
           /\ UNCHANGED confirms
  <2>1. r \in Runs /\ RightFor(r)
    BY <1>0, <1>2, RightForAll DEF IInv
  <2>2. run[r].pc = "clarifying"
    BY <1>2, <2>1 DEF RightFor, Waits
  <2> QED
    BY <1>2, <2>1, <2>2, ClarifiedStep
<1>3. CASE /\ r \in DOMAIN confirms /\ confirms' = Queued(r, run[r].at + 1)
           /\ run' = Question(r, run[r].at + 1, Confirmed(r, post.yes))
           /\ UNCHANGED clarifies
  <2>1. r \in Runs /\ RightFor(r)
    BY <1>0, <1>3, RightForAll DEF IInv
  <2>2. r \notin clarifies /\ ~run[r].aborted
    BY <1>3, <2>1 DEF RightFor, Waits
  <2> QED
    BY <1>3, <2>1, <2>2, QuestionStep
<1> QED
  BY <1>1, <1>2, <1>3 DEF DeliverClarification, DeliverConfirmation

-----------------------------------------------------------------------------
(* The invariant.                                                          *)

LEMMA NextInv == IInv /\ [Next]_vars => IInv'
<1> SUFFICES ASSUME IInv, [Next]_vars PROVE IInv'
  OBVIOUS
<1>1. CASE UNCHANGED <<run, clarifies, confirms>>
  BY <1>1 DEF IInv, Shaped, QueuesAreWaits, Request, Asked, RunPolicy
<1>2. ASSUME NEW r \in Runs, TypeClarification(r) PROVE IInv'
  <2>1. run[r].pc = "clarifying" /\ run' = Clarified(r) /\ UNCHANGED <<clarifies, confirms>>
        /\ Request(r).surface # "http"
    BY <1>2 DEF TypeClarification, AtTerminal
  <2>2. r \notin clarifies
    BY <2>1, RightForAll DEF IInv, RightFor, Waits
  <2>3. clarifies' = clarifies \ {r}
    BY <2>1, <2>2
  <2> QED
    BY <2>1, <2>3, ClarifiedStep
<1>3. ASSUME NEW r \in Runs,
             Start(r) \/ RunStep(r) \/ ModelStep(r) \/ Abort(r) \/ TypeConfirmation(r)
      PROVE  IInv'
  BY <1>3, QuietSteps, AskClarifyStep, AskConfirmStep, AbortStep, TypeConfirmationStep
     DEF RunStep
<1>4. ASSUME NEW r \in Runs, SendAnswer(r) PROVE UNCHANGED <<run, clarifies, confirms>>
  BY <1>4 DEF SendAnswer
<1>5. CASE UNCHANGED vars
  BY <1>1, <1>5 DEF vars
<1>6. CASE Next
  BY <1>1, <1>2, <1>3, <1>4, <1>6, DeliverStep DEF Next
<1> QED
  BY <1>5, <1>6

\* Whatever is asked, answered late or twice and aborted at any point, runs and queues agree.
THEOREM Invariance == Spec => []IInv
<1>1. Init => IInv
  BY DEF Init, IInv, Shaped, QueuesAreWaits, Unborn
<1> QED
  BY <1>1, NextInv, PTL DEF Spec

\* A queue of the server holds exactly the runs that wait for an answer to that question.
THEOREM QueuesRight == Spec => []QueuesAreWaits
BY Invariance, PTL DEF IInv

-----------------------------------------------------------------------------
(* Folds.  Induction on numbers is the least element of a well-founded     *)
(* order; a fold is a function on the sets of places of a sequence.        *)

Smaller == {pair \in Nat \X Nat : pair[1] < pair[2]}

\* A set of numbers has a least one.
LEMMA SmallerWellFounded == IsWellFoundedOn(Smaller, Nat)
<1>1. OpToRel(<, Nat) = Smaller
  BY Zenon DEF OpToRel, Smaller
<1> QED
  BY <1>1, NatLessThanWellFounded, Zenon

\* What holds at 0 and is handed on holds up to n.
LEMMA Reaches ==
  ASSUME NEW n \in Nat, NEW G, 0 \in G, \A k \in 1..n : k - 1 \in G => k \in G
  PROVE  n \in G
<1> SUFFICES ASSUME n \notin G PROVE FALSE
  OBVIOUS
<1> DEFINE T == {k \in 0..n : k \notin G}
<1>1. T \subseteq Nat /\ T # {}
  OBVIOUS
<1>2. PICK m \in T : \A k \in T : ~ (<<k, m>> \in Smaller)
  <2> HIDE DEF T
  <2> QED
    BY <1>1, SmallerWellFounded, WFMin, Zenon
<1>3. ASSUME NEW k \in T PROVE ~(k < m)
  <2>1. <<k, m>> \in Nat \X Nat /\ ~ (<<k, m>> \in Smaller)
    BY <1>2
  <2>2. <<k, m>>[1] = k /\ <<k, m>>[2] = m
    OBVIOUS
  <2> QED
    BY <2>1, <2>2 DEF Smaller
<1>4. m \in 1..n /\ m - 1 \notin T /\ m - 1 \in 0..n
  BY <1>3
<1> QED
  BY <1>4

\* The largest number up to n is n.
LEMMA Largest ==
  ASSUME NEW n \in Nat, NEW s \in SUBSET (1..n), n \in s
  PROVE  Max(s) = n
<1>1. \A y \in s : n >= y /\ y \in Int
  OBVIOUS
<1>2. Max(s) \in s /\ \A y \in s : Max(s) >= y
  BY <1>1, Zenon DEF Max
<1>3. Max(s) \in Int /\ Max(s) >= n /\ n >= Max(s)
  BY <1>1, <1>2
<1> QED
  BY <1>3

\* A set of numbers up to n has a largest one.
LEMMA HasLargest ==
  ASSUME NEW n \in Nat, NEW s \in SUBSET (1..n), s # {}
  PROVE  Max(s) \in s
<1> DEFINE Good(k) == \A t \in SUBSET (1..k) : t # {} => Max(t) \in t
           G == {k \in 0..n : Good(k)}
<1>1. Good(0)
  <2>1. ASSUME NEW t \in SUBSET (1..0) PROVE t = {}
    OBVIOUS
  <2> QED
    BY <2>1
<1>2. ASSUME NEW k \in 1..n, Good(k - 1) PROVE Good(k)
  <2>1. ASSUME NEW t \in SUBSET (1..k), t # {} PROVE Max(t) \in t
    <3>1. CASE k \in t
      BY <3>1, Largest
    <3>2. CASE k \notin t
      <4>1. t \in SUBSET (1..k-1)
        BY <3>2
      <4> QED
        BY <1>2, <2>1, <4>1
    <3> QED
      BY <3>1, <3>2
  <2> QED
    BY <2>1
<1>3. Good(n)
  <2> HIDE DEF Good
  <2>1. 0 \in G /\ \A k \in 1..n : k - 1 \in G => k \in G
    BY <1>1, <1>2
  <2>2. n \in G
    <3> HIDE DEF G
    <3> QED
      BY <2>1, Reaches
  <2> QED
    BY <2>2
<1> QED
  BY <1>3

\* The function that folds, and the values it goes through from left to right.
Folds(g, n, U, base, step) ==
  /\ g \in [SUBSET (1..n) -> U]
  /\ \A s \in SUBSET (1..n) : g[s] = IF s = {} THEN base ELSE step[Max(s)][g[s \ {Max(s)}]]
Passes(c, n, U, base, step) ==
  /\ c \in [0..n -> U] /\ c[0] = base
  /\ \A k \in 1..n : c[k] = step[k][c[k-1]]
FoldsWithin(h, n, U, base, step) ==
  /\ h[{}] = base
  /\ \A s \in SUBSET (1..n) : s # {} /\ h[s \ {Max(s)}] \in U =>
       h[s] = step[Max(s)][h[s \ {Max(s)}]]

\* There is a function that folds, by induction on the length.
LEMMA FoldExists ==
  ASSUME NEW n \in Nat, NEW U, NEW base \in U, NEW step \in [1..n -> [U -> U]]
  PROVE  \E g : Folds(g, n, U, base, step)
<1> DEFINE G == {k \in 0..n : \E g : Folds(g, k, U, base, step)}
<1>1. 0 \in G
  <2>1. Folds([s \in SUBSET (1..0) |-> base], 0, U, base, step)
    <3>1. ASSUME NEW s \in SUBSET (1..0) PROVE s = {}
      OBVIOUS
    <3> QED
      BY <3>1 DEF Folds
  <2> QED
    BY <2>1
<1>2. ASSUME NEW k \in 1..n, k - 1 \in G PROVE k \in G
  <2>1. PICK g : Folds(g, k - 1, U, base, step)
    BY <1>2
  <2>a. /\ g \in [SUBSET (1..k-1) -> U]
        /\ \A s \in SUBSET (1..k-1) :
             g[s] = IF s = {} THEN base ELSE step[Max(s)][g[s \ {Max(s)}]]
    BY <2>1 DEF Folds
  <2> DEFINE h == [s \in SUBSET (1..k) |-> IF k \in s THEN step[k][g[s \ {k}]] ELSE g[s]]
  <2>2. ASSUME NEW s \in SUBSET (1..k)
        PROVE  /\ s \ {k} \in SUBSET (1..k-1) /\ k \notin s => s \in SUBSET (1..k-1)
               /\ s \ {Max(s)} \in SUBSET (1..k)
    OBVIOUS
  <2>3. h \in [SUBSET (1..k) -> U]
    <3>1. ASSUME NEW s \in SUBSET (1..k) PROVE h[s] \in U
      <4>1. step[k] \in [U -> U]
        OBVIOUS
      <4> QED
        BY <2>a, <2>2, <4>1
    <3> QED
      BY <3>1
  <2>4. ASSUME NEW s \in SUBSET (1..k), s # {} PROVE h[s] = step[Max(s)][h[s \ {Max(s)}]]
    <3>1. CASE k \in s
      <4>1. Max(s) = k
        BY <3>1, Largest
      <4>2. h[s] = step[k][g[s \ {k}]] /\ h[s \ {k}] = g[s \ {k}]
        BY <2>2, <3>1
      <4> QED
        BY <4>1, <4>2
    <3>2. CASE k \notin s
      <4>1. h[s] = g[s] /\ s \in SUBSET (1..k-1)
        BY <2>2, <3>2
      <4>2. g[s] = step[Max(s)][g[s \ {Max(s)}]]
        BY <2>a, <2>4, <4>1
      <4>3. h[s \ {Max(s)}] = g[s \ {Max(s)}]
        BY <2>2, <3>2
      <4> QED
        BY <4>1, <4>2, <4>3
    <3> QED
      BY <3>1, <3>2
  <2>5. h[{}] = base
    <3>1. {} \in SUBSET (1..k) /\ {} \in SUBSET (1..k-1)
      OBVIOUS
    <3> QED
      BY <2>a, <3>1
  <2>6. Folds(h, k, U, base, step)
    <3> HIDE DEF h
    <3> QED
      BY <2>3, <2>4, <2>5 DEF Folds
  <2> QED
    BY <2>6
<1>3. n \in G
  <2> HIDE DEF G
  <2> QED
    BY <1>1, <1>2, Reaches
<1> QED
  BY <1>3

Steps(step, n, U) == step \in [1..n -> [U -> U]]
Passed(h, n, U, base, step) == \E c : Passes(c, n, U, base, step) /\ c[n] = h[1..n]

\* A function that folds this way, as far as that stays within U, goes through such values.
LEMMA FoldPasses ==
  ASSUME NEW n \in Nat, NEW U, NEW base \in U, NEW step, Steps(step, n, U),
         NEW h, FoldsWithin(h, n, U, base, step)
  PROVE  Passed(h, n, U, base, step)
<1>0. step \in [1..n -> [U -> U]]
  BY DEF Steps
<1> DEFINE G == {k \in 0..n : h[1..k] \in U}
<1>1. ASSUME NEW k \in 1..n
      PROVE  1..k # {} /\ Max(1..k) = k /\ 1..k \ {k} = 1..k-1 /\ 1..k \in SUBSET (1..n)
  <2>1. k \in Nat /\ 1..k \in SUBSET (1..k) /\ k \in 1..k
    OBVIOUS
  <2>2. Max(1..k) = k
    BY <2>1, Largest
  <2>3. 1..k # {} /\ 1..k \ {k} = 1..k-1 /\ 1..k \in SUBSET (1..n)
    OBVIOUS
  <2> QED
    BY <2>2, <2>3
<1>2. ASSUME NEW k \in 1..n, h[1..k-1] \in U
      PROVE  h[1..k] = step[k][h[1..k-1]] /\ h[1..k] \in U
  <2>1. PICK s \in SUBSET (1..n) : s = 1..k
    BY <1>1
  <2>2. s # {} /\ Max(s) = k /\ s \ {Max(s)} = 1..k-1
    BY <1>1, <2>1
  <2>3. h[s] = step[Max(s)][h[s \ {Max(s)}]]
    BY <1>2, <2>2 DEF FoldsWithin
  <2>4. step[k] \in [U -> U]
    BY <1>0
  <2> QED
    BY <1>2, <2>1, <2>2, <2>3, <2>4
<1>3. h[1..0] = base
  <2>1. 1..0 = {}
    OBVIOUS
  <2>2. h[{}] = base
    BY DEF FoldsWithin
  <2> QED
    BY <2>1, <2>2
<1>4. 0 \in G /\ \A k \in 1..n : k - 1 \in G => k \in G
  BY <1>2, <1>3
<1>5. \A k \in 0..n : k \in G
  <2>1. ASSUME NEW m \in 0..n PROVE m \in G
    <3>1. m \in Nat /\ \A k \in 1..m : k \in 1..n
      OBVIOUS
    <3> HIDE DEF G
    <3> QED
      BY <1>4, <3>1, Reaches
  <2> QED
    BY <2>1
<1> DEFINE c == [k \in 0..n |-> h[1..k]]
<1>6. c \in [0..n -> U] /\ c[0] = base /\ c[n] = h[1..n]
  BY <1>3, <1>5
<1>7. \A k \in 1..n : c[k] = step[k][c[k-1]]
  BY <1>2, <1>5
<1> QED
  BY <1>6, <1>7 DEF Passes, Passed

-----------------------------------------------------------------------------
(* The folds of Capabilities, element by element, each within a set its    *)
(* steps do not leave.                                                     *)

ForcedClosed(mode, skills, seq, n, U) ==
  \A k \in 1..n : \A x \in U : WithForced(mode, skills, x, seq[k]) \in U
ForcedPasses(mode, skills, seq, n, U, c) ==
  c \in [0..n -> U] /\ \A k \in 1..n : c[k] = WithForced(mode, skills, c[k-1], seq[k])

\* Forced skills are taken one after the other,
LEMMA ForcedRuns ==
  ASSUME NEW mode, NEW skills, NEW seq, NEW n \in Nat, DOMAIN seq = 1..n,
         NEW U, NEW base \in U, ForcedClosed(mode, skills, seq, n, U)
  PROVE  \E c : /\ ForcedPasses(mode, skills, seq, n, U, c) /\ c[0] = base
                /\ c[n] = TakeForced(mode, skills, seq, base)
<1> DEFINE Op(x, y) == WithForced(mode, skills, x, y)
           step == [k \in 1..n |-> [x \in U |-> Op(x, seq[k])]]
           h == CHOOSE g : g = [s \in SUBSET (1..n) |->
                  IF s = {} THEN base ELSE Op(g[s \ {Max(s)}], seq[Max(s)])]
<1>1. TakeForced(mode, skills, seq, base) = h[1..n]
  BY DEF TakeForced, FoldLeft, MapThenFoldSet
<1>2. \A k \in 1..n : \A x \in U : Op(x, seq[k]) \in U
  BY DEF ForcedClosed
<1> HIDE DEF Op
<1>3. step \in [1..n -> [U -> U]]
  BY <1>2
<1>4. PICK g : Folds(g, n, U, base, step)
  <2> HIDE DEF step
  <2> QED
    BY <1>3, FoldExists
<1>5. ASSUME NEW s \in SUBSET (1..n), s # {}
      PROVE  Max(s) \in 1..n /\ s \ {Max(s)} \in SUBSET (1..n)
  BY <1>5, HasLargest
<1>6. g = [s \in SUBSET (1..n) |-> IF s = {} THEN base ELSE Op(g[s \ {Max(s)}], seq[Max(s)])]
  BY <1>4, <1>5 DEF Folds
<1>7. h = [s \in SUBSET (1..n) |-> IF s = {} THEN base ELSE Op(h[s \ {Max(s)}], seq[Max(s)])]
  BY <1>6
<1> HIDE DEF h
<1>8. FoldsWithin(h, n, U, base, step)
  BY <1>5, <1>7 DEF FoldsWithin
<1>9. PICK c : Passes(c, n, U, base, step) /\ c[n] = h[1..n]
  <2>1. Steps(step, n, U)
    BY <1>3 DEF Steps
  <2> HIDE DEF step
  <2>2. Passed(h, n, U, base, step)
    BY <1>8, <2>1, FoldPasses
  <2> QED
    BY <2>2 DEF Passed
<1>10. c \in [0..n -> U] /\ c[0] = base /\ \A k \in 1..n : c[k] = step[k][c[k-1]]
  BY <1>9 DEF Passes
<1>11. \A k \in 1..n : c[k-1] \in U /\ step[k][c[k-1]] = Op(c[k-1], seq[k])
  BY <1>10
<1>12. \A k \in 1..n : c[k] = Op(c[k-1], seq[k])
  BY <1>10, <1>11
<1> QED
  BY <1>1, <1>9, <1>10, <1>12 DEF Op, ForcedPasses

NamedClosed(mode, skills, match, seq, n, U) ==
  \A k \in 1..n : \A x \in U : WithNamed(mode, skills, match, x, seq[k]) \in U
NamedPasses(mode, skills, match, seq, n, U, c) ==
  c \in [0..n -> U] /\ \A k \in 1..n : c[k] = WithNamed(mode, skills, match, c[k-1], seq[k])

\* so are named ones,
LEMMA NamedRuns ==
  ASSUME NEW mode, NEW skills, NEW match, NEW seq, NEW n \in Nat, DOMAIN seq = 1..n,
         NEW U, NEW base \in U, NamedClosed(mode, skills, match, seq, n, U)
  PROVE  \E c : /\ NamedPasses(mode, skills, match, seq, n, U, c) /\ c[0] = base
                /\ c[n] = TakeNamed(mode, skills, match, seq, base)
<1> DEFINE Op(x, y) == WithNamed(mode, skills, match, x, y)
           step == [k \in 1..n |-> [x \in U |-> Op(x, seq[k])]]
           h == CHOOSE g : g = [s \in SUBSET (1..n) |->
                  IF s = {} THEN base ELSE Op(g[s \ {Max(s)}], seq[Max(s)])]
<1>1. TakeNamed(mode, skills, match, seq, base) = h[1..n]
  BY DEF TakeNamed, FoldLeft, MapThenFoldSet
<1>2. \A k \in 1..n : \A x \in U : Op(x, seq[k]) \in U
  BY DEF NamedClosed
<1> HIDE DEF Op
<1>3. step \in [1..n -> [U -> U]]
  BY <1>2
<1>4. PICK g : Folds(g, n, U, base, step)
  <2> HIDE DEF step
  <2> QED
    BY <1>3, FoldExists
<1>5. ASSUME NEW s \in SUBSET (1..n), s # {}
      PROVE  Max(s) \in 1..n /\ s \ {Max(s)} \in SUBSET (1..n)
  BY <1>5, HasLargest
<1>6. g = [s \in SUBSET (1..n) |-> IF s = {} THEN base ELSE Op(g[s \ {Max(s)}], seq[Max(s)])]
  BY <1>4, <1>5 DEF Folds
<1>7. h = [s \in SUBSET (1..n) |-> IF s = {} THEN base ELSE Op(h[s \ {Max(s)}], seq[Max(s)])]
  BY <1>6
<1> HIDE DEF h
<1>8. FoldsWithin(h, n, U, base, step)
  BY <1>5, <1>7 DEF FoldsWithin
<1>9. PICK c : Passes(c, n, U, base, step) /\ c[n] = h[1..n]
  <2>1. Steps(step, n, U)
    BY <1>3 DEF Steps
  <2> HIDE DEF step
  <2>2. Passed(h, n, U, base, step)
    BY <1>8, <2>1, FoldPasses
  <2> QED
    BY <2>2 DEF Passed
<1>10. c \in [0..n -> U] /\ c[0] = base /\ \A k \in 1..n : c[k] = step[k][c[k-1]]
  BY <1>9 DEF Passes
<1>11. \A k \in 1..n : c[k-1] \in U /\ step[k][c[k-1]] = Op(c[k-1], seq[k])
  BY <1>10
<1>12. \A k \in 1..n : c[k] = Op(c[k-1], seq[k])
  BY <1>10, <1>11
<1> QED
  BY <1>1, <1>9, <1>10, <1>12 DEF Op, NamedPasses

MatchingClosed(task, mode, policy, seq, n, U) ==
  \A k \in 1..n : \A x \in U : WithMatching(task, mode, policy, x, seq[k]) \in U
MatchingPasses(task, mode, policy, seq, n, U, c) ==
  c \in [0..n -> U] /\ \A k \in 1..n : c[k] = WithMatching(task, mode, policy, c[k-1], seq[k])

\* those that match,
LEMMA MatchingRuns ==
  ASSUME NEW task, NEW mode, NEW policy, NEW seq, NEW n \in Nat, DOMAIN seq = 1..n,
         NEW U, NEW base \in U, MatchingClosed(task, mode, policy, seq, n, U)
  PROVE  \E c : /\ MatchingPasses(task, mode, policy, seq, n, U, c) /\ c[0] = base
                /\ c[n] = TakeMatching(task, mode, seq, policy, base)
<1> DEFINE Op(x, y) == WithMatching(task, mode, policy, x, y)
           step == [k \in 1..n |-> [x \in U |-> Op(x, seq[k])]]
           h == CHOOSE g : g = [s \in SUBSET (1..n) |->
                  IF s = {} THEN base ELSE Op(g[s \ {Max(s)}], seq[Max(s)])]
<1>1. TakeMatching(task, mode, seq, policy, base) = h[1..n]
  BY DEF TakeMatching, FoldLeft, MapThenFoldSet
<1>2. \A k \in 1..n : \A x \in U : Op(x, seq[k]) \in U
  BY DEF MatchingClosed
<1> HIDE DEF Op
<1>3. step \in [1..n -> [U -> U]]
  BY <1>2
<1>4. PICK g : Folds(g, n, U, base, step)
  <2> HIDE DEF step
  <2> QED
    BY <1>3, FoldExists
<1>5. ASSUME NEW s \in SUBSET (1..n), s # {}
      PROVE  Max(s) \in 1..n /\ s \ {Max(s)} \in SUBSET (1..n)
  BY <1>5, HasLargest
<1>6. g = [s \in SUBSET (1..n) |-> IF s = {} THEN base ELSE Op(g[s \ {Max(s)}], seq[Max(s)])]
  BY <1>4, <1>5 DEF Folds
<1>7. h = [s \in SUBSET (1..n) |-> IF s = {} THEN base ELSE Op(h[s \ {Max(s)}], seq[Max(s)])]
  BY <1>6
<1> HIDE DEF h
<1>8. FoldsWithin(h, n, U, base, step)
  BY <1>5, <1>7 DEF FoldsWithin
<1>9. PICK c : Passes(c, n, U, base, step) /\ c[n] = h[1..n]
  <2>1. Steps(step, n, U)
    BY <1>3 DEF Steps
  <2> HIDE DEF step
  <2>2. Passed(h, n, U, base, step)
    BY <1>8, <2>1, FoldPasses
  <2> QED
    BY <2>2 DEF Passed
<1>10. c \in [0..n -> U] /\ c[0] = base /\ \A k \in 1..n : c[k] = step[k][c[k-1]]
  BY <1>9 DEF Passes
<1>11. \A k \in 1..n : c[k-1] \in U /\ step[k][c[k-1]] = Op(c[k-1], seq[k])
  BY <1>10
<1>12. \A k \in 1..n : c[k] = Op(c[k-1], seq[k])
  BY <1>10, <1>11
<1> QED
  BY <1>1, <1>9, <1>10, <1>12 DEF Op, MatchingPasses

PluginsClosed(task, mode, skills, seq, n, U) ==
  \A k \in 1..n : \A x \in U : WithPlugin(task, mode, skills, x, seq[k]) \in U
PluginsPasses(task, mode, skills, seq, n, U, c) ==
  c \in [0..n -> U] /\ \A k \in 1..n : c[k] = WithPlugin(task, mode, skills, c[k-1], seq[k])

\* and the plugins.
LEMMA PluginsRun ==
  ASSUME NEW task, NEW mode, NEW skills, NEW seq, NEW n \in Nat, DOMAIN seq = 1..n,
         NEW U, NEW base \in U, PluginsClosed(task, mode, skills, seq, n, U)
  PROVE  \E c : /\ PluginsPasses(task, mode, skills, seq, n, U, c) /\ c[0] = base
                /\ c[n] = TakePlugins(task, mode, skills, seq, base)
<1> DEFINE Op(x, y) == WithPlugin(task, mode, skills, x, y)
           step == [k \in 1..n |-> [x \in U |-> Op(x, seq[k])]]
           h == CHOOSE g : g = [s \in SUBSET (1..n) |->
                  IF s = {} THEN base ELSE Op(g[s \ {Max(s)}], seq[Max(s)])]
<1>1. TakePlugins(task, mode, skills, seq, base) = h[1..n]
  BY DEF TakePlugins, FoldLeft, MapThenFoldSet
<1>2. \A k \in 1..n : \A x \in U : Op(x, seq[k]) \in U
  BY DEF PluginsClosed
<1> HIDE DEF Op
<1>3. step \in [1..n -> [U -> U]]
  BY <1>2
<1>4. PICK g : Folds(g, n, U, base, step)
  <2> HIDE DEF step
  <2> QED
    BY <1>3, FoldExists
<1>5. ASSUME NEW s \in SUBSET (1..n), s # {}
      PROVE  Max(s) \in 1..n /\ s \ {Max(s)} \in SUBSET (1..n)
  BY <1>5, HasLargest
<1>6. g = [s \in SUBSET (1..n) |-> IF s = {} THEN base ELSE Op(g[s \ {Max(s)}], seq[Max(s)])]
  BY <1>4, <1>5 DEF Folds
<1>7. h = [s \in SUBSET (1..n) |-> IF s = {} THEN base ELSE Op(h[s \ {Max(s)}], seq[Max(s)])]
  BY <1>6
<1> HIDE DEF h
<1>8. FoldsWithin(h, n, U, base, step)
  BY <1>5, <1>7 DEF FoldsWithin
<1>9. PICK c : Passes(c, n, U, base, step) /\ c[n] = h[1..n]
  <2>1. Steps(step, n, U)
    BY <1>3 DEF Steps
  <2> HIDE DEF step
  <2>2. Passed(h, n, U, base, step)
    BY <1>8, <2>1, FoldPasses
  <2> QED
    BY <2>2 DEF Passed
<1>10. c \in [0..n -> U] /\ c[0] = base /\ \A k \in 1..n : c[k] = step[k][c[k-1]]
  BY <1>9 DEF Passes
<1>11. \A k \in 1..n : c[k-1] \in U /\ step[k][c[k-1]] = Op(c[k-1], seq[k])
  BY <1>10
<1>12. \A k \in 1..n : c[k] = Op(c[k-1], seq[k])
  BY <1>10, <1>11
<1> QED
  BY <1>1, <1>9, <1>10, <1>12 DEF Op, PluginsPasses

WithoutClosed(names, seq, n, U) ==
  \A k \in 1..n : \A x \in U : WithKept(names, x, seq[k]) \in U
WithoutPasses(names, seq, n, U, c) ==
  c \in [0..n -> U] /\ \A k \in 1..n : c[k] = WithKept(names, c[k-1], seq[k])

\* What is dropped is left out one after the other.
LEMMA WithoutRuns ==
  ASSUME NEW names, NEW seq, NEW n \in Nat, DOMAIN seq = 1..n,
         NEW U, <<>> \in U, WithoutClosed(names, seq, n, U)
  PROVE  \E c : /\ WithoutPasses(names, seq, n, U, c) /\ c[0] = <<>>
                /\ c[n] = Without(seq, names)
<1> DEFINE Op(x, y) == WithKept(names, x, y)
           step == [k \in 1..n |-> [x \in U |-> Op(x, seq[k])]]
           h == CHOOSE g : g = [s \in SUBSET (1..n) |->
                  IF s = {} THEN <<>> ELSE Op(g[s \ {Max(s)}], seq[Max(s)])]
<1>1. Without(seq, names) = h[1..n]
  BY DEF Without, FoldLeft, MapThenFoldSet
<1>2. \A k \in 1..n : \A x \in U : Op(x, seq[k]) \in U
  BY DEF WithoutClosed
<1> HIDE DEF Op
<1>3. step \in [1..n -> [U -> U]]
  BY <1>2
<1>4. PICK g : Folds(g, n, U, <<>>, step)
  <2> HIDE DEF step
  <2> QED
    BY <1>3, FoldExists
<1>5. ASSUME NEW s \in SUBSET (1..n), s # {}
      PROVE  Max(s) \in 1..n /\ s \ {Max(s)} \in SUBSET (1..n)
  BY <1>5, HasLargest
<1>6. g = [s \in SUBSET (1..n) |-> IF s = {} THEN <<>> ELSE Op(g[s \ {Max(s)}], seq[Max(s)])]
  BY <1>4, <1>5 DEF Folds
<1>7. h = [s \in SUBSET (1..n) |-> IF s = {} THEN <<>> ELSE Op(h[s \ {Max(s)}], seq[Max(s)])]
  BY <1>6
<1> HIDE DEF h
<1>8. FoldsWithin(h, n, U, <<>>, step)
  BY <1>5, <1>7 DEF FoldsWithin
<1>9. PICK c : Passes(c, n, U, <<>>, step) /\ c[n] = h[1..n]
  <2>1. Steps(step, n, U)
    BY <1>3 DEF Steps
  <2> HIDE DEF step
  <2>2. Passed(h, n, U, <<>>, step)
    BY <1>8, <2>1, FoldPasses
  <2> QED
    BY <2>2 DEF Passed
<1>10. c \in [0..n -> U] /\ c[0] = <<>> /\ \A k \in 1..n : c[k] = step[k][c[k-1]]
  BY <1>9 DEF Passes
<1>11. \A k \in 1..n : c[k-1] \in U /\ step[k][c[k-1]] = Op(c[k-1], seq[k])
  BY <1>10
<1>12. \A k \in 1..n : c[k] = Op(c[k-1], seq[k])
  BY <1>10, <1>11
<1> QED
  BY <1>1, <1>9, <1>10, <1>12 DEF Op, WithoutPasses

-----------------------------------------------------------------------------
(* What the steps of a selection make of it.                               *)

Triggers == {"explicit", "file_type", "workflow", "semantic", "runtime_mode"}
Matches == [score : 0..100, trigger : Triggers]
Notes(names) == [name : names, score : 0..100, trigger : Triggers]
NoteOf(name, match) == [name |-> name, score |-> match.score, trigger |-> match.trigger]
Selections(skills, names) == [skills : Seq(skills), audit : Seq(Notes(names))]

\* A note is the only change of a selection it is made in.
LEMMA NoteMade ==
  ASSUME NEW K, NEW N, NEW sel \in Selections(K, N), NEW name \in N, NEW match \in Matches
  PROVE  /\ Note(sel, name, match) \in Selections(K, N)
         /\ Note(sel, name, match).skills = sel.skills
         /\ Note(sel, name, match).audit = Append(sel.audit, NoteOf(name, match))
         /\ NoteOf(name, match) \in Notes(N)
<1>1. NoteOf(name, match) \in Notes(N)
  BY DEF NoteOf, Notes, Matches
<1>2. PICK note \in Notes(N) : note = NoteOf(name, match)
  BY <1>1
<1>3. Note(sel, name, match) = [sel EXCEPT !.audit = Append(@, note)]
  BY <1>2 DEF Note, NoteOf
<1>4. Append(sel.audit, note) \in Seq(Notes(N))
  BY DEF Selections
<1> QED
  BY <1>1, <1>2, <1>3, <1>4 DEF Selections

\* What is taken is noted, and appended unless a skill of its name is there.
LEMMA TakeMade ==
  ASSUME NEW K, NEW N, NEW sel \in Selections(K, N), NEW skill \in K, skill.name \in N,
         NEW match \in Matches
  PROVE  /\ Take(sel, skill, match) \in Selections(K, N)
         /\ Take(sel, skill, match).skills =
              IF Has(sel, skill.name) THEN sel.skills ELSE Append(sel.skills, skill)
         /\ Take(sel, skill, match).audit = Append(sel.audit, NoteOf(skill.name, match))
<1> DEFINE noted == Note(sel, skill.name, match)
<1>1. noted \in Selections(K, N) /\ noted.skills = sel.skills
      /\ noted.audit = Append(sel.audit, NoteOf(skill.name, match))
  BY NoteMade
<1> HIDE DEF noted
<1>2. PICK kept : kept = IF Has(sel, skill.name) THEN sel.skills ELSE Append(sel.skills, skill)
  OBVIOUS
<1>3. kept \in Seq(K)
  BY <1>2 DEF Selections
<1>4. Take(sel, skill, match) = [noted EXCEPT !.skills = kept]
  BY <1>1, <1>2, Zenon DEF Take, noted
<1> QED
  BY <1>1, <1>2, <1>3, <1>4 DEF Selections

\* A set of numbers has a smallest one.
LEMMA HasSmallest ==
  ASSUME NEW S \in SUBSET Nat, S # {}
  PROVE  Min(S) \in S /\ \A y \in S : Min(S) <= y
<1>1. PICK m \in S : \A y \in S : ~ (<<y, m>> \in Smaller)
  BY SmallerWellFounded, WFMin, Zenon
<1>2. ASSUME NEW y \in S PROVE m <= y
  <2>1. <<y, m>> \in Nat \X Nat /\ ~ (<<y, m>> \in Smaller)
    BY <1>1
  <2>2. <<y, m>>[1] = y /\ <<y, m>>[2] = m
    OBVIOUS
  <2> QED
    BY <2>1, <2>2 DEF Smaller
<1> QED
  BY <1>2 DEF Min

\* find() finds one of that name.
LEMMA Finds ==
  ASSUME NEW K, NEW seq \in Seq(K), NEW name, Registered(seq, name)
  PROVE  \E i \in DOMAIN seq : Find(seq, name) = seq[i] /\ seq[i].name = name
<1>1. Places(seq, name) \in SUBSET Nat /\ Places(seq, name) # {}
  BY DEF Places, Registered
<1>2. Min(Places(seq, name)) \in Places(seq, name)
  BY <1>1, HasSmallest
<1> QED
  BY <1>2 DEF Places, Find

\* A skill that is named matches with 100, and every other with less.
LEMMA Scores ==
  ASSUME NEW task, NEW skill, task.alike[skill.name] \in 0..100, task.recalled[skill.name] \in 0..100
  PROVE  /\ skill.name \in task.names => ScoreSkill(task, skill) = Match(100, "explicit")
         /\ ScoreSkill(task, skill).score >= 80 => ScoreSkill(task, skill) \in Matches
         /\ ScoreSkill(task, skill).score >= 80 /\ skill.name \notin task.names =>
              ScoreSkill(task, skill).score < 100
<1> DEFINE file == Penalised(task, skill, FileTypeMatch(task, skill.name))
           verb == Penalised(task, skill, WorkflowVerbMatch(task, skill.name))
           alike == Penalised(task, skill, Max({SemanticSimilarity(task, skill.name),
                                                RecallSimilarity(task, skill.name)}))
<1>1. file \in 0..80
  BY DEF Penalised, FileTypeMatch
<1>2. verb \in 0..60
  BY DEF Penalised, WorkflowVerbMatch
<1>3. alike \in 0..40
  <2>1. ASSUME NEW share \in 0..100 PROVE OutOf40(share) \in 0..40
    BY DEF OutOf40
  <2>2. SemanticSimilarity(task, skill.name) \in 0..40 /\ RecallSimilarity(task, skill.name) \in 0..40
    BY <2>1 DEF SemanticSimilarity, RecallSimilarity
  <2>3. ASSUME NEW a \in 0..40, NEW b \in 0..40 PROVE Max({a, b}) \in 0..40
    BY DEF Max
  <2>4. Max({SemanticSimilarity(task, skill.name), RecallSimilarity(task, skill.name)}) \in 0..40
    BY <2>2, <2>3
  <2> QED
    BY <2>4 DEF Penalised
<1>4. ScoreSkill(task, skill) =
        IF skill.name \in task.names THEN Match(100, "explicit")
        ELSE IF file >= 80 THEN Match(file, "file_type")
        ELSE IF verb >= 50 THEN Match(verb, "workflow")
        ELSE IF alike >= 30 THEN Match(alike, "semantic") ELSE NoMatch
  BY DEF ScoreSkill, ExplicitNameMatch
<1> HIDE DEF file, verb, alike
<1> QED
  BY <1>1, <1>2, <1>3, <1>4 DEF Match, NoMatch, Matches, Triggers

\* What is appended is in the sequence, and otherwise what was there.
LEMMA AppendedRange ==
  ASSUME NEW K, NEW s \in Seq(K), NEW e \in K
  PROVE  Range(Append(s, e)) = Range(s) \cup {e}
<1>1. /\ Len(Append(s, e)) = Len(s) + 1
      /\ \A i \in 1..Len(s) : Append(s, e)[i] = s[i]
      /\ Append(s, e)[Len(s) + 1] = e
      /\ Append(s, e) \in Seq(K)
  OBVIOUS
<1>2. DOMAIN Append(s, e) = 1..Len(s) + 1 /\ DOMAIN s = 1..Len(s) /\ Len(s) \in Nat
  BY <1>1
<1>3. ASSUME NEW x \in Range(Append(s, e)) PROVE x \in Range(s) \cup {e}
  BY <1>1, <1>2 DEF Range
<1>4. ASSUME NEW x \in Range(s) \cup {e} PROVE x \in Range(Append(s, e))
  <2>1. CASE x = e
    BY <1>1, <1>2, <2>1 DEF Range
  <2>2. CASE x \in Range(s)
    <3>1. PICK i \in 1..Len(s) : x = s[i]
      BY <1>2, <2>2 DEF Range
    <3>2. i \in DOMAIN Append(s, e) /\ Append(s, e)[i] = x
      BY <1>1, <1>2, <3>1
    <3> QED
      BY <3>2 DEF Range
  <2> QED
    BY <2>1, <2>2
<1> QED
  BY <1>3, <1>4

-----------------------------------------------------------------------------
(* What the offered skills are taken from.                                 *)

\* A skill is kept or not, one after the other.
WithoutGoing(K, seq, names, n, c) ==
  /\ c \in [0..n -> Seq(K)] /\ c[0] = <<>> /\ c[n] = Without(seq, names)
  /\ \A k \in 1..n : c[k] = WithKept(names, c[k-1], seq[k])

\* Its values from the first place to the last.
LEMMA WithoutGoes ==
  ASSUME NEW K, NEW seq \in Seq(K), NEW names, NEW n \in Nat, DOMAIN seq = 1..n
  PROVE  \E c : WithoutGoing(K, seq, names, n, c)
<1>1. PICK U : U = Seq(K)
  OBVIOUS
<1>2. \A k \in 1..n : \A x \in U : WithKept(names, x, seq[k]) \in U
  BY <1>1 DEF WithKept
<1>3. <<>> \in U /\ WithoutClosed(names, seq, n, U)
  BY <1>1, <1>2 DEF WithoutClosed
<1>4. PICK c : WithoutPasses(names, seq, n, U, c) /\ c[0] = <<>> /\ c[n] = Without(seq, names)
  BY <1>3, WithoutRuns
<1> QED
  BY <1>1, <1>4 DEF WithoutPasses, WithoutGoing

\* What is dropped is gone, and nothing else.
LEMMA WithoutIs ==
  ASSUME NEW K, NEW seq \in Seq(K), NEW names
  PROVE  /\ Without(seq, names) \in Seq(K)
         /\ Range(Without(seq, names)) = {skill \in Range(seq) : skill.name \notin names}
<1> DEFINE n == Len(seq)
           Left(k) == {seq[i] : i \in {j \in 1..k : seq[j].name \notin names}}
<1>0. n \in Nat /\ DOMAIN seq = 1..n /\ \A k \in 1..n : seq[k] \in K
  OBVIOUS
<1> HIDE DEF n
<1>3. PICK c :
        /\ c \in [0..n -> Seq(K)] /\ c[0] = <<>> /\ c[n] = Without(seq, names)
        /\ \A k \in 1..n : c[k] = WithKept(names, c[k-1], seq[k])
  <2>1. PICK c : WithoutGoing(K, seq, names, n, c)
    BY <1>0, WithoutGoes
  <2> QED
    BY <2>1 DEF WithoutGoing
<1> DEFINE G == {k \in 0..n : Range(c[k]) = Left(k)}
<1>4. 0 \in G
  <2>1. Range(<<>>) = {}
    BY DEF Range
  <2>2. Left(0) = {}
    OBVIOUS
  <2> QED
    BY <1>0, <1>3, <2>1, <2>2
<1>5. ASSUME NEW k \in 1..n, k - 1 \in G PROVE k \in G
  <2>1. c[k-1] \in Seq(K) /\ Range(c[k-1]) = Left(k-1) /\ k - 1 \in 0..n /\ seq[k] \in K
        /\ c[k] = WithKept(names, c[k-1], seq[k])
    BY <1>0, <1>3, <1>5
  <2>2. CASE seq[k].name \in names
    <3>1. {j \in 1..k : seq[j].name \notin names} = {j \in 1..k-1 : seq[j].name \notin names}
      BY <1>0, <2>2
    <3> QED
      BY <1>0, <2>1, <2>2, <3>1 DEF WithKept
  <2>3. CASE seq[k].name \notin names
    <3>1. {j \in 1..k : seq[j].name \notin names} =
            {j \in 1..k-1 : seq[j].name \notin names} \cup {k}
      BY <1>0, <2>3
    <3>2. Left(k) = Left(k-1) \cup {seq[k]}
      BY <3>1
    <3>3. c[k] = Append(c[k-1], seq[k])
      BY <2>1, <2>3 DEF WithKept
    <3> HIDE DEF Left
    <3>4. Range(c[k]) = Range(c[k-1]) \cup {seq[k]}
      BY <2>1, <3>3, AppendedRange
    <3> QED
      <4>1. Range(c[k]) = Left(k) /\ k \in 0..n
        BY <1>0, <2>1, <3>2, <3>4
      <4> QED
        BY <4>1
  <2> QED
    BY <2>2, <2>3
<1>6. n \in G
  <2> HIDE DEF G
  <2> QED
    BY <1>0, <1>4, <1>5, Reaches
<1>7. Left(n) = {skill \in Range(seq) : skill.name \notin names}
  BY <1>0 DEF Range
<1> QED
  BY <1>0, <1>3, <1>6, <1>7

\* Dropping touches nothing else of a selection.
LEMMA DropIs ==
  ASSUME NEW K, NEW N, NEW sel \in Selections(K, N), NEW names
  PROVE  /\ Drop(sel, names) \in Selections(K, N)
         /\ Drop(sel, names).skills = Without(sel.skills, names)
         /\ Drop(sel, names).audit = sel.audit
<1>1. PICK kept : kept = Without(sel.skills, names)
  OBVIOUS
<1>2. kept \in Seq(K)
  BY <1>1, WithoutIs DEF Selections
<1>3. Drop(sel, names) = [sel EXCEPT !.skills = kept]
  BY <1>1 DEF Drop
<1> QED
  BY <1>1, <1>2, <1>3 DEF Selections

\* The two filters keep a selection within what it is from.
LEMMA FiltersKeep ==
  ASSUME NEW K, NEW N, NEW policy, NEW sel \in Selections(K, N)
  PROVE  ScoreGap(policy, sel) \in Selections(K, N) /\ Truncate(policy, sel) \in Selections(K, N)
<1>1. \A names : Drop(sel, names) \in Selections(K, N)
  BY DropIs
<1>2. ScoreGap(policy, sel) = sel \/ \E names : ScoreGap(policy, sel) = Drop(sel, names)
  BY Zenon DEF ScoreGap
<1>3. \E names : Truncate(policy, sel) = Drop(sel, names)
  BY Zenon DEF Truncate
<1> QED
  BY <1>1, <1>2, <1>3

\* A skill that is named comes in when the mode allows it.
LEMMA NamedKeeps ==
  ASSUME NEW K, NEW N, NEW sel \in Selections(K, N), NEW S, NEW skills \in Seq(S), NEW mode,
         NEW name, NEW match \in Matches,
         \A skill \in Range(skills) :
           skill.name = name /\ SkillAllowed(skill, mode) => skill \in K /\ skill.name \in N
  PROVE  WithNamed(mode, skills, match, sel, name) \in Selections(K, N)
<1>1. CASE Has(sel, name) \/ ~Registered(skills, name) \/ ~SkillAllowed(Find(skills, name), mode)
  BY <1>1 DEF WithNamed
<1>2. CASE /\ Registered(skills, name) /\ SkillAllowed(Find(skills, name), mode) /\ ~Has(sel, name)
  <2>1. PICK skill : skill = Find(skills, name)
    OBVIOUS
  <2>2. skill \in Range(skills) /\ skill.name = name
    BY <1>2, <2>1, Finds DEF Range
  <2>3. Take(sel, skill, match) \in Selections(K, N)
    BY <1>2, <2>1, <2>2, TakeMade
  <2> QED
    BY <1>2, <2>1, <2>3 DEF WithNamed
<1> QED
  BY <1>1, <1>2

\* So do all that are named, by the user or by a plugin.
LEMMA TakeNamedKeeps ==
  ASSUME NEW K, NEW N, NEW sel \in Selections(K, N), NEW S, NEW skills \in Seq(S), NEW mode,
         NEW match \in Matches, NEW M, NEW names \in Seq(M),
         \A skill \in Range(skills) :
           skill.name \in Range(names) /\ SkillAllowed(skill, mode) => skill \in K /\ skill.name \in N
  PROVE  TakeNamed(mode, skills, match, names, sel) \in Selections(K, N)
<1>1. PICK n \in Nat : DOMAIN names = 1..n
  OBVIOUS
<1>2. ASSUME NEW k \in 1..n, NEW x \in Selections(K, N)
      PROVE  WithNamed(mode, skills, match, x, names[k]) \in Selections(K, N)
  <2>1. names[k] \in Range(names)
    BY <1>1 DEF Range
  <2> QED
    BY <2>1, NamedKeeps
<1>3. PICK U : U = Selections(K, N)
  OBVIOUS
<1>4. NamedClosed(mode, skills, match, names, n, U)
  BY <1>2, <1>3 DEF NamedClosed
<1>5. PICK c : /\ NamedPasses(mode, skills, match, names, n, U, c) /\ c[0] = sel
               /\ c[n] = TakeNamed(mode, skills, match, names, sel)
  BY <1>1, <1>3, <1>4, NamedRuns
<1> QED
  BY <1>3, <1>5 DEF NamedPasses

\* A forced one as well.
LEMMA TakeForcedKeeps ==
  ASSUME NEW K, NEW N, NEW sel \in Selections(K, N), NEW S, NEW skills \in Seq(S), NEW mode,
         NEW M, NEW names \in Seq(M), Range(names) \subseteq N,
         \A skill \in Range(skills) :
           skill.name \in Range(names) /\ SkillAllowed(skill, mode) => skill \in K
  PROVE  TakeForced(mode, skills, names, sel) \in Selections(K, N)
<1>1. PICK n \in Nat : DOMAIN names = 1..n
  OBVIOUS
<1>0. Match(0, "explicit") \in Matches /\ Match(0, "runtime_mode") \in Matches
      /\ Match(100, "explicit") \in Matches
  BY DEF Match, Matches, Triggers
<1>2. ASSUME NEW k \in 1..n, NEW x \in Selections(K, N)
      PROVE  WithForced(mode, skills, x, names[k]) \in Selections(K, N)
  <2>1. PICK name : name = names[k]
    OBVIOUS
  <2>2. name \in Range(names) /\ name \in N
    BY <1>1, <2>1 DEF Range
  <2>3. Note(x, name, Match(0, "explicit")) \in Selections(K, N)
        /\ Note(x, name, Match(0, "runtime_mode")) \in Selections(K, N)
    BY <1>0, <2>2, NoteMade
  <2>4. CASE Registered(skills, name) /\ SkillAllowed(Find(skills, name), mode)
    <3>1. PICK skill : skill = Find(skills, name)
      OBVIOUS
    <3>2. skill \in Range(skills) /\ skill.name = name
      BY <2>4, <3>1, Finds DEF Range
    <3>3. Take(x, skill, Match(100, "explicit")) \in Selections(K, N)
      BY <1>0, <2>2, <2>4, <3>1, <3>2, TakeMade
    <3> QED
      BY <2>1, <2>4, <3>1, <3>3 DEF WithForced
  <2> QED
    BY <2>1, <2>3, <2>4 DEF WithForced
<1>3. PICK U : U = Selections(K, N)
  OBVIOUS
<1>4. ForcedClosed(mode, skills, names, n, U)
  BY <1>2, <1>3 DEF ForcedClosed
<1>5. PICK c : /\ ForcedPasses(mode, skills, names, n, U, c) /\ c[0] = sel
               /\ c[n] = TakeForced(mode, skills, names, sel)
  BY <1>1, <1>3, <1>4, ForcedRuns
<1> QED
  BY <1>3, <1>5 DEF ForcedPasses

\* A skill that matches comes in when it scores enough.
LEMMA TakeMatchingKeeps ==
  ASSUME NEW K, NEW N, NEW sel \in Selections(K, N), NEW S, NEW skills \in Seq(S), NEW mode,
         NEW task, NEW policy,
         \A skill \in Range(skills) :
           /\ skill.name \in N
           /\ task.alike[skill.name] \in 0..100 /\ task.recalled[skill.name] \in 0..100
           /\ SkillAllowed(skill, mode) /\ ScoreSkill(task, skill).score >= 80 => skill \in K
  PROVE  TakeMatching(task, mode, skills, policy, sel) \in Selections(K, N)
<1>1. PICK n \in Nat : DOMAIN skills = 1..n
  OBVIOUS
<1>2. ASSUME NEW k \in 1..n, NEW x \in Selections(K, N)
      PROVE  WithMatching(task, mode, policy, x, skills[k]) \in Selections(K, N)
  <2>1. PICK skill : skill = skills[k]
    OBVIOUS
  <2>2. skill \in Range(skills)
    BY <1>1, <2>1 DEF Range
  <2>3. PICK match : match = ScoreSkill(task, skill)
    OBVIOUS
  <2>4. Match(0, "runtime_mode") \in Matches
    BY DEF Match, Matches, Triggers
  <2>5. Note(x, skill.name, Match(0, "runtime_mode")) \in Selections(K, N)
    BY <2>2, <2>4, NoteMade
  <2>6. ASSUME SkillAllowed(skill, mode), match.score >= 80
        PROVE  Take(x, skill, match) \in Selections(K, N)
    <3>1. match \in Matches
      BY <2>2, <2>3, <2>6, Scores
    <3> QED
      BY <2>2, <2>3, <2>6, <3>1, TakeMade
  <2>7. WithMatching(task, mode, policy, x, skill) =
          IF Has(x, skill.name) \/ ~Enabled(skill.name, policy.enabled) THEN x
          ELSE IF ~SkillAllowed(skill, mode) THEN Note(x, skill.name, Match(0, "runtime_mode"))
          ELSE IF match.score >= 80 THEN Take(x, skill, match) ELSE x
    BY <2>3 DEF WithMatching, ShouldEnableSkill
  <2> QED
    BY <2>1, <2>5, <2>6, <2>7
<1>3. PICK U : U = Selections(K, N)
  OBVIOUS
<1>4. MatchingClosed(task, mode, policy, skills, n, U)
  BY <1>2, <1>3 DEF MatchingClosed
<1>5. PICK c : /\ MatchingPasses(task, mode, policy, skills, n, U, c) /\ c[0] = sel
               /\ c[n] = TakeMatching(task, mode, skills, policy, sel)
  BY <1>1, <1>3, <1>4, MatchingRuns
<1> QED
  BY <1>3, <1>5 DEF MatchingPasses

\* A resemblance never selects a plugin.
LEMMA SelectedIsNamed ==
  ASSUME NEW task, NEW plugin, task.alike[plugin.name] \in 0..100, PluginSelected(task, plugin)
  PROVE  plugin.name \in task.names
BY DEF PluginSelected, ExplicitNameMatch, SemanticSimilarity, OutOf40

\* A skill of a plugin that is named comes in when the mode allows it.
LEMMA TakePluginsKeeps ==
  ASSUME NEW K, NEW N, NEW sel \in Selections(K, N), NEW S, NEW skills \in Seq(S), NEW mode,
         NEW task, NEW M, NEW plugins \in Seq(M),
         \A plugin \in Range(plugins) :
           /\ plugin.skills \in Seq(Range(plugin.skills))
           /\ task.alike[plugin.name] \in 0..100,
         \A plugin \in Range(plugins), skill \in Range(skills) :
           plugin.name \in task.names /\ skill.name \in Range(plugin.skills)
             /\ SkillAllowed(skill, mode) => skill \in K /\ skill.name \in N
  PROVE  TakePlugins(task, mode, skills, plugins, sel) \in Selections(K, N)
<1>1. PICK n \in Nat : DOMAIN plugins = 1..n
  OBVIOUS
<1>2. ASSUME NEW k \in 1..n, NEW x \in Selections(K, N)
      PROVE  WithPlugin(task, mode, skills, x, plugins[k]) \in Selections(K, N)
  <2>1. PICK plugin : plugin = plugins[k]
    OBVIOUS
  <2>2. plugin \in Range(plugins)
    BY <1>1, <2>1 DEF Range
  <2>3. CASE PluginSelected(task, plugin)
    <3>1. plugin.name \in task.names
      BY <2>2, <2>3, SelectedIsNamed
    <3>2. Match(0, "workflow") \in Matches
      BY DEF Match, Matches, Triggers
    <3>3. PICK names, match : names = plugin.skills /\ match = Match(0, "workflow")
      OBVIOUS
    <3>4. \A skill \in Range(skills) :
            skill.name \in Range(names) /\ SkillAllowed(skill, mode) => skill \in K /\ skill.name \in N
      BY <2>2, <3>1, <3>3
    <3>5. names \in Seq(Range(names)) /\ match \in Matches
      BY <2>2, <3>2, <3>3
    <3>6. TakeNamed(mode, skills, match, names, x) \in Selections(K, N)
      BY <3>4, <3>5, TakeNamedKeeps
    <3> QED
      BY <2>1, <2>3, <3>3, <3>6 DEF WithPlugin
  <2>4. CASE ~PluginSelected(task, plugin)
    BY <2>1, <2>4 DEF WithPlugin
  <2> QED
    BY <2>3, <2>4
<1>3. PICK U : U = Selections(K, N)
  OBVIOUS
<1>4. PluginsClosed(task, mode, skills, plugins, n, U)
  BY <1>2, <1>3 DEF PluginsClosed
<1>5. PICK c : /\ PluginsPasses(task, mode, skills, plugins, n, U, c) /\ c[0] = sel
               /\ c[n] = TakePlugins(task, mode, skills, plugins, sel)
  BY <1>1, <1>3, <1>4, PluginsRun
<1> QED
  BY <1>3, <1>5 DEF PluginsPasses

\* The skills that may be offered for a request, and those a step without confirmed ones offers.
Justified(request, mode) ==
  {skill \in Range(Skills) :
    /\ SkillAllowed(skill, mode)
    /\ IF request.forced # <<>> THEN skill.name \in Range(request.forced)
       ELSE \/ ScoreSkill(request.task, skill).score >= 80
            \/ \E plugin \in Range(Plugins) :
                 plugin.name \in request.task.names /\ skill.name \in Range(plugin.skills)}
Selected(request, mode, closing) ==
  SelectSkills(request.task, mode, Skills, Plugins, SkillPolicy(request.forced, Allowlist), <<>>,
               closing)

\* Whatever the steps of a selection drop and add, it is from these.
LEMMA SelectedFrom ==
  ASSUME NEW request \in Requests, NEW mode, NEW closing
  PROVE  Selected(request, mode, closing) \in Seq(Justified(request, mode))
<1> DEFINE task == request.task
           policy == SkillPolicy(request.forced, Allowlist)
           none == [skills |-> <<>>, audit |-> <<>>]
           forced == TakeForced(mode, Skills, policy.force, none)
           asked == TakeNamed(mode, Skills, Match(100, "explicit"), <<>>, forced)
           matching == TakeMatching(task, mode, Skills, policy, asked)
           matched == ScoreGap(policy, matching)
           bundled == TakePlugins(task, mode, Skills, Plugins, matched)
<1>1. PICK K, N : /\ K = Justified(request, mode)
                  /\ N = {skill.name : skill \in Range(Skills)} \cup Range(request.forced)
  OBVIOUS
<1>2. /\ Skills \in Seq(Range(Skills)) /\ Plugins \in Seq(Range(Plugins))
      /\ request.forced \in Seq(Range(request.forced))
      /\ \A plugin \in Range(Plugins) :
           plugin.skills \in Seq(Range(plugin.skills)) /\ task.alike[plugin.name] \in 0..100
      /\ \A skill \in Range(Skills) :
           task.alike[skill.name] \in 0..100 /\ task.recalled[skill.name] \in 0..100
  BY QuestionsAssumption DEF QuestionsAssumption, IsSequence
<1>3. policy.force = request.forced /\ (~policy.exclusive => request.forced = <<>>)
  BY DEF SkillPolicy
<1>4. none \in Selections(K, N)
  BY DEF Selections
<1>5. Range(<<>>) = {}
  BY DEF Range
<1>6. forced \in Selections(K, N)
  <2>1. \A skill \in Range(Skills) :
          skill.name \in Range(request.forced) /\ SkillAllowed(skill, mode) => skill \in K
    BY <1>1, <1>5 DEF Justified
  <2>2. PICK names : names = policy.force
    OBVIOUS
  <2>3. names \in Seq(Range(request.forced)) /\ Range(names) = Range(request.forced)
        /\ Range(names) \subseteq N
    BY <1>1, <1>2, <1>3, <2>2
  <2> HIDE DEF none
  <2>4. TakeForced(mode, Skills, names, none) \in Selections(K, N)
    BY <1>2, <1>4, <2>1, <2>3, TakeForcedKeeps
  <2> QED
    BY <2>2, <2>4
<1>7. asked \in Selections(K, N)
  <2>1. Match(100, "explicit") \in Matches
    BY DEF Match, Matches, Triggers
  <2>2. PICK names, match : names = <<>> /\ match = Match(100, "explicit")
    OBVIOUS
  <2>3. names \in Seq({}) /\ Range(names) = {} /\ match \in Matches
    BY <1>5, <2>1, <2>2
  <2> HIDE DEF forced
  <2>4. TakeNamed(mode, Skills, match, names, forced) \in Selections(K, N)
    BY <1>2, <1>6, <2>3, TakeNamedKeeps
  <2> QED
    BY <2>2, <2>4
<1>8. ASSUME ~policy.exclusive PROVE Truncate(policy, bundled) \in Selections(K, N)
  <2>1. request.forced = <<>>
    BY <1>3, <1>8
  <2>2. matching \in Selections(K, N)
    <3>1. \A skill \in Range(Skills) :
            /\ skill.name \in N
            /\ task.alike[skill.name] \in 0..100 /\ task.recalled[skill.name] \in 0..100
            /\ SkillAllowed(skill, mode) /\ ScoreSkill(task, skill).score >= 80 => skill \in K
      BY <1>1, <1>2, <2>1 DEF Justified
    <3> HIDE DEF asked, task, policy
    <3> QED
      BY <1>2, <1>7, <3>1, TakeMatchingKeeps
  <2>3. matched \in Selections(K, N)
    <3> HIDE DEF matching, policy
    <3> QED
      BY <2>2, FiltersKeep
  <2>4. bundled \in Selections(K, N)
    <3>1. \A plugin \in Range(Plugins), skill \in Range(Skills) :
            plugin.name \in task.names /\ skill.name \in Range(plugin.skills)
              /\ SkillAllowed(skill, mode) => skill \in K /\ skill.name \in N
      BY <1>1, <2>1 DEF Justified
    <3> HIDE DEF matched, task
    <3> QED
      BY <1>2, <2>3, <3>1, TakePluginsKeeps
  <2> HIDE DEF bundled, policy
  <2> QED
    BY <2>4, FiltersKeep
<1>9. Selected(request, mode, closing) =
        IF closing THEN <<>>
        ELSE IF policy.exclusive THEN asked.skills ELSE Truncate(policy, bundled).skills
  BY DEF Selected, SelectSkills
<1> HIDE DEF policy, asked, bundled
<1> QED
  BY <1>1, <1>7, <1>8, <1>9 DEF Selections

\* A skill that is the only one and lists its tools leaves no other.
LEMMA OneLimit ==
  ASSUME NEW skills, NEW skill \in Range(skills), \A other \in Range(skills) : other = skill,
         NEW tools
  PROVE  skill.tools = {} \/ OfferedTools(skills, tools) \subseteq skill.tools
<1> SUFFICES ASSUME skill.tools # {} PROVE OfferedTools(skills, tools) \subseteq skill.tools
  OBVIOUS
<1> DEFINE limits == {other.tools : other \in Range(skills)} \ {{}}
           common == {tool \in UNION limits : \A limit \in limits : tool \in limit}
<1>1. limits = {skill.tools}
  OBVIOUS
<1>2. common = skill.tools
  BY <1>1
<1>3. OfferedTools(skills, tools) = IF common = {} THEN tools ELSE tools \cap common
  BY DEF OfferedTools
<1> QED
  BY <1>2, <1>3

-----------------------------------------------------------------------------
(* Every offer is one of a step of its run.                                *)

\* The offer of a run, as a step of its request makes it, or none.
OfferFor(request, mode, closing, tools) ==
  LET selected == Selected(request, mode, closing) IN
    [skills |-> selected, tools |-> OfferedTools(selected, tools), mode |-> mode, closing |-> closing]
Made(r) ==
  /\ run[r].pc \in {"unborn", "ended"} => run[r].steps = 0
  /\ run[r].pc \notin {"unborn", "ended"} => Request(r) \in Requests
  /\ run[r].steps = 0 => run[r].offer = NoOffer
  /\ run[r].steps # 0 =>
       \E mode, tools : \E closing \in BOOLEAN : run[r].offer = OfferFor(Request(r), mode, closing, tools)
OffersMade == \A r \in Runs : run[r].steps \in Nat /\ Made(r)

\* A step of a run that is not its start, its end or a model step leaves its offer.
Stays(r) ==
  /\ run'[r].request = run[r].request /\ run'[r].steps = run[r].steps /\ run'[r].offer = run[r].offer
  /\ run[r].pc \notin {"unborn", "ended"} /\ run'[r].pc \notin {"unborn", "ended"}

\* Then what was said of the offer stays true.
LEMMA StaysMade ==
  ASSUME NEW r \in Runs, run[r].steps \in Nat, Made(r), Stays(r) \/ run'[r] = run[r]
  PROVE  run'[r].steps \in Nat /\ Made(r)'
BY DEF Made, Stays, Request

-----------------------------------------------------------------------------
(* The skills a user names.                                                *)

NamedSkills(request, mode) ==
  {skill \in Range(Skills) :
    /\ skill.name \in request.task.names /\ Enabled(skill.name, Allowlist)
    /\ SkillAllowed(skill, mode)}
NamesOf(skills) == {skill.name : skill \in skills}
Distinct(skills) == \A i, j \in DOMAIN skills : skills[i].name = skills[j].name => i = j

\* A selection that knows who is named: each note gives a named skill 100 and any other less,
\* each named skill has one, and no skill comes twice.
Knowing(K, N, J) ==
  {sel \in Selections(K, N) :
    /\ \A i \in DOMAIN sel.audit :
         IF sel.audit[i].name \in J THEN sel.audit[i].score = 100 /\ sel.audit[i].trigger = "explicit"
         ELSE sel.audit[i].score < 100
    /\ \A i \in DOMAIN sel.skills :
         sel.skills[i].name \in J => Places(sel.audit, sel.skills[i].name) # {}
    /\ Distinct(sel.skills)}
Rightful(J, name, match) ==
  IF name \in J THEN match.score = 100 /\ match.trigger = "explicit" ELSE match.score < 100

\* A rightful note keeps it so.
LEMMA NoteKnows ==
  ASSUME NEW K, NEW N, NEW J, NEW sel \in Knowing(K, N, J), NEW name \in N, NEW match \in Matches,
         Rightful(J, name, match)
  PROVE  /\ Note(sel, name, match) \in Knowing(K, N, J)
         /\ Note(sel, name, match).skills = sel.skills
         /\ Places(Note(sel, name, match).audit, name) # {}
<1>1. sel \in Selections(K, N)
  BY DEF Knowing
<1>2. PICK noted, note : noted = Note(sel, name, match) /\ note = NoteOf(name, match)
  OBVIOUS
<1>3. noted \in Selections(K, N) /\ noted.skills = sel.skills /\ noted.audit = Append(sel.audit, note)
      /\ note \in Notes(N)
  BY <1>1, <1>2, NoteMade
<1>4. note.name = name /\ note.score = match.score /\ note.trigger = match.trigger
  BY <1>2 DEF NoteOf
<1>5. PICK n \in Nat : n = Len(sel.audit) /\ DOMAIN sel.audit = 1..n
  BY <1>1 DEF Selections
<1>6. /\ DOMAIN noted.audit = 1..n+1 /\ noted.audit[n+1] = note
      /\ \A i \in 1..n : noted.audit[i] = sel.audit[i]
  BY <1>1, <1>3, <1>5 DEF Selections
<1>7. ASSUME NEW i \in DOMAIN noted.audit
      PROVE  IF noted.audit[i].name \in J
             THEN noted.audit[i].score = 100 /\ noted.audit[i].trigger = "explicit"
             ELSE noted.audit[i].score < 100
  <2>1. CASE i = n + 1
    BY <1>4, <1>6, <2>1 DEF Rightful
  <2>2. CASE i \in 1..n
    BY <1>5, <1>6, <2>2 DEF Knowing
  <2> QED
    BY <1>6, <2>1, <2>2
<1>8. ASSUME NEW other, Places(sel.audit, other) # {} PROVE Places(noted.audit, other) # {}
  BY <1>5, <1>6, <1>8 DEF Places
<1>9. Places(noted.audit, name) # {}
  BY <1>4, <1>6 DEF Places
<1>10. \A i \in DOMAIN noted.skills :
         noted.skills[i].name \in J => Places(noted.audit, noted.skills[i].name) # {}
  BY <1>3, <1>8 DEF Knowing
<1>11. Distinct(noted.skills)
  BY <1>3 DEF Knowing
<1>12. noted \in Knowing(K, N, J)
  BY <1>3, <1>7, <1>10, <1>11 DEF Knowing
<1> QED
  BY <1>2, <1>3, <1>9, <1>12

\* So does a skill that is taken with one; then it is in, and what was in stays.
LEMMA TakeKnows ==
  ASSUME NEW K, NEW N, NEW J, NEW sel \in Knowing(K, N, J), NEW skill \in K, skill.name \in N,
         NEW match \in Matches, Rightful(J, skill.name, match)
  PROVE  /\ Take(sel, skill, match) \in Knowing(K, N, J)
         /\ Range(sel.skills) \subseteq Range(Take(sel, skill, match).skills)
         /\ ~Has(sel, skill.name) => skill \in Range(Take(sel, skill, match).skills)
<1>1. sel \in Selections(K, N)
  BY DEF Knowing
<1>2. PICK noted, taken : noted = Note(sel, skill.name, match) /\ taken = Take(sel, skill, match)
  OBVIOUS
<1>3. /\ noted \in Knowing(K, N, J) /\ noted.skills = sel.skills
      /\ Places(noted.audit, skill.name) # {}
  BY <1>2, NoteKnows
<1>4. /\ taken \in Selections(K, N) /\ taken.audit = noted.audit
      /\ taken.skills = IF Has(sel, skill.name) THEN sel.skills ELSE Append(sel.skills, skill)
  <2>1. PICK name : name = skill.name
    OBVIOUS
  <2>2. noted.audit = Append(sel.audit, NoteOf(name, match))
    BY <1>1, <1>2, <2>1, NoteMade
  <2>3. /\ taken \in Selections(K, N) /\ taken.audit = Append(sel.audit, NoteOf(skill.name, match))
        /\ taken.skills = IF Has(sel, skill.name) THEN sel.skills ELSE Append(sel.skills, skill)
    BY <1>1, <1>2, TakeMade
  <2> QED
    BY <2>1, <2>2, <2>3
<1>5. CASE Has(sel, skill.name)
  <2>1. taken.skills = noted.skills
    BY <1>3, <1>4, <1>5
  <2>2. taken \in Knowing(K, N, J)
    BY <1>3, <1>4, <2>1 DEF Knowing
  <2> QED
    BY <1>2, <1>3, <1>5, <2>1, <2>2
<1>6. CASE ~Has(sel, skill.name)
  <2>1. PICK n \in Nat : n = Len(sel.skills) /\ DOMAIN sel.skills = 1..n
    BY <1>1 DEF Selections
  <2>2. /\ DOMAIN taken.skills = 1..n+1 /\ taken.skills[n+1] = skill
        /\ \A i \in 1..n : taken.skills[i] = sel.skills[i]
    BY <1>1, <1>4, <1>6, <2>1 DEF Selections
  <2>3. \A i \in 1..n : sel.skills[i].name # skill.name
    BY <1>6, <2>1 DEF Has
  <2>4. Distinct(sel.skills)
    BY DEF Knowing
  <2>5. Distinct(taken.skills)
    <3>1. ASSUME NEW i \in 1..n+1, NEW j \in 1..n+1, taken.skills[i].name = taken.skills[j].name
          PROVE  i = j
      <4>1. CASE i \in 1..n /\ j \in 1..n
        BY <2>1, <2>2, <2>4, <3>1, <4>1 DEF Distinct
      <4>2. CASE i = n + 1 /\ j \in 1..n
        BY <2>2, <2>3, <3>1, <4>2
      <4>3. CASE i \in 1..n /\ j = n + 1
        BY <2>2, <2>3, <3>1, <4>3
      <4> QED
        BY <4>1, <4>2, <4>3
    <3> QED
      BY <2>2, <3>1 DEF Distinct
  <2>6. ASSUME NEW i \in DOMAIN taken.skills, taken.skills[i].name \in J
        PROVE  Places(taken.audit, taken.skills[i].name) # {}
    <3>1. CASE i = n + 1
      BY <1>3, <1>4, <2>2, <3>1
    <3>2. CASE i \in 1..n
      BY <1>3, <1>4, <2>1, <2>2, <2>6, <3>2 DEF Knowing
    <3> QED
      BY <2>2, <3>1, <3>2
  <2>7. \A i \in DOMAIN taken.audit :
          IF taken.audit[i].name \in J
          THEN taken.audit[i].score = 100 /\ taken.audit[i].trigger = "explicit"
          ELSE taken.audit[i].score < 100
    BY <1>3, <1>4 DEF Knowing
  <2>8. taken \in Knowing(K, N, J)
    BY <1>4, <2>5, <2>6, <2>7 DEF Knowing
  <2>9. Range(taken.skills) = Range(sel.skills) \cup {skill}
    BY <1>1, <1>4, <1>6, AppendedRange DEF Selections
  <2> QED
    BY <1>2, <2>8, <2>9
<1> QED
  BY <1>5, <1>6

\* What the audit says first of a skill.
LEMMA FirstNoteKnows ==
  ASSUME NEW K, NEW N, NEW J, NEW sel \in Knowing(K, N, J), NEW name
  PROVE  /\ FirstNote(sel, name).score \in 0..100
         /\ name \notin J => FirstNote(sel, name).score < 100
         /\ name \in J /\ Places(sel.audit, name) # {} =>
              FirstNote(sel, name).score = 100 /\ FirstNote(sel, name).trigger = "explicit"
<1>1. sel \in Selections(K, N)
  BY DEF Knowing
<1>2. CASE Places(sel.audit, name) = {}
  BY <1>2 DEF FirstNote, Match
<1>3. CASE Places(sel.audit, name) # {}
  <2>1. PICK i \in DOMAIN sel.audit : Find(sel.audit, name) = sel.audit[i] /\ sel.audit[i].name = name
    <3>1. PICK audit : audit = sel.audit
      OBVIOUS
    <3>2. audit \in Seq(Notes(N)) /\ Registered(audit, name)
      BY <1>1, <1>3, <3>1 DEF Selections, Registered
    <3>3. \E i \in DOMAIN audit : Find(audit, name) = audit[i] /\ audit[i].name = name
      BY <3>2, Finds
    <3> QED
      BY <3>1, <3>3
  <2>2. FirstNote(sel, name) = sel.audit[i]
    BY <1>3, <2>1 DEF FirstNote
  <2>3. sel.audit[i] \in Notes(N)
    BY <1>1, <2>1 DEF Selections
  <2>4. sel.audit[i].score \in 0..100
    BY <2>3 DEF Notes
  <2>5. IF sel.audit[i].name \in J
        THEN sel.audit[i].score = 100 /\ sel.audit[i].trigger = "explicit"
        ELSE sel.audit[i].score < 100
    BY <2>1 DEF Knowing
  <2> QED
    BY <1>3, <2>1, <2>2, <2>4, <2>5
<1> QED
  BY <1>2, <1>3

\* Of a named skill it says 100.
LEMMA NamedFirst ==
  ASSUME NEW K, NEW N, NEW J, NEW sel \in Knowing(K, N, J), NEW name \in J, Places(sel.audit, name) # {}
  PROVE  FirstNote(sel, name).score = 100 /\ FirstNote(sel, name).trigger = "explicit"
BY FirstNoteKnows

\* The selections from the registered skills that know who is named in a request, and those
\* that hold all of them.
Knowers(request, mode) ==
  Knowing(Range(Skills), NamesOf(Range(Skills)), NamesOf(NamedSkills(request, mode)))
Holders(request, mode) ==
  {sel \in Knowers(request, mode) : NamedSkills(request, mode) \subseteq Range(sel.skills)}

\* A name is that of one skill.
LEMMA OneOfName ==
  ASSUME NEW skill \in Range(Skills), NEW other \in Range(Skills), skill.name = other.name
  PROVE  skill = other
<1>1. \A i, j \in DOMAIN Skills : Skills[i].name = Skills[j].name => i = j
  BY QuestionsAssumption DEF QuestionsAssumption
<1>2. PICK i \in DOMAIN Skills, j \in DOMAIN Skills : skill = Skills[i] /\ other = Skills[j]
  BY DEF Range
<1>3. i = j
  BY <1>1, <1>2
<1> QED
  BY <1>2, <1>3

\* A skill with the name of one that is named is that one.
LEMMA NamedByName ==
  ASSUME NEW request, NEW mode, NEW skill \in Range(Skills),
         skill.name \in NamesOf(NamedSkills(request, mode))
  PROVE  skill \in NamedSkills(request, mode)
<1>1. PICK named \in NamedSkills(request, mode) : named.name = skill.name
  BY DEF NamesOf
<1>2. named = skill
  BY <1>1, OneOfName DEF NamedSkills
<1> QED
  BY <1>2

\* A skill that is selected is there.
LEMMA HasIt ==
  ASSUME NEW request, NEW mode, NEW sel \in Knowers(request, mode), NEW skill \in Range(Skills)
  PROVE  Has(sel, skill.name) <=> skill \in Range(sel.skills)
<1>1. \A i \in DOMAIN sel.skills : sel.skills[i] \in Range(Skills)
  BY DEF Knowers, Knowing, Selections
<1>2. ASSUME Has(sel, skill.name) PROVE skill \in Range(sel.skills)
  <2>1. PICK i \in DOMAIN sel.skills : sel.skills[i].name = skill.name
    BY <1>2 DEF Has
  <2>2. sel.skills[i] = skill
    BY <1>1, <2>1, OneOfName
  <2> QED
    BY <2>2 DEF Range
<1>3. ASSUME skill \in Range(sel.skills) PROVE Has(sel, skill.name)
  BY <1>3 DEF Has, Range
<1> QED
  BY <1>2, <1>3

Gains(request, mode, sel, skill, with) ==
  /\ with \in Knowers(request, mode) /\ Range(sel.skills) \subseteq Range(with.skills)
  /\ skill \in NamedSkills(request, mode) => skill \in Range(with.skills)

\* A skill is considered: it comes in if it is named, and nothing goes.
LEMMA WithMatchingKnows ==
  ASSUME NEW request \in Requests, NEW mode, NEW policy, policy.enabled = Allowlist,
         NEW sel \in Knowers(request, mode), NEW skill \in Range(Skills), NEW with,
         with = WithMatching(request.task, mode, policy, sel, skill)
  PROVE  Gains(request, mode, sel, skill, with)
<1> DEFINE J == NamesOf(NamedSkills(request, mode))
<1>1. PICK match : match = ScoreSkill(request.task, skill)
  OBVIOUS
<1>2. with = IF Has(sel, skill.name) \/ ~Enabled(skill.name, Allowlist) THEN sel
             ELSE IF ~SkillAllowed(skill, mode) THEN Note(sel, skill.name, Match(0, "runtime_mode"))
             ELSE IF match.score >= 80 THEN Take(sel, skill, match) ELSE sel
  BY <1>1 DEF WithMatching, ShouldEnableSkill
<1>3. skill.name \in NamesOf(Range(Skills))
  BY DEF NamesOf
<1>4. /\ skill.name \in request.task.names => match = Match(100, "explicit")
      /\ match.score >= 80 => match \in Matches
      /\ match.score >= 80 /\ skill.name \notin request.task.names => match.score < 100
  BY <1>1, Scores, QuestionsAssumption DEF QuestionsAssumption
<1>5. skill.name \in J => skill \in NamedSkills(request, mode)
  BY NamedByName
<1>6. skill \in NamedSkills(request, mode) =>
        skill.name \in request.task.names /\ Enabled(skill.name, Allowlist) /\ SkillAllowed(skill, mode)
  BY DEF NamedSkills
<1>7. skill.name \in request.task.names /\ Enabled(skill.name, Allowlist) /\ SkillAllowed(skill, mode)
        => skill.name \in J
  BY DEF NamedSkills, NamesOf
<1> HIDE DEF J
<1>8. CASE Has(sel, skill.name) \/ ~Enabled(skill.name, Allowlist)
  BY <1>2, <1>6, <1>8, HasIt DEF Gains
<1>9. CASE ~Has(sel, skill.name) /\ Enabled(skill.name, Allowlist) /\ ~SkillAllowed(skill, mode)
  <2>1. PICK none : none = Match(0, "runtime_mode")
    OBVIOUS
  <2>2. none \in Matches /\ none.score = 0
    BY <2>1 DEF Match, Matches, Triggers
  <2>3. Rightful(J, skill.name, none)
    BY <1>5, <1>6, <1>9, <2>2 DEF Rightful
  <2>4. with = Note(sel, skill.name, none)
    BY <1>2, <1>9, <2>1
  <2>5. with \in Knowers(request, mode) /\ with.skills = sel.skills
    BY <1>3, <2>2, <2>3, <2>4, NoteKnows DEF Knowers, J
  <2> QED
    BY <1>6, <1>9, <2>5 DEF Gains
<1>10. CASE /\ ~Has(sel, skill.name) /\ Enabled(skill.name, Allowlist) /\ SkillAllowed(skill, mode)
            /\ match.score >= 80
  <2>1. match = Match(100, "explicit") => match.score = 100 /\ match.trigger = "explicit"
    BY DEF Match
  <2>2. Rightful(J, skill.name, match)
    BY <1>4, <1>5, <1>6, <1>7, <1>10, <2>1 DEF Rightful
  <2>3. with = Take(sel, skill, match)
    BY <1>2, <1>10
  <2>4. with \in Knowers(request, mode) /\ Range(sel.skills) \subseteq Range(with.skills)
        /\ skill \in Range(with.skills)
    BY <1>3, <1>4, <1>10, <2>2, <2>3, TakeKnows DEF Knowers, J
  <2> QED
    BY <2>4 DEF Gains
<1>11. CASE /\ ~Has(sel, skill.name) /\ Enabled(skill.name, Allowlist) /\ SkillAllowed(skill, mode)
            /\ ~ (match.score >= 80)
  <2>1. with = sel
    BY <1>2, <1>11
  <2>2. match = Match(100, "explicit") => match.score = 100
    BY DEF Match
  <2>3. skill \notin NamedSkills(request, mode)
    BY <1>4, <1>6, <1>11, <2>2
  <2> QED
    BY <2>1, <2>3 DEF Gains
<1> QED
  BY <1>8, <1>9, <1>10, <1>11

\* After all were considered, all that are named are in.
LEMMA MatchingHolds ==
  ASSUME NEW request \in Requests, NEW mode, NEW policy, policy.enabled = Allowlist,
         NEW sel \in Knowers(request, mode)
  PROVE  TakeMatching(request.task, mode, Skills, policy, sel) \in Holders(request, mode)
<1>1. PICK task, skills : task = request.task /\ skills = Skills
  OBVIOUS
<1>2. PICK n \in Nat : DOMAIN skills = 1..n
  BY <1>1, QuestionsAssumption DEF QuestionsAssumption, IsSequence
<1>3. PICK U : U = Knowers(request, mode)
  OBVIOUS
<1>4. ASSUME NEW k \in 1..n, NEW x \in U, NEW with, with = WithMatching(task, mode, policy, x, skills[k])
      PROVE  /\ with \in U /\ Range(x.skills) \subseteq Range(with.skills)
             /\ skills[k] \in NamedSkills(request, mode) => skills[k] \in Range(with.skills)
  <2>1. PICK skill : skill = skills[k]
    OBVIOUS
  <2>2. skill \in Range(Skills)
    BY <1>1, <1>2, <2>1 DEF Range
  <2> QED
    <3>1. x \in Knowers(request, mode) /\ with = WithMatching(request.task, mode, policy, x, skill)
      BY <1>1, <1>3, <1>4, <2>1
    <3>2. Gains(request, mode, x, skill, with)
      BY <2>2, <3>1, WithMatchingKnows
    <3> QED
      BY <1>3, <2>1, <3>2 DEF Gains
<1>5. MatchingClosed(task, mode, policy, skills, n, U)
  BY <1>4 DEF MatchingClosed
<1>6. PICK c : /\ MatchingPasses(task, mode, policy, skills, n, U, c) /\ c[0] = sel
               /\ c[n] = TakeMatching(task, mode, skills, policy, sel)
  BY <1>2, <1>3, <1>5, MatchingRuns
<1>7. c \in [0..n -> U] /\ \A k \in 1..n : c[k] = WithMatching(task, mode, policy, c[k-1], skills[k])
  BY <1>6 DEF MatchingPasses
<1> DEFINE Holds(k) == \A i \in 1..k : skills[i] \in NamedSkills(request, mode) => skills[i] \in Range(c[k].skills)
           G == {k \in 0..n : Holds(k)}
<1>8. 0 \in G
  OBVIOUS
<1>9. ASSUME NEW k \in 1..n, k - 1 \in G PROVE k \in G
  <2>1. c[k-1] \in U /\ c[k] = WithMatching(task, mode, policy, c[k-1], skills[k])
    BY <1>7
  <2>2. /\ Range(c[k-1].skills) \subseteq Range(c[k].skills)
        /\ skills[k] \in NamedSkills(request, mode) => skills[k] \in Range(c[k].skills)
    BY <1>4, <2>1
  <2>3. Holds(k-1)
    BY <1>9
  <2>4. ASSUME NEW i \in 1..k, skills[i] \in NamedSkills(request, mode)
        PROVE  skills[i] \in Range(c[k].skills)
    <3>1. CASE i = k
      BY <2>2, <2>4, <3>1
    <3>2. CASE i \in 1..k-1
      BY <2>2, <2>3, <2>4, <3>2
    <3> QED
      BY <3>1, <3>2
  <2> QED
    BY <2>4
<1>10. n \in G
  <2> HIDE DEF G
  <2> QED
    BY <1>8, <1>9, Reaches
<1>11. \A skill \in NamedSkills(request, mode) : skill \in Range(c[n].skills)
  <2>1. \A skill \in NamedSkills(request, mode) : \E i \in 1..n : skill = skills[i]
    BY <1>1, <1>2 DEF NamedSkills, Range
  <2> QED
    BY <1>10, <2>1
<1>12. c[n] \in U
  BY <1>7
<1> QED
  BY <1>1, <1>3, <1>6, <1>11, <1>12 DEF Holders

\* Dropping keeps the order: no skill comes twice.
LEMMA WithoutDistinct ==
  ASSUME NEW K, NEW seq \in Seq(K), NEW names, Distinct(seq)
  PROVE  Distinct(Without(seq, names))
<1>1. PICK n \in Nat : DOMAIN seq = 1..n
  OBVIOUS
<1>2. PICK c :
        /\ c \in [0..n -> Seq(K)] /\ c[0] = <<>> /\ c[n] = Without(seq, names)
        /\ \A k \in 1..n : c[k] = WithKept(names, c[k-1], seq[k])
  <2>1. PICK c : WithoutGoing(K, seq, names, n, c)
    BY <1>1, WithoutGoes
  <2> QED
    BY <2>1 DEF WithoutGoing
<1> DEFINE G == {k \in 0..n : /\ Distinct(c[k])
                              /\ \A i \in DOMAIN c[k] : \E j \in 1..k : c[k][i] = seq[j]}
<1>3. 0 \in G
  BY <1>2 DEF Distinct
<1>4. ASSUME NEW k \in 1..n, k - 1 \in G PROVE k \in G
  <2>1. /\ c[k-1] \in Seq(K) /\ seq[k] \in K /\ c[k] = WithKept(names, c[k-1], seq[k])
        /\ Distinct(c[k-1]) /\ \A i \in DOMAIN c[k-1] : \E j \in 1..k-1 : c[k-1][i] = seq[j]
    BY <1>1, <1>2, <1>4
  <2>2. CASE c[k] = c[k-1]
    <3>1. \A i \in DOMAIN c[k] : \E j \in 1..k : c[k][i] = seq[j]
      BY <2>1, <2>2
    <3> QED
      BY <2>1, <2>2, <3>1
  <2>3. CASE c[k] = Append(c[k-1], seq[k])
    <3>1. PICK m \in Nat : m = Len(c[k-1]) /\ DOMAIN c[k-1] = 1..m
      BY <2>1
    <3>2. /\ DOMAIN c[k] = 1..m+1 /\ c[k][m+1] = seq[k]
          /\ \A i \in 1..m : c[k][i] = c[k-1][i]
      BY <2>1, <2>3, <3>1
    <3>3. ASSUME NEW i \in 1..m PROVE c[k][i].name # seq[k].name
      <4>1. PICK j \in 1..k-1 : c[k-1][i] = seq[j]
        BY <2>1, <3>1
      <4>2. j \in 1..n /\ j # k
        OBVIOUS
      <4>3. seq[j].name # seq[k].name
        BY <1>1, <4>2 DEF Distinct
      <4> QED
        BY <3>2, <4>1, <4>3
    <3>4. ASSUME NEW i \in 1..m+1, NEW j \in 1..m+1, c[k][i].name = c[k][j].name PROVE i = j
      <4>1. CASE i \in 1..m /\ j \in 1..m
        BY <2>1, <3>1, <3>2, <3>4, <4>1 DEF Distinct
      <4>2. CASE i = m + 1 /\ j \in 1..m
        BY <3>2, <3>3, <3>4, <4>2
      <4>3. CASE i \in 1..m /\ j = m + 1
        BY <3>2, <3>3, <3>4, <4>3
      <4> QED
        BY <4>1, <4>2, <4>3
    <3>5. Distinct(c[k])
      BY <3>2, <3>4 DEF Distinct
    <3>6. ASSUME NEW i \in 1..m+1 PROVE \E j \in 1..k : c[k][i] = seq[j]
      <4>1. CASE i = m + 1
        BY <3>2, <4>1
      <4>2. CASE i \in 1..m
        <5>1. PICK j \in 1..k-1 : c[k-1][i] = seq[j]
          BY <2>1, <3>1, <4>2
        <5>2. j \in 1..k /\ c[k][i] = seq[j]
          BY <3>2, <4>2, <5>1
        <5> QED
          BY <5>2
      <4> QED
        BY <4>1, <4>2
    <3> QED
      BY <3>2, <3>5, <3>6
  <2> QED
    BY <2>1, <2>2, <2>3 DEF WithKept
<1>5. n \in G
  <2> HIDE DEF G
  <2> QED
    BY <1>3, <1>4, Reaches
<1> QED
  BY <1>2, <1>5

\* No gap between scores puts a named skill out.
LEMMA GapHolds ==
  ASSUME NEW request, NEW mode, NEW policy, NEW sel \in Holders(request, mode)
  PROVE  ScoreGap(policy, sel) \in Holders(request, mode)
<1>1. PICK K, N, J : /\ K = Range(Skills) /\ N = NamesOf(Range(Skills))
                     /\ J = NamesOf(NamedSkills(request, mode))
  OBVIOUS
<1>2. sel \in Knowing(K, N, J) /\ NamedSkills(request, mode) \subseteq Range(sel.skills)
      /\ sel \in Selections(K, N)
  BY <1>1 DEF Holders, Knowers, Knowing
<1> DEFINE names == {skill.name : skill \in Range(sel.skills)} \ Range(policy.force)
           Score(name) == FirstNote(sel, name).score
           worst == {name \in names : \E best \in names : Score(best) >= Score(name) + 20}
<1>3. ASSUME NEW name \in worst PROVE name \notin J
  <2>1. PICK best \in names : Score(best) >= Score(name) + 20
    OBVIOUS
  <2>2. Score(best) \in 0..100 /\ Score(name) \in 0..100
    BY <1>2, FirstNoteKnows
  <2>3. PICK i \in DOMAIN sel.skills : sel.skills[i].name = name
    BY DEF Range
  <2>4. name \in J => Places(sel.audit, name) # {}
    BY <1>2, <2>3 DEF Knowing
  <2>5. ASSUME name \in J PROVE Score(name) = 100
    <3>1. Places(sel.audit, name) # {}
      BY <2>4, <2>5
    <3>2. FirstNote(sel, name).score = 100
      <4> HIDE DEF worst, names
      <4> QED
        BY <1>2, <2>5, <3>1, NamedFirst
    <3> QED
      BY <3>2
  <2> QED
    BY <2>1, <2>2, <2>5
<1>4. ScoreGap(policy, sel) = sel \/ ScoreGap(policy, sel) = Drop(sel, worst)
  BY DEF ScoreGap
<1> HIDE DEF worst
<1>5. CASE ScoreGap(policy, sel) = Drop(sel, worst)
  <2>1. PICK dropped, seq : dropped = Drop(sel, worst) /\ seq = sel.skills
    OBVIOUS
  <2>2. /\ dropped \in Selections(K, N) /\ dropped.skills = Without(seq, worst)
        /\ dropped.audit = sel.audit /\ seq \in Seq(K) /\ Distinct(seq)
    BY <1>2, <2>1, DropIs DEF Selections, Knowing
  <2>3. Range(dropped.skills) = {skill \in Range(seq) : skill.name \notin worst}
    BY <2>2, WithoutIs
  <2>4. Distinct(dropped.skills)
    BY <2>2, WithoutDistinct
  <2>5. ASSUME NEW i \in DOMAIN dropped.skills, dropped.skills[i].name \in J
        PROVE  Places(dropped.audit, dropped.skills[i].name) # {}
    <3>1. dropped.skills[i] \in Range(seq)
      BY <2>3 DEF Range
    <3>2. PICK j \in DOMAIN sel.skills : dropped.skills[i] = sel.skills[j]
      BY <2>1, <3>1 DEF Range
    <3> QED
      BY <1>2, <2>2, <2>5, <3>2 DEF Knowing
  <2>6. dropped \in Knowing(K, N, J)
    BY <1>2, <2>2, <2>4, <2>5 DEF Knowing
  <2>7. ASSUME NEW skill \in NamedSkills(request, mode) PROVE skill \in Range(dropped.skills)
    <3>1. skill.name \in J /\ skill \in Range(seq)
      BY <1>1, <1>2, <2>1 DEF NamesOf
    <3> QED
      BY <1>3, <2>3, <3>1
  <2> QED
    BY <1>1, <1>5, <2>1, <2>6, <2>7 DEF Holders, Knowers
<1> QED
  BY <1>4, <1>5

\* No plugin's skill takes the place of one.
LEMMA NamedHolds ==
  ASSUME NEW request, NEW mode, NEW match, match = Match(0, "workflow"),
         NEW sel \in Holders(request, mode), NEW name
  PROVE  WithNamed(mode, Skills, match, sel, name) \in Holders(request, mode)
<1> DEFINE J == NamesOf(NamedSkills(request, mode))
<1>1. PICK skill : skill = Find(Skills, name)
  OBVIOUS
<1>2. CASE ~Has(sel, name) /\ Registered(Skills, name) /\ SkillAllowed(skill, mode)
  <2>1. Skills \in Seq(Range(Skills))
    BY QuestionsAssumption DEF QuestionsAssumption, IsSequence
  <2>2. skill \in Range(Skills) /\ skill.name = name
    BY <1>1, <1>2, <2>1, Finds DEF Range
  <2>3. match \in Matches /\ match.score = 0 /\ name \in NamesOf(Range(Skills))
    BY <2>2 DEF Match, Matches, Triggers, NamesOf
  <2>4. sel \in Knowers(request, mode) /\ NamedSkills(request, mode) \subseteq Range(sel.skills)
    BY DEF Holders
  <2>5. name \notin J
    BY <1>2, <2>2, <2>4, HasIt, NamedByName
  <2>6. Rightful(J, name, match)
    BY <2>3, <2>5 DEF Rightful
  <2> HIDE DEF J
  <2>7. PICK with : with = Take(sel, skill, match)
    OBVIOUS
  <2>8. with \in Knowers(request, mode) /\ Range(sel.skills) \subseteq Range(with.skills)
    BY <2>2, <2>3, <2>4, <2>6, <2>7, TakeKnows DEF Knowers, J
  <2>9. with \in Holders(request, mode)
    BY <2>4, <2>8 DEF Holders
  <2> QED
    BY <1>1, <1>2, <2>7, <2>9 DEF WithNamed
<1> QED
  BY <1>1, <1>2 DEF WithNamed

\* So no plugin does.
LEMMA PluginsHold ==
  ASSUME NEW request, NEW mode, NEW task, NEW sel \in Holders(request, mode)
  PROVE  TakePlugins(task, mode, Skills, Plugins, sel) \in Holders(request, mode)
<1>1. PICK U, skills, plugins : U = Holders(request, mode) /\ skills = Skills /\ plugins = Plugins
  OBVIOUS
<1>2. PICK n \in Nat : DOMAIN plugins = 1..n
  BY <1>1, QuestionsAssumption DEF QuestionsAssumption, IsSequence
<1>3. ASSUME NEW x \in U, NEW k \in 1..n PROVE WithPlugin(task, mode, skills, x, plugins[k]) \in U
  <2>1. PICK plugin : plugin = plugins[k]
    OBVIOUS
  <2>2. PICK names, match : names = plugin.skills /\ match = Match(0, "workflow")
    OBVIOUS
  <2>3. names \in Seq(Range(names))
    BY <1>1, <1>2, <2>1, <2>2, QuestionsAssumption DEF QuestionsAssumption, IsSequence, Range
  <2>4. PICK m \in Nat : DOMAIN names = 1..m
    BY <2>3
  <2>5. NamedClosed(mode, skills, match, names, m, U)
    BY <1>1, <2>2, NamedHolds DEF NamedClosed
  <2>6. PICK c : NamedPasses(mode, skills, match, names, m, U, c) /\ c[0] = x
                 /\ c[m] = TakeNamed(mode, skills, match, names, x)
    BY <2>4, <2>5, NamedRuns
  <2>7. TakeNamed(mode, skills, match, names, x) \in U
    BY <2>6 DEF NamedPasses
  <2> QED
    BY <2>1, <2>2, <2>7 DEF WithPlugin
<1>4. PluginsClosed(task, mode, skills, plugins, n, U)
  BY <1>3 DEF PluginsClosed
<1>5. PICK c : PluginsPasses(task, mode, skills, plugins, n, U, c) /\ c[0] = sel
               /\ c[n] = TakePlugins(task, mode, skills, plugins, sel)
  BY <1>1, <1>2, <1>4, PluginsRun
<1>6. c[n] \in U
  BY <1>5 DEF PluginsPasses
<1> QED
  BY <1>1, <1>5, <1>6

\* What two of them make of a set.
LEMMA TwoOf ==
  ASSUME NEW n \in Nat, NEW S \in SUBSET (1..n)
  PROVE  Cardinality(S) >= 2 <=> \E x, y \in S : x # y
<1>1. IsFiniteSet(S)
  <2>1. IsFiniteSet(1..n)
    BY FS_Interval
  <2> QED
    BY <2>1, FS_Subset
<1>2. Cardinality(S) \in Nat
  BY <1>1, FS_CardinalityType
<1>3. ASSUME NEW x \in S PROVE Cardinality(S \ {x}) = Cardinality(S) - 1 /\ IsFiniteSet(S \ {x})
  BY <1>1, FS_RemoveElement
<1>4. ASSUME Cardinality(S) >= 2 PROVE \E x, y \in S : x # y
  <2>1. S # {}
    BY <1>4, FS_EmptySet
  <2>2. PICK x \in S : TRUE
    BY <2>1
  <2>3. Cardinality(S \ {x}) # 0
    BY <1>2, <1>3, <1>4
  <2>4. S \ {x} # {}
    BY <2>3, FS_EmptySet
  <2> QED
    BY <2>4
<1>5. ASSUME NEW x \in S, NEW y \in S, x # y PROVE Cardinality(S) >= 2
  <2>1. S \ {x} # {}
    BY <1>5
  <2>2. Cardinality(S \ {x}) # 0
    BY <1>3, <2>1, FS_EmptySet
  <2>3. Cardinality(S \ {x}) \in Nat
    BY <1>3, FS_CardinalityType
  <2> QED
    BY <1>2, <1>3, <2>2, <2>3
<1> QED
  BY <1>4, <1>5

\* Of a sequence that keeps two of its places, two are left.
LEMMA TwoLeft ==
  ASSUME NEW K, NEW seq \in Seq(K), NEW names, NEW a \in DOMAIN seq, NEW b \in DOMAIN seq, a < b,
         \A i \in DOMAIN seq : seq[i].name \notin names <=> i \in {a, b}
  PROVE  Len(Without(seq, names)) = 2
<1>1. PICK n \in Nat : DOMAIN seq = 1..n
  OBVIOUS
<1>2. PICK c :
        /\ c \in [0..n -> Seq(K)] /\ c[0] = <<>> /\ c[n] = Without(seq, names)
        /\ \A k \in 1..n : c[k] = WithKept(names, c[k-1], seq[k])
  <2>1. PICK c : WithoutGoing(K, seq, names, n, c)
    BY <1>1, WithoutGoes
  <2> QED
    BY <2>1 DEF WithoutGoing
<1> DEFINE Left(k) == IF k < a THEN 0 ELSE IF k < b THEN 1 ELSE 2
           G == {k \in 0..n : Len(c[k]) = Left(k)}
<1>3. 0 \in G
  BY <1>1, <1>2
<1>4. ASSUME NEW k \in 1..n, k - 1 \in G PROVE k \in G
  <2>1. c[k-1] \in Seq(K) /\ seq[k] \in K /\ c[k] = WithKept(names, c[k-1], seq[k])
        /\ Len(c[k-1]) = Left(k-1)
    <3>1. k - 1 \in 0..n /\ Len(c[k-1]) = Left(k-1)
      <4> HIDE DEF Left
      <4> QED
        BY <1>4
    <3>2. c[k-1] \in Seq(K)
      BY <1>2, <3>1
    <3>3. seq[k] \in K
      BY <1>1
    <3>4. c[k] = WithKept(names, c[k-1], seq[k])
      BY <1>2
    <3> QED
      BY <3>1, <3>2, <3>3, <3>4
  <2>2. CASE k \in {a, b}
    <3>1. c[k] = Append(c[k-1], seq[k])
      BY <1>1, <2>1, <2>2 DEF WithKept
    <3>2. Len(c[k]) = Left(k-1) + 1
      BY <2>1, <3>1
    <3> QED
      BY <1>1, <2>2, <3>2
  <2>3. CASE k \notin {a, b}
    <3>1. c[k] = c[k-1]
      BY <1>1, <2>1, <2>3 DEF WithKept
    <3> QED
      BY <1>1, <2>1, <2>3, <3>1
  <2> QED
    BY <2>2, <2>3
<1>5. n \in G
  <2> HIDE DEF G
  <2> QED
    BY <1>3, <1>4, Reaches
<1>6. Left(n) = 2
  BY <1>1
<1> QED
  BY <1>2, <1>5, <1>6

\* Among those that are named only the place counts, and they come before all others.
LEMMA NamedOutrank ==
  ASSUME NEW K, NEW N, NEW J, NEW sel \in Knowing(K, N, J),
         NEW i \in DOMAIN sel.skills, NEW k \in DOMAIN sel.skills
  PROVE  /\ sel.skills[k].name \in J =>
              (Outranks(sel, i, k) <=> sel.skills[i].name \in J /\ i < k)
         /\ sel.skills[k].name \notin J /\ sel.skills[i].name \in J => Outranks(sel, i, k)
<1>1. PICK a, b : a = FirstNote(sel, sel.skills[i].name) /\ b = FirstNote(sel, sel.skills[k].name)
  OBVIOUS
<1>2. Outranks(sel, i, k) <=>
        \/ a.score > b.score
        \/ a.score = b.score /\ Priority(a.trigger) > Priority(b.trigger)
        \/ a.score = b.score /\ Priority(a.trigger) = Priority(b.trigger) /\ i < k
  BY <1>1 DEF Outranks
<1>3. a.score \in 0..100 /\ b.score \in 0..100
  BY <1>1, FirstNoteKnows
<1>4. ASSUME NEW j \in DOMAIN sel.skills, sel.skills[j].name \in J
      PROVE  Places(sel.audit, sel.skills[j].name) # {}
  BY <1>4 DEF Knowing
<1>5. sel.skills[i].name \in J => a.score = 100 /\ a.trigger = "explicit"
  BY <1>1, <1>4, NamedFirst
<1>6. sel.skills[k].name \in J => b.score = 100 /\ b.trigger = "explicit"
  BY <1>1, <1>4, NamedFirst
<1>7. (sel.skills[i].name \notin J => a.score < 100) /\ (sel.skills[k].name \notin J => b.score < 100)
  BY <1>1, FirstNoteKnows
<1>8. Priority("explicit") = 5
  BY DEF Priority
<1>9. i \in Int /\ k \in Int
  BY DEF Knowing, Selections
<1> QED
  BY <1>2, <1>3, <1>5, <1>6, <1>7, <1>8, <1>9

\* When the places are cut to two, those that are named all stay, or two of them alone do.
LEMMA TruncateKeepsNamed ==
  ASSUME NEW request, NEW mode, NEW policy, policy.most = 2, NEW sel \in Holders(request, mode)
  PROVE  LET left == Truncate(policy, sel).skills IN
           \/ NamedSkills(request, mode) \subseteq Range(left)
           \/ Len(left) = 2 /\ Range(left) \subseteq NamedSkills(request, mode)
<1>1. PICK K, N, J : /\ K = Range(Skills) /\ N = NamesOf(Range(Skills))
                     /\ J = NamesOf(NamedSkills(request, mode))
  OBVIOUS
<1>2. sel \in Knowing(K, N, J) /\ NamedSkills(request, mode) \subseteq Range(sel.skills)
      /\ sel \in Selections(K, N)
  BY <1>1 DEF Holders, Knowers, Knowing
<1>3. PICK s, n : s = sel.skills /\ n = Len(s)
  OBVIOUS
<1>4. n \in Nat /\ DOMAIN s = 1..n /\ s \in Seq(K) /\ Distinct(s)
  BY <1>2, <1>3 DEF Selections, Knowing
<1> DEFINE Above(k) == {i \in 1..n : Outranks(sel, i, k)}
           over == {k \in 1..n : Cardinality(Above(k)) >= 2}
           worst == {s[j].name : j \in over}
<1>5. Truncate(policy, sel).skills = Without(s, worst)
  <2>1. Truncate(policy, sel) = Drop(sel, worst)
    BY <1>3, <1>4 DEF Truncate
  <2> HIDE DEF worst
  <2> QED
    BY <1>2, <1>3, <2>1, DropIs
<1>6. Range(Without(s, worst)) = {skill \in Range(s) : skill.name \notin worst}
  <2> HIDE DEF worst
  <2> QED
    BY <1>4, WithoutIs
<1>7. ASSUME NEW j \in 1..n PROVE s[j].name \in worst <=> \E x, y \in Above(j) : x # y
  <2>1. s[j].name \in worst <=> j \in over
    <3>1. \A i \in over : i \in 1..n
      OBVIOUS
    <3> HIDE DEF over
    <3>2. ASSUME s[j].name \in worst PROVE j \in over
      <4>1. PICK i \in over : s[i].name = s[j].name
        BY <3>2
      <4>2. i = j
        BY <1>4, <3>1, <4>1 DEF Distinct
      <4> QED
        BY <4>2
    <3> QED
      BY <3>2
  <2>2. Above(j) \in SUBSET (1..n)
    OBVIOUS
  <2>3. Cardinality(Above(j)) >= 2 <=> \E x, y \in Above(j) : x # y
    <3> HIDE DEF Above
    <3> QED
      BY <1>4, <2>2, TwoOf
  <2> QED
    BY <2>1, <2>3
<1>8. ASSUME NEW i \in 1..n, NEW k \in 1..n
      PROVE  /\ s[k].name \in J => (i \in Above(k) <=> s[i].name \in J /\ i < k)
             /\ s[k].name \notin J /\ s[i].name \in J => i \in Above(k)
  BY <1>2, <1>3, <1>4, NamedOutrank
<1>9. ASSUME NEW skill \in Range(s), skill.name \in J PROVE skill \in NamedSkills(request, mode)
  <2>1. skill \in Range(Skills)
    BY <1>1, <1>4 DEF Range
  <2> QED
    BY <1>1, <1>9, <2>1, NamedByName
<1>10. CASE \A k \in 1..n : s[k].name \in J => s[k].name \notin worst
  <2>1. ASSUME NEW skill \in NamedSkills(request, mode) PROVE skill \in Range(Without(s, worst))
    <3>1. skill \in Range(s) /\ skill.name \in J
      BY <1>1, <1>2, <1>3 DEF NamesOf
    <3>2. PICK k \in 1..n : skill = s[k]
      BY <1>4, <3>1 DEF Range
    <3> QED
      BY <1>6, <1>10, <3>1, <3>2
  <2> QED
    BY <1>5, <2>1
<1>11. ASSUME NEW k \in 1..n, s[k].name \in J, s[k].name \in worst
       PROVE  Len(Without(s, worst)) = 2
              /\ Range(Without(s, worst)) \subseteq NamedSkills(request, mode)
  <2>1. PICK x \in Above(k), y \in Above(k) : x # y
    BY <1>7, <1>11
  <2>2. x \in 1..n /\ y \in 1..n /\ s[x].name \in J /\ s[y].name \in J
    BY <1>8, <1>11
  <2> DEFINE Named == {i \in 1..n : s[i].name \in J}
  <2>3. PICK a \in Named : \A i \in Named : a <= i
    <3>1. Named \in SUBSET Nat /\ Named # {}
      BY <2>2
    <3> HIDE DEF Named
    <3> QED
      BY <3>1, HasSmallest
  <2>4. PICK b \in Named \ {a} : \A i \in Named \ {a} : b <= i
    <3>1. Named \ {a} \in SUBSET Nat /\ Named \ {a} # {}
      BY <2>1, <2>2
    <3> HIDE DEF Named
    <3> QED
      BY <3>1, HasSmallest
  <2>5. a \in 1..n /\ b \in 1..n /\ s[a].name \in J /\ s[b].name \in J /\ a < b
    BY <2>3, <2>4
  <2>6. ASSUME NEW j \in 1..n PROVE s[j].name \notin worst <=> j \in {a, b}
    <3>1. CASE j = a
      <4>1. \A i \in 1..n : i \notin Above(j)
        BY <1>8, <2>3, <2>5, <3>1
      <4> HIDE DEF worst
      <4> QED
        BY <1>7, <3>1, <4>1
    <3>2. CASE j = b
      <4>1. \A i \in 1..n : i \in Above(j) => i = a
        BY <1>8, <2>4, <2>5, <3>2
      <4> HIDE DEF worst
      <4> QED
        BY <1>7, <3>2, <4>1
    <3>3. CASE j \notin {a, b}
      <4>1. a \in Above(j) /\ b \in Above(j)
        <5>1. CASE s[j].name \in J
          <6>1. a < j /\ b < j
            BY <2>3, <2>4, <2>5, <3>3, <5>1
          <6> QED
            BY <1>8, <2>5, <5>1, <6>1
        <5>2. CASE s[j].name \notin J
          BY <1>8, <2>5, <5>2
        <5> QED
          BY <5>1, <5>2
      <4>2. a # b
        BY <2>5
      <4> HIDE DEF worst, Above
      <4> QED
        BY <1>7, <3>3, <4>1, <4>2
    <3> QED
      BY <3>1, <3>2, <3>3
  <2> HIDE DEF worst
  <2>7. Len(Without(s, worst)) = 2
    BY <1>4, <2>5, <2>6, TwoLeft
  <2>8. ASSUME NEW skill \in Range(Without(s, worst)) PROVE skill \in NamedSkills(request, mode)
    <3>1. skill \in Range(s) /\ skill.name \notin worst
      BY <1>6
    <3>2. PICK j \in 1..n : skill = s[j]
      BY <1>4, <3>1 DEF Range
    <3>3. skill.name \in J
      BY <2>5, <2>6, <3>1, <3>2
    <3> QED
      BY <1>9, <3>1, <3>3
  <2> QED
    BY <2>7, <2>8
<1> QED
  BY <1>5, <1>10, <1>11

\* A step changes one run, and only its start, a model step and its end change what it offers.
Moves(r) ==
  /\ \A q \in Runs \ {r} : run'[q] = run[q]
  /\ \/ Stays(r) \/ run'[r] = run[r]
     \/ /\ run'[r].request \in Requests /\ run'[r].steps = run[r].steps /\ run'[r].offer = run[r].offer
        /\ run[r].pc = "unborn"
     \/ ModelStep(r) /\ run[r].pc \notin {"unborn", "ended"}
     \/ run'[r].steps = 0 /\ run'[r].offer = NoOffer /\ run'[r].pc = "ended"

\* Each action of a run moves it in one of these ways.
LEMMA RunStepMoves ==
  ASSUME IInv, NEW r \in Runs,
         Start(r) \/ RunStep(r) \/ ModelStep(r) \/ Abort(r) \/ TypeClarification(r) \/ TypeConfirmation(r)
  PROVE  Moves(r)
<1>0. DOMAIN run = Runs /\ DOMAIN run[r] = DOMAIN Unborn
  BY DEF IInv, Shaped
<1>1. ASSUME NEW pc \in {"clarify", "clarifying", "clarified", "choose", "confirm", "stepping", "failing"},
             run[r].pc \notin {"unborn", "ended"}, run' = [run EXCEPT ![r].pc = pc]
      PROVE  Moves(r)
  BY <1>0, <1>1 DEF Moves, Stays, Unborn
<1>2. ASSUME NEW k, NEW confirmed, run[r].pc \notin {"unborn", "ended"},
             run' = Question(r, k, confirmed)
      PROVE  Moves(r)
  <2>1. PICK pc \in {"confirming", "confirmed"} :
          run' = [run EXCEPT ![r].at = k, ![r].confirmed = confirmed, ![r].pc = pc]
    <3>1. PICK pc : pc = IF k <= Len(Asked(r)) THEN "confirming" ELSE "confirmed"
      OBVIOUS
    <3> QED
      BY <1>2, <3>1 DEF Question
  <2> QED
    BY <1>0, <1>2, <2>1 DEF Moves, Stays, Unborn
<1>3. CASE Start(r)
  <2>1. PICK request \in Requests :
          run' = [run EXCEPT ![r].pc = "started", ![r].request = request]
    BY <1>3 DEF Start
  <2>2. run[r].pc = "unborn"
    BY <1>3 DEF Start
  <2> QED
    BY <1>0, <2>1, <2>2 DEF Moves, Unborn
<1>4. CASE RequestClarify(r) \/ AskClarify(r) \/ TakeClarification(r) \/ RequestConfirm(r)
           \/ TakeConfirmations(r) \/ TypeClarification(r) \/ ModelReplies(r)
  <2>1. run[r].pc \notin {"unborn", "ended"}
    BY <1>4 DEF RequestClarify, AskClarify, TakeClarification, RequestConfirm, TakeConfirmations,
                TypeClarification, ModelReplies
  <2>2. \E pc \in {"clarify", "clarifying", "clarified", "choose", "confirm", "stepping", "failing"} :
          run' = [run EXCEPT ![r].pc = pc]
    BY <1>4 DEF RequestClarify, AskClarify, TakeClarification, RequestConfirm, TakeConfirmations,
                TypeClarification, Clarified, Goes, ModelReplies
  <2> QED
    BY <1>1, <2>1, <2>2
<1>5. CASE AskConfirm(r)
  <2>1. run[r].pc \notin {"unborn", "ended"}
    BY <1>5 DEF AskConfirm
  <2>2. run' = [run EXCEPT ![r].pc = "failing"] \/ run' = Question(r, 1, <<>>)
    BY <1>5 DEF AskConfirm, Goes
  <2> QED
    BY <1>1, <1>2, <2>1, <2>2
<1>6. CASE TypeConfirmation(r)
  <2>1. run[r].pc \notin {"unborn", "ended"}
    BY <1>6 DEF TypeConfirmation
  <2>2. PICK yes \in BOOLEAN : run' = Question(r, run[r].at + 1, Confirmed(r, yes))
    BY <1>6 DEF TypeConfirmation
  <2> QED
    BY <1>2, <2>1, <2>2
<1>7. CASE ModelStep(r)
  <2>1. PICK offer : Offer(r, offer)
    BY <1>7, ModelStepFacts
  <2>2. \A q \in Runs \ {r} : run'[q] = run[q]
    BY <1>0, <2>1 DEF Offer, Unborn
  <2>3. run[r].pc = "stepping"
    BY <1>7, ModelStepFacts
  <2> QED
    BY <1>7, <2>2, <2>3 DEF Moves
<1>8. CASE End(r)
  BY <1>0, <1>8 DEF End, Unborn, Moves
<1>9. CASE Abort(r)
  <2>1. PICK pc : pc = AbortedWait(r)
    OBVIOUS
  <2>2. run' = [run EXCEPT ![r].aborted = TRUE, ![r].pc = pc] /\ run[r].pc \notin {"unborn", "ended"}
    BY <1>9, <2>1 DEF Abort
  <2>3. pc \notin {"unborn", "ended"}
    BY <2>1, <2>2 DEF AbortedWait
  <2> QED
    BY <1>0, <2>2, <2>3 DEF Moves, Stays, Unborn
<1> QED
  BY <1>3, <1>4, <1>5, <1>6, <1>7, <1>8, <1>9 DEF RunStep

\* An answer moves the run that waits for it.
LEMMA DeliverMoves ==
  ASSUME IInv, NEW post, DeliverClarification(post) \/ DeliverConfirmation(post)
  PROVE  UNCHANGED run \/ (post.run \in Runs /\ Moves(post.run))
<1> DEFINE r == post.run
<1>0. clarifies \subseteq Runs /\ DOMAIN confirms \subseteq Runs /\ DOMAIN run = Runs
      /\ \A q \in Runs : DOMAIN run[q] = DOMAIN Unborn
  BY DEF IInv, Shaped
<1>1. CASE r \in clarifies /\ run' = Clarified(r)
  <2>1. r \in Runs /\ RightFor(r)
    BY <1>0, <1>1, RightForAll DEF IInv
  <2>2. run[r].pc = "clarifying"
    BY <1>1, <2>1 DEF RightFor, Waits
  <2>3. run' = [run EXCEPT ![r].pc = "clarified"]
    BY <1>1 DEF Clarified
  <2> HIDE DEF r
  <2>4. Moves(r)
    BY <1>0, <2>1, <2>2, <2>3 DEF Moves, Stays, Unborn
  <2> QED
    BY <2>1, <2>4 DEF r
<1>2. CASE r \in DOMAIN confirms /\ run' = Question(r, run[r].at + 1, Confirmed(r, post.yes))
  <2>1. r \in Runs /\ RightFor(r)
    BY <1>0, <1>2, RightForAll DEF IInv
  <2>2. run[r].pc = "confirming"
    BY <1>2, <2>1 DEF RightFor, Waits
  <2>3. PICK k, confirmed, pc :
          /\ run' = [run EXCEPT ![r].at = k, ![r].confirmed = confirmed, ![r].pc = pc]
          /\ pc \in {"confirming", "confirmed"}
    <3>1. PICK pc : pc = IF run[r].at + 1 <= Len(Asked(r)) THEN "confirming" ELSE "confirmed"
      OBVIOUS
    <3> QED
      BY <1>2, <3>1, Zenon DEF Question
  <2> HIDE DEF r
  <2>4. Moves(r)
    BY <1>0, <2>1, <2>2, <2>3 DEF Moves, Stays, Unborn
  <2> QED
    BY <2>1, <2>4 DEF r
<1> QED
  BY <1>1, <1>2 DEF DeliverClarification, DeliverConfirmation

\* A model step makes its offer of the run's request.
LEMMA ModelStepMakes ==
  ASSUME IInv, NEW r \in Runs, run[r].steps \in Nat, Made(r), ModelStep(r),
         run[r].pc \notin {"unborn", "ended"}
  PROVE  run'[r].steps \in Nat /\ Made(r)'
<1>0. DOMAIN run = Runs /\ DOMAIN run[r] = DOMAIN Unborn
  BY DEF IInv, Shaped
<1>1. PICK planning \in BOOLEAN, closing \in BOOLEAN,
          gated \in {MutationsGated(r, calls, modified) : calls \in SUBSET Calls, modified \in BOOLEAN} :
        Offer(r, StepOffer(r, planning, closing, gated))
  BY DEF ModelStep
<1>2. PICK mode, tools :
        /\ mode = (IF planning THEN "plan" ELSE Request(r).mode)
        /\ tools = SelectTools(Tools, Request(r).mode, planning, closing, gated)
  OBVIOUS
<1>3. StepOffer(r, planning, closing, gated) = OfferFor(Request(r), mode, closing, tools)
  BY <1>2 DEF StepOffer, OfferFor, Selected, RunPolicy, KnownConfirmed
<1>4. PICK offer : offer = OfferFor(Request(r), mode, closing, tools)
  OBVIOUS
<1>5. run' = [run EXCEPT ![r].steps = @ + 1, ![r].offer = offer, ![r].pc = "calling"]
  BY <1>1, <1>3, <1>4 DEF Offer
<1>6. /\ run'[r].steps = run[r].steps + 1 /\ run'[r].offer = offer /\ run'[r].pc = "calling"
      /\ run'[r].request = run[r].request
  BY <1>0, <1>5 DEF Unborn
<1>7. Request(r)' = Request(r)
  BY <1>6 DEF Request
<1>8. run'[r].steps \in Nat /\ run'[r].steps # 0
  BY <1>6
<1>9. \E m, t : \E c \in BOOLEAN : run'[r].offer = OfferFor(Request(r), m, c, t)
  BY <1>4, <1>6
<1> QED
  BY <1>6, <1>7, <1>8, <1>9 DEF Made

\* The invariant of offers is kept by every step.
LEMMA NextMade == IInv /\ OffersMade /\ [Next]_vars => OffersMade'
<1> SUFFICES ASSUME IInv, OffersMade, [Next]_vars PROVE OffersMade'
  OBVIOUS
<1>1. ASSUME NEW r \in Runs, Moves(r) PROVE OffersMade'
  <2>1. \A q \in Runs : run[q].steps \in Nat /\ Made(q)
    BY DEF OffersMade
  <2>2. ASSUME NEW q \in Runs PROVE run'[q].steps \in Nat /\ Made(q)'
    <3>1. CASE q # r \/ Stays(r) \/ run'[r] = run[r]
      <4>1. Stays(q) \/ run'[q] = run[q]
        BY <1>1, <3>1 DEF Moves
      <4> QED
        BY <2>1, <4>1, StaysMade
    <3>2. CASE q = r /\ ModelStep(r) /\ run[r].pc \notin {"unborn", "ended"}
      BY <2>1, <3>2, ModelStepMakes
    <3>3. CASE /\ q = r /\ run'[r].request \in Requests /\ run'[r].steps = run[r].steps
               /\ run'[r].offer = run[r].offer /\ run[r].pc = "unborn"
      BY <2>1, <3>3 DEF Made, Request
    <3>4. CASE q = r /\ run'[r].steps = 0 /\ run'[r].offer = NoOffer /\ run'[r].pc = "ended"
      BY <3>4 DEF Made
    <3> QED
      BY <1>1, <3>1, <3>2, <3>3, <3>4 DEF Moves
  <2> QED
    BY <2>2 DEF OffersMade
<1>2. CASE UNCHANGED run
  BY <1>2 DEF OffersMade, Made, Request
<1>3. ASSUME NEW r \in Runs, SendAnswer(r) PROVE UNCHANGED run
  BY <1>3 DEF SendAnswer
<1>4. CASE UNCHANGED vars
  BY <1>2, <1>4 DEF vars
<1>5. CASE Next
  BY <1>1, <1>2, <1>3, <1>5, RunStepMoves, DeliverMoves DEF Next
<1> QED
  BY <1>4, <1>5

\* What a run offers was made by a step from the run's own request.
THEOREM OffersOwn == Spec => []OffersMade
<1>1. Init => OffersMade
  BY DEF Init, OffersMade, Made, Unborn
<1> QED
  BY <1>1, NextMade, Invariance, PTL DEF Spec

-----------------------------------------------------------------------------
(* The promises about offers.                                              *)

\* An offer that was made from the request is justified by it.
LEMMA MadeIsJustified == OffersMade => OfferIsJustified
<1> SUFFICES ASSUME OffersMade, NEW r \in Runs, NEW skill \in Range(run[r].offer.skills)
             PROVE  /\ SkillAllowed(skill, run[r].offer.mode)
                    /\ Len(Request(r).forced) = 1 =>
                         skill.tools = {} \/ run[r].offer.tools \subseteq skill.tools
                    /\ IF Request(r).forced # <<>> THEN skill.name \in Range(Request(r).forced)
                       ELSE \/ ScoreSkill(Request(r).task, skill).score >= 80
                            \/ skill.name \in Range(run[r].confirmed)
                            \/ \E plugin \in Range(Plugins) :
                                 plugin.name \in Request(r).task.names
                                 /\ skill.name \in Range(plugin.skills)
  BY DEF OfferIsJustified
<1>1. run[r].steps # 0
  BY DEF OffersMade, Made, NoOffer, Range
<1>2. Request(r) \in Requests
  BY <1>1 DEF OffersMade, Made
<1>3. PICK request \in Requests : request = Request(r)
  BY <1>2
<1>4. PICK mode, tools : \E closing \in BOOLEAN :
        run[r].offer = OfferFor(request, mode, closing, tools)
  BY <1>1, <1>3 DEF OffersMade, Made
<1>5. PICK closing \in BOOLEAN : run[r].offer = OfferFor(request, mode, closing, tools)
  BY <1>4
<1>6. PICK selected : selected = Selected(request, mode, closing)
  OBVIOUS
<1>7. /\ run[r].offer.skills = selected /\ run[r].offer.mode = mode
      /\ run[r].offer.tools = OfferedTools(selected, tools)
  BY <1>5, <1>6 DEF OfferFor
<1>8. selected \in Seq(Justified(request, mode))
  BY <1>6, SelectedFrom
<1>9. \A other \in Range(selected) : other \in Justified(request, mode)
  BY <1>8 DEF Range
<1>10. skill \in Justified(request, mode)
  BY <1>7, <1>9
<1>11. ASSUME Len(request.forced) = 1
       PROVE  skill.tools = {} \/ run[r].offer.tools \subseteq skill.tools
  <2>1. request.forced \in Seq(Range(request.forced)) /\ Skills \in Seq(Range(Skills))
        /\ \A i, j \in DOMAIN Skills : Skills[i].name = Skills[j].name => i = j
    BY QuestionsAssumption DEF QuestionsAssumption, IsSequence
  <2>2. request.forced # <<>> /\ Range(request.forced) = {request.forced[1]}
    BY <1>11, <2>1 DEF Range
  <2>3. \A other \in Range(selected) : other \in Range(Skills) /\ other.name = request.forced[1]
    BY <1>9, <2>2 DEF Justified
  <2>4. ASSUME NEW other \in Range(selected) PROVE other = skill
    <3>1. skill \in Range(selected)
      BY <1>7
    <3>2. PICK i \in DOMAIN Skills, j \in DOMAIN Skills : other = Skills[i] /\ skill = Skills[j]
      BY <2>3, <3>1 DEF Range
    <3>3. Skills[i].name = Skills[j].name
      BY <2>3, <3>1, <3>2
    <3> QED
      BY <2>1, <3>2, <3>3
  <2> QED
    BY <1>7, <2>4, OneLimit
<1> QED
  BY <1>3, <1>7, <1>10, <1>11 DEF Justified

\* For any tasks, skills, plugins and settings, no fold or filter of the selection lets a
\* skill through that was not asked for.
THEOREM OffersJustified == Spec => []OfferIsJustified
BY OffersOwn, MadeIsJustified, PTL

\* So a step that is not the closing one and has no forced skills keeps the promise.
LEMMA SelectedHolds ==
  ASSUME NEW request \in Requests, request.forced = <<>>, NEW mode
  PROVE  LET left == Selected(request, mode, FALSE) IN
           \/ NamedSkills(request, mode) \subseteq Range(left)
           \/ Len(left) = 2 /\ Range(left) \subseteq NamedSkills(request, mode)
<1> DEFINE task == request.task
           policy == SkillPolicy(request.forced, Allowlist)
           none == [skills |-> <<>>, audit |-> <<>>]
           forced == TakeForced(mode, Skills, policy.force, none)
           asked == TakeNamed(mode, Skills, Match(100, "explicit"), <<>>, forced)
           matching == TakeMatching(task, mode, Skills, policy, asked)
           matched == ScoreGap(policy, matching)
           bundled == TakePlugins(task, mode, Skills, Plugins, matched)
<1>1. /\ policy.force = <<>> /\ policy.enabled = Allowlist /\ policy.most = 2 /\ policy.exclusive = FALSE
  BY DEF SkillPolicy
<1>2. none \in Knowers(request, mode)
  BY DEF Knowers, Knowing, Selections, Distinct
<1>3. PICK n \in Nat, empty \in {<<>>} : empty = <<>> /\ n = 0 /\ DOMAIN empty = 1..n
  OBVIOUS
<1>0. DOMAIN empty = 1..n
  BY <1>3
<1>4. forced = none
  <2>1. PICK U : U = {none}
    OBVIOUS
  <2>2. ForcedClosed(mode, Skills, empty, n, U)
    BY <1>3 DEF ForcedClosed
  <2>3. PICK start : start = none
    OBVIOUS
  <2>4. start \in U
    BY <2>1, <2>3
  <2>5. PICK c : /\ ForcedPasses(mode, Skills, empty, n, U, c) /\ c[0] = start
                 /\ c[n] = TakeForced(mode, Skills, empty, start)
    BY <1>0, <2>2, <2>4, ForcedRuns
  <2>6. TakeForced(mode, Skills, empty, start) = start
    BY <1>3, <2>5
  <2> HIDE DEF policy, none
  <2> QED
    BY <1>1, <1>3, <2>3, <2>6
<1>5. asked = none
  <2>1. PICK U, start, match : U = {none} /\ start = none /\ match = Match(100, "explicit")
    OBVIOUS
  <2>2. NamedClosed(mode, Skills, match, empty, n, U)
    BY <1>3 DEF NamedClosed
  <2>3. start \in U
    BY <2>1
  <2>4. PICK c : /\ NamedPasses(mode, Skills, match, empty, n, U, c) /\ c[0] = start
                 /\ c[n] = TakeNamed(mode, Skills, match, empty, start)
    BY <1>0, <2>2, <2>3, NamedRuns
  <2>5. TakeNamed(mode, Skills, match, empty, start) = start
    BY <1>3, <2>4
  <2> HIDE DEF forced, none
  <2> QED
    BY <1>3, <1>4, <2>1, <2>5
<1>6. matching \in Holders(request, mode)
  <2> HIDE DEF policy, asked, none
  <2>1. asked \in Knowers(request, mode)
    BY <1>2, <1>5
  <2> QED
    BY <1>1, <2>1, MatchingHolds
<1>7. matched \in Holders(request, mode)
  <2> HIDE DEF policy, matching
  <2> QED
    BY <1>6, GapHolds
<1>8. bundled \in Holders(request, mode)
  <2> HIDE DEF matched, task
  <2> QED
    BY <1>7, PluginsHold
<1>9. LET left == Truncate(policy, bundled).skills IN
        \/ NamedSkills(request, mode) \subseteq Range(left)
        \/ Len(left) = 2 /\ Range(left) \subseteq NamedSkills(request, mode)
  <2> HIDE DEF policy, bundled
  <2> QED
    BY <1>1, <1>8, TruncateKeepsNamed
<1>10. Selected(request, mode, FALSE) =
         IF FALSE THEN <<>>
         ELSE IF policy.exclusive THEN asked.skills ELSE Truncate(policy, bundled).skills
  BY DEF Selected, SelectSkills
<1> HIDE DEF policy, asked, bundled
<1> QED
  BY <1>1, <1>9, <1>10

\* An offer that was made from the request has the skills it names.
LEMMA MadeNamesAll == OffersMade => NamedSkillsAreOffered
<1> SUFFICES ASSUME OffersMade, NEW r \in Runs, run[r].steps > 0, ~run[r].offer.closing,
                    Request(r).forced = <<>>
             PROVE  \/ NamedSkills(Request(r), run[r].offer.mode) \subseteq Range(run[r].offer.skills)
                    \/ /\ Len(run[r].offer.skills) = RunPolicy(r).most
                       /\ Range(run[r].offer.skills) \subseteq
                            NamedSkills(Request(r), run[r].offer.mode)
  BY DEF NamedSkillsAreOffered, NamedSkills
<1>1. run[r].steps # 0
  BY DEF OffersMade
<1>2. Request(r) \in Requests
  BY <1>1 DEF OffersMade, Made
<1>3. PICK request \in Requests : request = Request(r)
  BY <1>2
<1>4. PICK mode, tools : \E closing \in BOOLEAN :
        run[r].offer = OfferFor(request, mode, closing, tools)
  BY <1>1, <1>3 DEF OffersMade, Made
<1>5. PICK closing \in BOOLEAN : run[r].offer = OfferFor(request, mode, closing, tools)
  BY <1>4
<1>6. PICK selected : selected = Selected(request, mode, closing)
  OBVIOUS
<1>7. /\ run[r].offer.skills = selected /\ run[r].offer.mode = mode
      /\ run[r].offer.closing = closing
  BY <1>5, <1>6 DEF OfferFor
<1>8. closing = FALSE
  BY <1>7
<1>9. \/ NamedSkills(request, mode) \subseteq Range(selected)
      \/ Len(selected) = 2 /\ Range(selected) \subseteq NamedSkills(request, mode)
  BY <1>3, <1>6, <1>8, SelectedHolds
<1>10. RunPolicy(r).most = 2
  BY DEF RunPolicy, SkillPolicy
<1> QED
  BY <1>3, <1>7, <1>9, <1>10

\* For any tasks, skills, plugins and settings, a named skill is put out only by others that
\* are named.
THEOREM NamedOffered == Spec => []NamedSkillsAreOffered
BY OffersOwn, MadeNamesAll, PTL
=============================================================================

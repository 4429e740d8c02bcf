-------------------------- MODULE Approvals_proof --------------------------
(***************************************************************************)
(* Proofs about the two places where somebody is asked for approval, which *)
(* share nothing: Terminal, for any number of turns, requests and answers  *)
(* under way, any workspaces and either surface, and HttpApprovals, for    *)
(* any number of runs, approvals and crashes.                              *)
(***************************************************************************)
EXTENDS Terminal, HttpApprovals, FiniteSetTheorems, TLAPS

-----------------------------------------------------------------------------
(* Terminal.                                                               *)

\* Only a turn that has found its session asks.
TurnsHaveSessions ==
  \A t \in DOMAIN turns :
    turns[t].pc \in {"working", "asking", "planning"} => turns[t].session \in Sessions

\* What an answer is about is what its author can have had in mind: anything, when it names
\* no request and the records on disk decide, or the request it names or was matched with.
AnswersAreMeant ==
  \A a \in answers :
    IF a.id = NoRequest THEN a.step = "look" /\ a.meant = Requests
    ELSE a.id \in DOMAIN reqs /\ a.id \in a.meant

\* The modal shows what was announced.
ShownIsAnnounced == shown # NoRequest => shown \in Announced

IInv ==
  /\ TypeOK /\ IsFiniteSet(answers)
  /\ TurnsHaveSessions /\ AnswersAreMeant /\ ShownIsAnnounced

-----------------------------------------------------------------------------
(* Lemmas about sequences: what Append and a changed element make of one.  *)

\* A sequence is a function on an interval, and the other way round.
LEMMA SeqIsFunction ==
  ASSUME NEW S, NEW s \in Seq(S)
  PROVE  /\ Len(s) \in Nat /\ DOMAIN s = 1..Len(s) /\ s \in [1..Len(s) -> S]
         /\ \A i \in DOMAIN s : s[i] \in S
OBVIOUS

LEMMA FunctionIsSeq ==
  ASSUME NEW S, NEW n \in Nat, NEW f \in [1..n -> S]
  PROVE  f \in Seq(S) /\ Len(f) = n /\ DOMAIN f = 1..n
OBVIOUS

\* One element of a sequence is replaced.
LEMMA SeqExcept ==
  ASSUME NEW S, NEW s \in Seq(S), NEW i \in DOMAIN s, NEW x \in S
  PROVE  LET after == [s EXCEPT ![i] = x] IN
         /\ after \in Seq(S) /\ Len(after) = Len(s) /\ DOMAIN after = DOMAIN s
         /\ after[i] = x
         /\ \A k \in DOMAIN s : k # i => after[k] = s[k]
<1>1. s \in [1..Len(s) -> S] /\ Len(s) \in Nat /\ DOMAIN s = 1..Len(s)
  BY SeqIsFunction
<1>2. [s EXCEPT ![i] = x] \in [1..Len(s) -> S]
  BY <1>1
<1> QED
  BY <1>1, <1>2, FunctionIsSeq

\* One element is added to a sequence.
LEMMA SeqAppend ==
  ASSUME NEW S, NEW s \in Seq(S), NEW x \in S
  PROVE  LET after == Append(s, x) IN
         /\ after \in Seq(S) /\ Len(after) = Len(s) + 1
         /\ DOMAIN after = DOMAIN s \cup {Len(s) + 1}
         /\ after[Len(s) + 1] = x
         /\ \A k \in DOMAIN s : after[k] = s[k] /\ k # Len(s) + 1
OBVIOUS

-----------------------------------------------------------------------------
(* Which actions change the requests, the answers and the turns.           *)

\* Requests change when one is asked for, when it proceeds, and when an answer settles it.
LEMMA WhatChangesRequests ==
  ASSUME [Next]_vars
  PROVE  \/ UNCHANGED reqs
         \/ \E t \in DOMAIN turns : Ask(t)
         \/ \E r \in DOMAIN reqs : Save(r) \/ Publish(r) \/ EnterMap(r)
         \/ \E a \in answers : SettleAnswer(a)
BY DEF Next, vars, coordinatorVars, TurnStep, BeginRun, Resolved, EndTurn, AskForPlan,
       RequestStep, AnswerStep, LookUpAnswer, LookUp, ResumeRead,
       ReplInput, LineIgnored, TaskLine, AbortCommand, PlainAnswer, AnswerCommand,
       NewContext, ResumeCommand, TuiInput, AnswerPlan, SubmitTask, AbortTurn,
       AnswerShown, SlashAnswer

\* Answers begin with a line or a key, are looked up, and settle a request.
LEMMA WhatChangesAnswers ==
  ASSUME [Next]_vars
  PROVE  \/ UNCHANGED <<answers, always>>
         \/ \E a \in answers : LookUpAnswer(a) \/ SettleAnswer(a)
         \/ \E v \in Verdicts : PlainAnswer(v) \/ AnswerShown(v)
         \/ \E v \in Verdicts, id \in OnDisk(NoSession) \cup {NoRequest} :
              AnswerCommand(id, v) \/ SlashAnswer(id, v)
BY DEF Next, vars, coordinatorVars, TurnStep, BeginRun, Resolved, EndTurn, Ask, AskForPlan,
       RequestStep, Save, Publish, EnterMap, AnswerStep, ResumeRead,
       ReplInput, LineIgnored, TaskLine, AbortCommand,
       NewContext, ResumeCommand, TuiInput, AnswerPlan, SubmitTask, AbortTurn

-----------------------------------------------------------------------------
(* The requests.                                                           *)

\* A request once announced stays announced, and none is forgotten.
RequestsStay ==
  /\ reqs' \in Seq(Request) /\ Len(reqs') <= MaxRequests
  /\ DOMAIN reqs \subseteq DOMAIN reqs'
  /\ \A r \in DOMAIN reqs : r \in Announced => r \in Announced'

\* A request proceeds.
LEMMA RequestGoesOn ==
  ASSUME TypeOK, NEW r \in DOMAIN reqs,
         NEW stage \in {"saving", "announcing", "announced", "waiting", "granted", "denied"},
         NEW record \in {"none", "pending", "approved", "denied"},
         r \in Announced => stage \notin {"saving", "announcing"},
         reqs' = [reqs EXCEPT ![r].stage = stage, ![r].record = record]
  PROVE  /\ RequestsStay
         /\ reqs'[r].stage = stage /\ DOMAIN reqs' = DOMAIN reqs
         /\ \A q \in DOMAIN reqs : q # r => reqs'[q] = reqs[q]
<1> DEFINE x == [reqs[r] EXCEPT !.stage = stage, !.record = record]
<1>1. reqs \in Seq(Request) /\ Len(reqs) <= MaxRequests /\ reqs[r] \in Request
  BY DEF TypeOK, CoordinatorTypeOK
<1>2. x \in Request /\ x.stage = stage
  BY <1>1 DEF Request
<1>3. reqs' = [reqs EXCEPT ![r] = x]
  OBVIOUS
<1> HIDE DEF x
<1>4. LET after == [reqs EXCEPT ![r] = x] IN
      /\ after \in Seq(Request) /\ Len(after) = Len(reqs) /\ DOMAIN after = DOMAIN reqs
      /\ after[r] = x
      /\ \A k \in DOMAIN reqs : k # r => after[k] = reqs[k]
  BY <1>1, <1>2, SeqExcept
<1>5. /\ reqs' \in Seq(Request) /\ Len(reqs') = Len(reqs) /\ DOMAIN reqs' = DOMAIN reqs
      /\ reqs'[r] = x
      /\ \A k \in DOMAIN reqs : k # r => reqs'[k] = reqs[k]
  BY <1>3, <1>4
<1> QED
  BY <1>1, <1>2, <1>5 DEF RequestsStay, Announced

\* The same when the record of the request stays as it is.
LEMMA RequestMoves ==
  ASSUME TypeOK, NEW r \in DOMAIN reqs,
         NEW stage \in {"saving", "announcing", "announced", "waiting", "granted", "denied"},
         r \in Announced => stage \notin {"saving", "announcing"},
         reqs' = [reqs EXCEPT ![r].stage = stage]
  PROVE  /\ RequestsStay
         /\ reqs'[r].stage = stage /\ DOMAIN reqs' = DOMAIN reqs
         /\ \A q \in DOMAIN reqs : q # r => reqs'[q] = reqs[q]
<1> DEFINE record == reqs[r].record
<1>1. reqs \in Seq(Request) /\ reqs[r] \in Request
  BY DEF TypeOK, CoordinatorTypeOK
<1>2. record \in {"none", "pending", "approved", "denied"}
  BY <1>1 DEF Request
<1>3. [reqs[r] EXCEPT !.stage = stage] = [reqs[r] EXCEPT !.stage = stage, !.record = record]
  BY <1>1 DEF Request
<1>4. reqs' = [reqs EXCEPT ![r].stage = stage, ![r].record = record]
  BY <1>3
<1> HIDE DEF record
<1> QED
  BY <1>2, <1>4, RequestGoesOn

\* A new request is one of a turn that has its session.
LEMMA AskingStays ==
  ASSUME IInv, NEW t \in DOMAIN turns, Ask(t)
  PROVE  RequestsStay
<1>1. /\ reqs \in Seq(Request) /\ turns \in Seq(Turn) /\ Len(turns) <= MaxTurns
      /\ Len(reqs) < MaxRequests /\ root \in Roots /\ MaxRequests \in Nat /\ MaxTurns \in Nat
  BY CoordinatorAssumption DEF IInv, TypeOK, CoordinatorTypeOK, Ask
<1>2. t \in 1..MaxTurns /\ turns[t].session \in Sessions
  BY <1>1, SeqIsFunction DEF IInv, TurnsHaveSessions, Ask, At
<1>3. CASE UNCHANGED reqs
  BY <1>1, <1>3 DEF RequestsStay, Announced
<1>4. ASSUME NEW key \in Keys, NewRequest(t, turns[t].session, key)
      PROVE  RequestsStay
  <2> DEFINE x == [turn |-> t, key |-> key, session |-> turns[t].session, root |-> root,
                   stage |-> "saving", record |-> "none"]
  <2>1. x \in Request
    BY <1>1, <1>2 DEF Request
  <2>2. reqs' = Append(reqs, x)
    BY <1>4 DEF NewRequest
  <2> HIDE DEF x
  <2>3. LET after == Append(reqs, x) IN
        /\ after \in Seq(Request) /\ Len(after) = Len(reqs) + 1
        /\ DOMAIN after = DOMAIN reqs \cup {Len(reqs) + 1}
        /\ \A k \in DOMAIN reqs : after[k] = reqs[k] /\ k # Len(reqs) + 1
    BY <1>1, <2>1, SeqAppend
  <2> QED
    BY <1>1, <2>2, <2>3, SeqIsFunction DEF RequestsStay, Announced
<1> QED
  BY <1>3, <1>4 DEF Ask

\* An answer that settles names a request.
LEMMA SettlingStays ==
  ASSUME IInv, NEW a \in answers, Settle(a)
  PROVE  /\ RequestsStay /\ a.id \in DOMAIN reqs /\ DOMAIN reqs' = DOMAIN reqs
         /\ \A q \in DOMAIN reqs : q # a.id => reqs'[q] = reqs[q]
<1>1. a.id \in DOMAIN reqs /\ reqs[a.id] \in Request
  BY SeqIsFunction DEF IInv, AnswersAreMeant, Settle, TypeOK, CoordinatorTypeOK
<1> DEFINE stage == IF reqs[a.id].stage # "waiting" THEN reqs[a.id].stage
                    ELSE IF a.verdict = "deny" THEN "denied" ELSE "granted"
           record == IF reqs[a.id].root # root THEN reqs[a.id].record
                     ELSE IF a.verdict = "deny" THEN "denied" ELSE "approved"
<1>2. /\ stage \in {"saving", "announcing", "announced", "waiting", "granted", "denied"}
      /\ record \in {"none", "pending", "approved", "denied"}
      /\ a.id \in Announced => stage \notin {"saving", "announcing"}
  BY <1>1 DEF Request, Announced
<1>3. reqs' = [reqs EXCEPT ![a.id].stage = stage, ![a.id].record = record]
  BY <1>1 DEF Settle, Request
<1> HIDE DEF stage, record
<1> QED
  BY <1>1, <1>2, <1>3, RequestGoesOn DEF IInv

\* Requests are typed, and stay.
LEMMA RequestsInOrder ==
  ASSUME IInv, [Next]_vars
  PROVE  RequestsStay
<1>1. CASE UNCHANGED reqs
  BY <1>1 DEF RequestsStay, Announced, IInv, TypeOK, CoordinatorTypeOK
<1>2. ASSUME NEW r \in DOMAIN reqs, Save(r) PROVE RequestsStay
  BY <1>2, RequestGoesOn DEF Save, SaveRequest, IInv, Announced
<1>3. ASSUME NEW r \in DOMAIN reqs, Publish(r) PROVE RequestsStay
  BY <1>3, RequestMoves DEF Publish, Announce, IInv
<1>4. ASSUME NEW r \in DOMAIN reqs, EnterMap(r) PROVE RequestsStay
  BY <1>4, RequestMoves DEF EnterMap, Wait, IInv
<1> QED
  BY <1>1, <1>2, <1>3, <1>4, WhatChangesRequests, AskingStays, SettlingStays DEF SettleAnswer

-----------------------------------------------------------------------------
(* The answers.                                                            *)

\* An answer names what it is about.
Apt(a) ==
  IF a.id = NoRequest THEN a.step = "look" /\ a.meant = Requests
  ELSE a.id \in DOMAIN reqs /\ a.id \in a.meant

\* The image of a finite set is finite, and no larger.
LEMMA ImageIsFinite ==
  ASSUME NEW S, IsFiniteSet(S), NEW f, DOMAIN f = S
  PROVE  LET T == {f[x] : x \in S} IN
         IsFiniteSet(T) /\ Cardinality(T) <= Cardinality(S) /\ Cardinality(T) \in Nat
                        /\ Cardinality(S) \in Nat
<1> DEFINE T == {f[x] : x \in S}
           g == [x \in S |-> f[x]]
<1>1. g \in Surjection(S, T)
  BY DEF Surjection
<1> QED
  BY <1>1, FS_Surjection, FS_CardinalityType

\* There is a slot for one more answer.
LEMMA FreeSlot ==
  ASSUME IsFiniteSet(answers), answers \subseteq Answer, Cardinality(answers) < MaxAnswers
  PROVE  \E n \in 1..MaxAnswers : \A a \in answers : a.slot # n
<1> SUFFICES ASSUME \A n \in 1..MaxAnswers : \E a \in answers : a.slot = n
             PROVE  FALSE
  OBVIOUS
<1> DEFINE slots == {a.slot : a \in answers}
           f == [a \in answers |-> a.slot]
<1>1. IsFiniteSet(slots) /\ Cardinality(slots) <= Cardinality(answers)
      /\ Cardinality(slots) \in Nat /\ Cardinality(answers) \in Nat
  <2>1. LET T == {f[x] : x \in answers} IN
        IsFiniteSet(T) /\ Cardinality(T) <= Cardinality(answers)
        /\ Cardinality(T) \in Nat /\ Cardinality(answers) \in Nat
    <3>1. DOMAIN f = answers
      OBVIOUS
    <3> HIDE DEF f
    <3> QED
      BY <3>1, ImageIsFinite
  <2>2. {f[x] : x \in answers} = slots
    OBVIOUS
  <2> QED
    BY <2>1, <2>2
<1>2. 1..MaxAnswers \subseteq slots
  OBVIOUS
<1>3. MaxAnswers \in Nat
  BY CoordinatorAssumption
<1> HIDE DEF slots, f
<1>4. Cardinality(1..MaxAnswers) <= Cardinality(slots)
  BY <1>1, <1>2, FS_Subset
<1>5. Cardinality(1..MaxAnswers) = MaxAnswers
  BY <1>3, FS_Interval
<1> QED
  BY <1>1, <1>3, <1>4, <1>5

\* An answer that has its request.
LEMMA PickedIsAnswer ==
  ASSUME NEW a \in Answer, NEW r \in Requests
  PROVE  /\ Picked(a, r) \in Answer
         /\ Picked(a, r).id = r /\ Picked(a, r).step = "save"
         /\ Picked(a, r).meant = a.meant \cap {r}
BY DEF Picked, Answer, Verdicts

\* Requests are numbers of requests, finitely many of them.
LEMMA RequestNumbers ==
  ASSUME IInv
  PROVE  /\ DOMAIN reqs \subseteq Requests /\ NoRequest \notin Requests
         /\ IsFiniteSet(DOMAIN reqs)
         /\ Pending \subseteq DOMAIN reqs /\ Pending \subseteq Announced
         /\ \A session : OnDisk(session) \subseteq DOMAIN reqs
<1>1. Len(reqs) \in Nat /\ DOMAIN reqs = 1..Len(reqs) /\ Len(reqs) <= MaxRequests
  BY SeqIsFunction DEF IInv, TypeOK, CoordinatorTypeOK
<1>2. IsFiniteSet(DOMAIN reqs)
  BY <1>1, FS_Interval
<1> QED
  BY <1>1, <1>2, CoordinatorAssumption
     DEF Requests, NoRequest, Pending, Announced, OnDisk

\* The answers that an answer becomes when it is matched with requests.
LEMMA PickedAreAnswers ==
  ASSUME IInv, NEW a \in Answer, NEW picked \in SUBSET DOMAIN reqs, picked \subseteq a.meant
  PROVE  LET T == {Picked(a, r) : r \in picked} IN
         T \subseteq Answer /\ IsFiniteSet(T) /\ \A b \in T : Apt(b)
<1> DEFINE T == {Picked(a, r) : r \in picked}
           f == [r \in picked |-> Picked(a, r)]
<1>1. picked \subseteq Requests /\ IsFiniteSet(picked) /\ NoRequest \notin Requests
  BY RequestNumbers, FS_Subset
<1>2. T \subseteq Answer /\ \A b \in T : Apt(b)
  BY <1>1, PickedIsAnswer DEF Apt
<1>3. DOMAIN f = picked /\ T = {f[r] : r \in picked}
  OBVIOUS
<1> HIDE DEF f
<1>4. IsFiniteSet({f[r] : r \in picked})
  BY <1>1, <1>3, ImageIsFinite
<1> QED
  BY <1>2, <1>3, <1>4

\* The answers and what is always allowed, after a step.
AnswersStay ==
  /\ answers' \subseteq Answer /\ IsFiniteSet(answers') /\ always' \subseteq Keys
  /\ \A a \in answers' : Apt(a)

\* What is remembered are keys of requests.
LEMMA RememberedKeys ==
  ASSUME IInv, NEW verdict, NEW picked \in SUBSET DOMAIN reqs, Remembered(verdict, picked)
  PROVE  always' \subseteq Keys
<1>1. \A r \in picked : reqs[r] \in Request
  BY SeqIsFunction DEF IInv, TypeOK, CoordinatorTypeOK
<1>2. \A r \in picked : reqs[r].key \in Keys
  BY <1>1 DEF Request
<1> QED
  BY <1>2 DEF Remembered, IInv, TypeOK, CoordinatorTypeOK

\* An answer begins: its author has in mind the request it names, or it is matched at once
\* with one its author has in mind, or may mean any.
LEMMA BeginningStays ==
  ASSUME IInv, NEW id \in Requests \cup {NoRequest}, NEW session \in Sessions \cup {NoSession},
         NEW verdict \in Verdicts, NEW meant \in SUBSET Requests,
         BeginAnswer(id, session, verdict, meant),
         id # NoRequest => id \in DOMAIN reqs /\ id \in meant,
         id = NoRequest => Direct(id) \subseteq meant /\ (Direct(id) = {} => meant = Requests)
  PROVE  AnswersStay
<1> DEFINE slot == CHOOSE n \in 1..MaxAnswers : \A a \in answers : a.slot # n
           own == IF id = NoRequest THEN meant ELSE meant \cap {id}
           answer == [slot |-> slot, id |-> id, session |-> session, verdict |-> verdict,
                      step |-> "look", meant |-> own]
           picked == Direct(id)
           T == {Picked(answer, r) : r \in picked}
<1>1. answers \subseteq Answer /\ IsFiniteSet(answers) /\ \A a \in answers : Apt(a)
  BY DEF IInv, TypeOK, CoordinatorTypeOK, AnswersAreMeant, Apt
<1>2. slot \in 1..MaxAnswers
  BY <1>1, FreeSlot DEF BeginAnswer
<1>3. own \in SUBSET Requests
  OBVIOUS
<1>4. answer \in Answer /\ answer.id = id /\ answer.step = "look" /\ answer.meant = own
  <2> HIDE DEF slot, own
  <2> QED
    BY <1>2, <1>3 DEF Answer
<1>5. picked \subseteq DOMAIN reqs /\ picked \subseteq own
  BY RequestNumbers DEF Direct
<1>6. picked = {} => Apt(answer)
  BY <1>4 DEF Apt
<1>7. /\ answers' = answers \cup (IF picked = {} THEN {answer} ELSE T)
      /\ Remembered(verdict, picked)
  BY DEF BeginAnswer
<1> HIDE DEF answer, picked, own, slot
<1>8. T \subseteq Answer /\ IsFiniteSet(T) /\ \A b \in T : Apt(b)
  BY <1>4, <1>5, PickedAreAnswers
<1>9. always' \subseteq Keys
  BY <1>5, <1>7, RememberedKeys
<1>10. IsFiniteSet({answer})
  BY FS_Singleton
<1> HIDE DEF T
<1>11. IsFiniteSet(answers')
  BY <1>1, <1>7, <1>8, <1>10, FS_Union
<1> QED
  BY <1>1, <1>4, <1>6, <1>7, <1>8, <1>9, <1>11 DEF AnswersStay

\* The records were read for an answer.
LEMMA LookingUpStays ==
  ASSUME IInv, NEW a \in answers, LookUp(a)
  PROVE  AnswersStay
<1> DEFINE picked == Looked(a.id, a.session)
           T == {Picked(a, r) : r \in picked}
<1>1. /\ answers \subseteq Answer /\ IsFiniteSet(answers) /\ \A b \in answers : Apt(b)
      /\ a \in Answer /\ Apt(a)
  BY DEF IInv, TypeOK, CoordinatorTypeOK, AnswersAreMeant, Apt
<1>2. picked \subseteq DOMAIN reqs /\ picked \subseteq a.meant
  BY <1>1, RequestNumbers DEF Looked, Apt
<1>3. answers' = (answers \ {a}) \cup T /\ Remembered(a.verdict, picked)
  BY DEF LookUp
<1> HIDE DEF picked
<1>4. T \subseteq Answer /\ IsFiniteSet(T) /\ \A b \in T : Apt(b)
  BY <1>1, <1>2, PickedAreAnswers
<1>5. always' \subseteq Keys
  BY <1>2, <1>3, RememberedKeys
<1> HIDE DEF T
<1>6. IsFiniteSet(answers \ {a})
  BY <1>1, FS_Subset
<1>7. IsFiniteSet(answers')
  BY <1>3, <1>4, <1>6, FS_Union
<1> QED
  BY <1>1, <1>3, <1>4, <1>5, <1>7 DEF AnswersStay

\* Answers are typed, and name what they mean.
LEMMA AnswersInOrder ==
  ASSUME IInv, [Next]_vars
  PROVE  AnswersStay
<1>1. /\ answers \subseteq Answer /\ IsFiniteSet(answers) /\ always \subseteq Keys
      /\ \A b \in answers : Apt(b)
  BY DEF IInv, TypeOK, CoordinatorTypeOK, AnswersAreMeant, Apt
<1>2. sessionId \in Sessions \cup {NoSession}
  BY DEF IInv, TypeOK
<1>3. /\ Announced \in SUBSET Requests /\ Requests \in SUBSET Requests
      /\ Pending \subseteq Requests /\ Pending \subseteq Announced
      /\ OnDisk(NoSession) \subseteq DOMAIN reqs /\ DOMAIN reqs \subseteq Requests
  BY RequestNumbers DEF Announced
<1>4. CASE UNCHANGED <<answers, always>>
  BY <1>1, <1>4 DEF AnswersStay
<1>5. ASSUME NEW a \in answers, SettleAnswer(a) PROVE AnswersStay
  <2>1. answers' = answers \ {a} /\ always' = always
    BY <1>5 DEF SettleAnswer, Settle
  <2>2. IsFiniteSet(answers \ {a})
    BY <1>1, FS_Subset
  <2> QED
    BY <1>1, <2>1, <2>2 DEF AnswersStay
<1>6. ASSUME NEW v \in Verdicts, PlainAnswer(v) PROVE AnswersStay
  <2> DEFINE meant == IF Cardinality(Pending) = 1 THEN Announced ELSE Requests
  <2>1. meant \in SUBSET Requests
    BY <1>3
  <2>2. BeginAnswer(NoRequest, sessionId, v, meant) /\ Pending # {}
    BY <1>6 DEF PlainAnswer
  <2>3. Direct(NoRequest) \subseteq meant /\ (Direct(NoRequest) = {} => meant = Requests)
    BY <1>3, <2>2 DEF Direct
  <2> HIDE DEF meant
  <2>4. NoRequest \in Requests \cup {NoRequest}
    OBVIOUS
  <2> QED
    BY <1>2, <2>1, <2>2, <2>3, <2>4, BeginningStays
<1>7. ASSUME NEW v \in Verdicts, AnswerShown(v) PROVE AnswersStay
  <2>1. shown # NoRequest /\ shown \in Announced /\ shown \in DOMAIN reqs
        /\ BeginAnswer(shown, sessionId, v, Announced)
    BY <1>7 DEF AnswerShown, IInv, ShownIsAnnounced, Announced
  <2> QED
    BY <1>2, <1>3, <2>1, BeginningStays
<1>8. ASSUME NEW v \in Verdicts, NEW id \in OnDisk(NoSession) \cup {NoRequest},
             AnswerCommand(id, v) \/ SlashAnswer(id, v)
      PROVE  AnswersStay
  <2>1. BeginAnswer(id, sessionId, v, Requests)
    BY <1>8 DEF AnswerCommand, SlashAnswer
  <2>2. /\ id \in Requests \cup {NoRequest}
        /\ id # NoRequest => id \in DOMAIN reqs /\ id \in Requests
    BY <1>3
  <2>3. Direct(id) \subseteq Requests
    BY <1>3 DEF Direct
  <2> QED
    BY <1>2, <1>3, <2>1, <2>2, <2>3, BeginningStays
<1> QED
  BY <1>4, <1>5, <1>6, <1>7, <1>8, WhatChangesAnswers, LookingUpStays DEF LookUpAnswer

-----------------------------------------------------------------------------
(* The turns and what the surface remembers.                               *)

\* A turn that asks has its session.
HasSession(x) == x.pc \in {"working", "asking", "planning"} => x.session \in Sessions

TurnsInOrder(ts) ==
  /\ ts \in Seq(Turn) /\ Len(ts) <= MaxTurns
  /\ \A t \in DOMAIN ts : HasSession(ts[t])

\* No turn is forgotten.
TurnsStay ==
  /\ TurnsInOrder(turns)' /\ DOMAIN turns \subseteq DOMAIN turns'

\* One turn changes.
LEMMA OneTurn ==
  ASSUME NEW ts, TurnsInOrder(ts), NEW t \in DOMAIN ts, NEW x \in Turn, HasSession(x)
  PROVE  TurnsInOrder([ts EXCEPT ![t] = x]) /\ DOMAIN [ts EXCEPT ![t] = x] = DOMAIN ts
<1>1. LET after == [ts EXCEPT ![t] = x] IN
      /\ after \in Seq(Turn) /\ Len(after) = Len(ts) /\ DOMAIN after = DOMAIN ts
      /\ after[t] = x /\ \A k \in DOMAIN ts : k # t => after[k] = ts[k]
  BY SeqExcept DEF TurnsInOrder
<1> QED
  BY <1>1 DEF TurnsInOrder

\* The invariant, said of the turns.
LEMMA TurnsAreInOrder ==
  ASSUME IInv
  PROVE  /\ TurnsInOrder(turns) /\ DOMAIN turns \subseteq 1..MaxTurns
         /\ \A t \in DOMAIN turns : turns[t] \in Turn /\ HasSession(turns[t])
<1>1. TurnsInOrder(turns)
  BY DEF IInv, TypeOK, TurnsHaveSessions, TurnsInOrder, HasSession
<1>2. DOMAIN turns = 1..Len(turns) /\ Len(turns) \in Nat /\ MaxTurns \in Nat
      /\ \A t \in DOMAIN turns : turns[t] \in Turn
  BY <1>1, SeqIsFunction, CoordinatorAssumption DEF TurnsInOrder
<1> QED
  BY <1>1, <1>2 DEF TurnsInOrder

\* A turn that goes on, with its session.
LEMMA TurnMoves ==
  ASSUME NEW x \in Turn, NEW pc \in {"preparing", "working", "asking", "aborting", "planning", "over"},
         pc \in {"working", "asking", "planning"} => x.session \in Sessions
  PROVE  [x EXCEPT !.pc = pc] \in Turn /\ HasSession([x EXCEPT !.pc = pc])
BY DEF Turn, HasSession

\* The user's word on a plan lets the turns that wait for it go on.
LEMMA AnsweredInOrder ==
  ASSUME IInv
  PROVE  TurnsInOrder(Answered(turns)) /\ DOMAIN Answered(turns) = DOMAIN turns
<1> DEFINE n == Len(turns)
           ts == Answered(turns)
<1>1. /\ turns \in Seq(Turn) /\ n \in Nat /\ n <= MaxTurns /\ DOMAIN turns = 1..n
      /\ \A t \in DOMAIN turns : turns[t] \in Turn /\ HasSession(turns[t])
  BY TurnsAreInOrder, SeqIsFunction DEF TurnsInOrder
<1>2. \A t \in DOMAIN turns : turns[t].pc = "planning" =>
        /\ [turns[t] EXCEPT !.pc = "working"] \in Turn
        /\ HasSession([turns[t] EXCEPT !.pc = "working"])
  BY <1>1, TurnMoves DEF HasSession
<1>3. DOMAIN ts = 1..n /\ \A t \in 1..n : ts[t] \in Turn /\ HasSession(ts[t])
  BY <1>1, <1>2 DEF Answered
<1>4. ts \in [1..n -> Turn]
  BY <1>1, <1>2 DEF Answered
<1> HIDE DEF ts
<1>5. ts \in Seq(Turn) /\ Len(ts) = n
  BY <1>1, <1>4, FunctionIsSeq
<1> QED
  BY <1>1, <1>3, <1>5 DEF TurnsInOrder, ts

\* An aborted turn.
LEMMA AbortedInOrder ==
  ASSUME IInv, active # NoTurn
  PROVE  /\ active \in DOMAIN turns
         /\ AbortedTurn \in Turn /\ HasSession(AbortedTurn)
         /\ HasSession([AbortedTurn EXCEPT !.pc = IF @ = "planning" THEN "working" ELSE @])
         /\ [AbortedTurn EXCEPT !.pc = IF @ = "planning" THEN "working" ELSE @] \in Turn
<1>1. active \in DOMAIN turns /\ turns[active] \in Turn /\ HasSession(turns[active])
  BY TurnsAreInOrder DEF IInv, TypeOK
<1>2. AbortedTurn \in Turn /\ HasSession(AbortedTurn)
  <2> DEFINE x == [turns[active] EXCEPT !.aborted = TRUE]
             waits == /\ turns[active].pc = "asking"
                      /\ \A r \in Asked(active) : reqs[r].stage \notin {"granted", "denied"}
             pc == IF waits THEN "aborting" ELSE turns[active].pc
  <2>1. x \in Turn /\ HasSession(x)
    BY <1>1 DEF Turn, HasSession
  <2>2. pc \in {"preparing", "working", "asking", "aborting", "planning", "over"}
        /\ (pc \in {"working", "asking", "planning"} => x.session \in Sessions)
    BY <1>1 DEF Turn, HasSession
  <2>3. AbortedTurn = [x EXCEPT !.pc = pc]
    BY <1>1 DEF AbortedTurn, Turn
  <2> HIDE DEF x, pc
  <2> QED
    BY <2>1, <2>2, <2>3, TurnMoves
<1>3. AbortedTurn.pc = "planning" => AbortedTurn.session \in Sessions
  BY <1>2 DEF HasSession
<1> QED
  <2> DEFINE pc == IF AbortedTurn.pc = "planning" THEN "working" ELSE AbortedTurn.pc
  <2>1. /\ pc \in {"preparing", "working", "asking", "aborting", "planning", "over"}
        /\ pc \in {"working", "asking", "planning"} => AbortedTurn.session \in Sessions
    BY <1>2, <1>3 DEF Turn, HasSession
  <2>2. [AbortedTurn EXCEPT !.pc = pc] \in Turn /\ HasSession([AbortedTurn EXCEPT !.pc = pc])
    <3> HIDE DEF pc
    <3> QED
      BY <1>2, <2>1, TurnMoves
  <2> QED
    BY <1>1, <1>2, <2>2

\* Turns are started, go on, are aborted, and learn the user's word on a plan.
LEMMA WhatChangesTurns ==
  ASSUME [Next]_vars
  PROVE  \/ UNCHANGED <<turns, active>>
         \/ turns' = Answered(turns) /\ UNCHANGED active
         \/ \E t \in DOMAIN turns :
              BeginRun(t) \/ Resolved(t) \/ EndTurn(t) \/ Ask(t) \/ AskForPlan(t)
         \/ Submit
         \/ AbortCommand \/ AbortTurn
BY DEF Next, vars, TurnStep, RequestStep, Save, Publish, EnterMap, AnswerStep,
       LookUpAnswer, SettleAnswer, ResumeRead,
       ReplInput, LineIgnored, TaskLine, PlainAnswer, AnswerCommand,
       NewContext, ResumeCommand, TuiInput, AnswerPlan, SubmitTask, AnswerShown, SlashAnswer

\* A turn changes, and the turn in the foreground stays it or ends.
LEMMA TurnChanges ==
  ASSUME IInv, NEW t \in DOMAIN turns, NEW x \in Turn, HasSession(x),
         turns' = [turns EXCEPT ![t] = x], active' \in {active, NoTurn}
  PROVE  TurnsStay /\ active' \in DOMAIN turns' \cup {NoTurn}
<1>1. TurnsInOrder(turns) /\ active \in DOMAIN turns \cup {NoTurn}
  BY TurnsAreInOrder DEF IInv, TypeOK
<1>2. /\ TurnsInOrder([turns EXCEPT ![t] = x])
      /\ DOMAIN [turns EXCEPT ![t] = x] = DOMAIN turns
  BY <1>1, OneTurn
<1>3. TurnsInOrder(turns)' /\ DOMAIN turns' = DOMAIN turns
  BY <1>2 DEF TurnsInOrder
<1> QED
  BY <1>1, <1>3 DEF TurnsStay

\* The turns are typed, have their sessions, and stay.
LEMMA TurnsInOrderStep ==
  ASSUME IInv, [Next]_vars
  PROVE  TurnsStay /\ active' \in DOMAIN turns' \cup {NoTurn}
<1>0. /\ TurnsInOrder(turns) /\ active \in DOMAIN turns \cup {NoTurn}
      /\ sessionId \in Sessions \cup {NoSession} /\ root \in Roots
      /\ DOMAIN turns \subseteq 1..MaxTurns
      /\ \A t \in DOMAIN turns : turns[t] \in Turn /\ HasSession(turns[t])
  BY TurnsAreInOrder DEF IInv, TypeOK, CoordinatorTypeOK
<1>1. CASE UNCHANGED <<turns, active>>
  BY <1>0, <1>1 DEF TurnsStay, TurnsInOrder
<1>2. CASE turns' = Answered(turns) /\ UNCHANGED active
  BY <1>0, <1>2, AnsweredInOrder DEF TurnsStay, TurnsInOrder
<1>3. ASSUME NEW t \in DOMAIN turns, BeginRun(t)
      PROVE  TurnsStay /\ active' \in DOMAIN turns' \cup {NoTurn}
  <2> DEFINE session == IF sessionId = NoSession THEN t ELSE sessionId
             x == [turns[t] EXCEPT !.pc = "working", !.session = session, !.home = root]
  <2>1. session \in Sessions
    BY <1>0 DEF Sessions
  <2>2. x \in Turn /\ HasSession(x)
    <3> HIDE DEF session
    <3> QED
      BY <1>0, <2>1 DEF Turn, HasSession
  <2>3. CASE turns' = [turns EXCEPT ![t].pc = "working", ![t].session = session, ![t].home = root]
             /\ UNCHANGED active
    <3>1. turns' = [turns EXCEPT ![t] = x]
      BY <2>3
    <3> HIDE DEF x
    <3> QED
      BY <2>2, <2>3, <3>1, TurnChanges
  <2>4. CASE Goes(t, "over") /\ active' = NoTurn
    <3>1. [turns[t] EXCEPT !.pc = "over"] \in Turn /\ HasSession([turns[t] EXCEPT !.pc = "over"])
      BY <1>0, TurnMoves
    <3>2. turns' = [turns EXCEPT ![t] = [turns[t] EXCEPT !.pc = "over"]]
      BY <2>4 DEF Goes
    <3> QED
      BY <2>4, <3>1, <3>2, TurnChanges
  <2> QED
    BY <1>3, <2>3, <2>4 DEF BeginRun
<1>4. ASSUME NEW t \in DOMAIN turns,
             NEW pc \in {"working", "asking", "aborting", "planning"},
             pc \in {"working", "asking", "planning"} => turns[t].session \in Sessions,
             Goes(t, pc), UNCHANGED active
      PROVE  TurnsStay /\ active' \in DOMAIN turns' \cup {NoTurn}
  <2>1. [turns[t] EXCEPT !.pc = pc] \in Turn /\ HasSession([turns[t] EXCEPT !.pc = pc])
    BY <1>0, <1>4, TurnMoves
  <2>2. turns' = [turns EXCEPT ![t] = [turns[t] EXCEPT !.pc = pc]]
    BY <1>4 DEF Goes
  <2> QED
    BY <1>4, <2>1, <2>2, TurnChanges
<1>5. ASSUME NEW t \in DOMAIN turns, Resolved(t) \/ AskForPlan(t) \/ Ask(t)
      PROVE  TurnsStay /\ active' \in DOMAIN turns' \cup {NoTurn}
  <2>1. turns[t].session \in Sessions /\ UNCHANGED active
    BY <1>0, <1>5 DEF HasSession, Resolved, AskForPlan, Ask, At
  <2>2. \/ UNCHANGED turns
        \/ \E pc \in {"working", "asking", "aborting", "planning"} : Goes(t, pc)
    BY <1>5 DEF Resolved, AskForPlan, Ask
  <2> QED
    BY <1>1, <1>4, <2>1, <2>2
<1>6. ASSUME NEW t \in DOMAIN turns, EndTurn(t)
      PROVE  TurnsStay /\ active' \in DOMAIN turns' \cup {NoTurn}
  <2> DEFINE x == [turns[t] EXCEPT !.pc = "over", !.aborted = FALSE]
  <2>1. x \in Turn /\ HasSession(x)
    BY <1>0 DEF Turn, HasSession
  <2>2. turns' = [turns EXCEPT ![t] = x] /\ active' = NoTurn
    BY <1>6 DEF EndTurn
  <2> HIDE DEF x
  <2> QED
    BY <2>1, <2>2, TurnChanges
<1>7. CASE Submit
  <2> DEFINE x == [pc |-> "preparing", aborted |-> FALSE, session |-> NoSession, home |-> root]
  <2>1. x \in Turn /\ HasSession(x)
    BY <1>0 DEF Turn, HasSession
  <2>2. turns' = Append(turns, x) /\ active' = Len(turns) + 1 /\ Len(turns) < MaxTurns
    BY <1>7 DEF Submit
  <2> HIDE DEF x
  <2>3. LET after == Append(turns, x) IN
        /\ after \in Seq(Turn) /\ Len(after) = Len(turns) + 1
        /\ DOMAIN after = DOMAIN turns \cup {Len(turns) + 1}
        /\ after[Len(turns) + 1] = x
        /\ \A k \in DOMAIN turns : after[k] = turns[k] /\ k # Len(turns) + 1
    BY <1>0, <2>1, SeqAppend DEF TurnsInOrder
  <2>4. Len(turns) \in Nat /\ MaxTurns \in Nat
    BY <1>0, SeqIsFunction, CoordinatorAssumption DEF TurnsInOrder
  <2> QED
    BY <1>0, <2>1, <2>2, <2>3, <2>4 DEF TurnsStay, TurnsInOrder
<1>8. CASE AbortTurn
  <2>1. active # NoTurn /\ turns' = [turns EXCEPT ![active] = AbortedTurn] /\ UNCHANGED active
    BY <1>8 DEF AbortTurn
  <2> QED
    BY <2>1, AbortedInOrder, TurnChanges
<1>9. CASE AbortCommand
  <2> DEFINE x == [AbortedTurn EXCEPT !.pc = IF @ = "planning" THEN "working" ELSE @]
             ts == Answered(turns)
  <2>1. active # NoTurn /\ turns' = [ts EXCEPT ![active] = x] /\ UNCHANGED active
    BY <1>9 DEF AbortCommand
  <2>2. x \in Turn /\ HasSession(x) /\ TurnsInOrder(ts)
        /\ DOMAIN ts = DOMAIN turns /\ active \in DOMAIN turns
    BY <2>1, AbortedInOrder, AnsweredInOrder
  <2> HIDE DEF x, ts
  <2>3. TurnsInOrder([ts EXCEPT ![active] = x]) /\ DOMAIN [ts EXCEPT ![active] = x] = DOMAIN ts
    BY <2>2, OneTurn
  <2>4. TurnsInOrder(turns)' /\ DOMAIN turns' = DOMAIN turns
    BY <2>1, <2>2, <2>3 DEF TurnsInOrder
  <2> QED
    BY <1>0, <2>1, <2>4 DEF TurnsStay
<1> QED
  BY <1>1, <1>2, <1>3, <1>5, <1>6, <1>7, <1>8, <1>9, WhatChangesTurns

\* What the surface remembers are sessions of turns.
LEMMA SurfaceInOrder ==
  ASSUME IInv, [Next]_vars
  PROVE  /\ root' \in Roots /\ surface' \in Surfaces /\ busy' \in BOOLEAN
         /\ resuming' \in Sessions \cup {NoSession} /\ sessionId' \in Sessions \cup {NoSession}
<1>0. /\ root \in Roots /\ surface \in Surfaces /\ busy \in BOOLEAN
      /\ resuming \in Sessions \cup {NoSession} /\ sessionId \in Sessions \cup {NoSession}
      /\ DOMAIN turns \subseteq Sessions /\ \A t \in DOMAIN turns : turns[t] \in Turn
  BY TurnsAreInOrder DEF IInv, TypeOK, CoordinatorTypeOK, Sessions
<1>1. surface' = surface
  BY DEF Next, vars, coordinatorVars, TurnStep, BeginRun, Resolved, EndTurn, Ask, AskForPlan,
         RequestStep, Save, Publish, EnterMap, AnswerStep, LookUpAnswer, SettleAnswer,
         ResumeRead, ReplInput, LineIgnored, TaskLine, AbortCommand, PlainAnswer,
         AnswerCommand, NewContext, ResumeCommand, TuiInput, AnswerPlan, SubmitTask,
         AbortTurn, AnswerShown, SlashAnswer
<1>2. busy' \in {busy, TRUE, FALSE}
  BY DEF Next, vars, coordinatorVars, TurnStep, BeginRun, Resolved, EndTurn, Ask, AskForPlan,
         RequestStep, Save, Publish, EnterMap, AnswerStep, LookUpAnswer, SettleAnswer,
         ResumeRead, ReplInput, LineIgnored, TaskLine, AbortCommand, PlainAnswer,
         AnswerCommand, NewContext, ResumeCommand, TuiInput, AnswerPlan, SubmitTask,
         AbortTurn, AnswerShown, SlashAnswer, Finished
<1>3. root' = root \/ \E r \in Roots : NewContext(r)
  BY DEF Next, vars, coordinatorVars, TurnStep, BeginRun, Resolved, EndTurn, Ask, AskForPlan,
         RequestStep, Save, Publish, EnterMap, AnswerStep, LookUpAnswer, SettleAnswer,
         LookUp, Settle, ResumeRead, ReplInput, LineIgnored, TaskLine, AbortCommand,
         PlainAnswer, AnswerCommand, ResumeCommand, TuiInput, AnswerPlan,
         SubmitTask, AbortTurn, AnswerShown, SlashAnswer
<1>4. resuming' \in {resuming, NoSession} \/ \E s \in BegunSessions : ResumeCommand(s)
  BY DEF Next, vars, coordinatorVars, TurnStep, BeginRun, Resolved, EndTurn, Ask, AskForPlan,
         RequestStep, Save, Publish, EnterMap, AnswerStep, LookUpAnswer, SettleAnswer,
         ResumeRead, ReplInput, LineIgnored, TaskLine, AbortCommand, PlainAnswer,
         AnswerCommand, NewContext, TuiInput, AnswerPlan, SubmitTask,
         AbortTurn, AnswerShown, SlashAnswer
<1>5. \/ sessionId' \in {sessionId, resuming, NoSession}
      \/ \E t \in DOMAIN turns : BeginRun(t) \/ EndTurn(t)
  BY DEF Next, vars, coordinatorVars, TurnStep, Resolved, Ask, AskForPlan,
         RequestStep, Save, Publish, EnterMap, AnswerStep, LookUpAnswer, SettleAnswer,
         ResumeRead, ReplInput, LineIgnored, TaskLine, AbortCommand, PlainAnswer,
         AnswerCommand, NewContext, ResumeCommand, TuiInput, AnswerPlan, SubmitTask,
         AbortTurn, AnswerShown, SlashAnswer
<1>6. root' \in Roots
  BY <1>0, <1>3 DEF NewContext, SetWorkspaceRoot
<1>7. BegunSessions \subseteq Sessions
  BY <1>0 DEF BegunSessions, Turn
<1>8. resuming' \in Sessions \cup {NoSession}
  BY <1>0, <1>4, <1>7 DEF ResumeCommand
<1>9. \A t \in DOMAIN turns :
        BeginRun(t) \/ EndTurn(t) => sessionId' \in Sessions \cup {NoSession}
  BY <1>0 DEF BeginRun, EndTurn, Turn
<1>10. busy' \in BOOLEAN
  BY <1>0, <1>2
<1> QED
  BY <1>0, <1>1, <1>5, <1>6, <1>8, <1>9, <1>10

\* The modal shows what is announced, and loses it when the handler of an answer or the
\* turn is done with it.
LEMMA ShownInOrder ==
  ASSUME IInv, [Next]_vars
  PROVE  shown' = NoRequest \/ shown' \in Announced'
<1>0. RequestsStay /\ (shown = NoRequest \/ (shown \in Announced /\ shown \in DOMAIN reqs))
  BY RequestsInOrder DEF IInv, ShownIsAnnounced, Announced
<1>1. shown' \in {shown, NoRequest} \/ \E r \in DOMAIN reqs : Publish(r) \/ EnterMap(r)
  BY DEF Next, vars, coordinatorVars, TurnStep, BeginRun, Resolved, EndTurn, Ask, AskForPlan,
         RequestStep, Save, AnswerStep, LookUpAnswer, SettleAnswer,
         ResumeRead, ReplInput, LineIgnored, TaskLine, AbortCommand, PlainAnswer,
         AnswerCommand, NewContext, ResumeCommand, TuiInput, AnswerPlan, SubmitTask,
         AbortTurn, AnswerShown, SlashAnswer, Finished
<1>2. ASSUME NEW r \in DOMAIN reqs, Publish(r) \/ EnterMap(r)
      PROVE  shown' \in {shown, NoRequest} \/ shown' \in Announced'
  <2>1. shown' \in {shown, r}
    BY <1>2 DEF Publish, EnterMap
  <2>2. r \in Announced'
    <3>1. TypeOK
      BY DEF IInv
    <3>2. CASE Publish(r)
      <4>1. reqs'[r].stage = "announced" /\ DOMAIN reqs' = DOMAIN reqs
        BY <3>1, <3>2, RequestMoves DEF Publish, Announce
      <4> QED
        BY <4>1 DEF Announced
    <3>3. CASE EnterMap(r)
      <4>1. reqs'[r].stage = "waiting" /\ DOMAIN reqs' = DOMAIN reqs
        BY <3>1, <3>3, RequestMoves DEF EnterMap, Wait
      <4> QED
        BY <4>1 DEF Announced
    <3> QED
      BY <1>2, <3>2, <3>3
  <2> QED
    BY <2>1, <2>2
<1> QED
  BY <1>0, <1>1, <1>2 DEF RequestsStay

-----------------------------------------------------------------------------
(* The invariant and the theorems.                                         *)

\* The initial states.
LEMMA InitInOrder == Init => IInv
<1> SUFFICES ASSUME Init PROVE IInv
  OBVIOUS
<1>1. reqs \in Seq(Request) /\ Len(reqs) = 0 /\ turns \in Seq(Turn) /\ Len(turns) = 0
      /\ DOMAIN turns = {} /\ answers = {}
  BY DEF Init, CoordinatorInit
<1>2. IsFiniteSet(answers)
  BY <1>1, FS_EmptySet
<1>3. CoordinatorTypeOK
  BY <1>1, CoordinatorAssumption DEF Init, CoordinatorInit, CoordinatorTypeOK
<1>4. busy \in BOOLEAN
  BY DEF Init
<1>5. TypeOK
  BY <1>1, <1>3, <1>4, CoordinatorAssumption DEF Init, TypeOK
<1>6. TurnsHaveSessions /\ AnswersAreMeant /\ ShownIsAnnounced
  BY <1>1 DEF Init, TurnsHaveSessions, AnswersAreMeant, ShownIsAnnounced
<1> QED
  BY <1>2, <1>5, <1>6 DEF IInv

\* Every step keeps the invariant.
LEMMA NextInOrder == IInv /\ [Next]_vars => IInv'
<1> SUFFICES ASSUME IInv, [Next]_vars PROVE IInv'
  OBVIOUS
<1>1. RequestsStay /\ AnswersStay /\ TurnsStay /\ active' \in DOMAIN turns' \cup {NoTurn}
  BY RequestsInOrder, AnswersInOrder, TurnsInOrderStep
<1>2. /\ root' \in Roots /\ surface' \in Surfaces /\ busy' \in BOOLEAN
      /\ resuming' \in Sessions \cup {NoSession} /\ sessionId' \in Sessions \cup {NoSession}
  BY SurfaceInOrder
<1>3. shown' = NoRequest \/ shown' \in Announced'
  BY ShownInOrder
<1>4. TypeOK'
  <2>1. CoordinatorTypeOK'
    BY <1>1, <1>2 DEF CoordinatorTypeOK, RequestsStay, AnswersStay
  <2>2. shown' \in DOMAIN reqs' \cup {NoRequest}
    BY <1>3 DEF Announced
  <2>3. turns' \in Seq(Turn) /\ Len(turns') <= MaxTurns
    BY <1>1 DEF TurnsStay, TurnsInOrder
  <2> QED
    BY <1>1, <1>2, <2>1, <2>2, <2>3 DEF TypeOK
<1>5. TurnsHaveSessions'
  BY <1>1 DEF TurnsStay, TurnsInOrder, TurnsHaveSessions, HasSession
<1>6. AnswersAreMeant' /\ IsFiniteSet(answers')
  BY <1>1 DEF AnswersStay, RequestsStay, AnswersAreMeant, Apt
<1>7. ShownIsAnnounced'
  BY <1>3 DEF ShownIsAnnounced
<1> QED
  BY <1>4, <1>5, <1>6, <1>7 DEF IInv

\* In every reachable state what the surface remembers is typed, a turn that asks has its
\* session, an answer names what its author can have had in mind, and the modal shows a
\* request that was announced.
THEOREM Invariance == Spec => []IInv
<1> QED
  BY InitInOrder, NextInOrder, PTL DEF Spec

\* Whatever is typed while turns run, requests are announced and answers are looked up, a
\* call is let through by an answer that was meant for it.
THEOREM AnswersAreSeen == Spec => PlainAnswersAreSeen
<1> DEFINE Seen ==
      \A r \in DOMAIN reqs : reqs[r].stage # "granted" /\ reqs'[r].stage = "granted" =>
        \E a \in answers : a.id = r /\ r \in a.meant
<1>1. ASSUME IInv, [Next]_vars PROVE Seen
  <2> SUFFICES ASSUME NEW r \in DOMAIN reqs,
                      reqs[r].stage # "granted", reqs'[r].stage = "granted"
               PROVE  \E a \in answers : a.id = r /\ r \in a.meant
    OBVIOUS
  <2>1. TypeOK
    BY <1>1 DEF IInv
  <2>2. \A q \in DOMAIN reqs : ~Save(q) /\ ~Publish(q) /\ ~EnterMap(q)
    <3> SUFFICES ASSUME NEW q \in DOMAIN reqs, Save(q) \/ Publish(q) \/ EnterMap(q)
                 PROVE  FALSE
      OBVIOUS
    <3>1. \E stage \in {"announcing", "announced", "waiting"} :
            reqs'[q].stage = stage /\ \A k \in DOMAIN reqs : k # q => reqs'[k] = reqs[k]
      <4>1. CASE Save(q)
        BY <2>1, <4>1, RequestGoesOn DEF Save, SaveRequest, Announced
      <4>2. CASE Publish(q)
        BY <2>1, <4>2, RequestMoves DEF Publish, Announce
      <4>3. CASE EnterMap(q)
        BY <2>1, <4>3, RequestMoves DEF EnterMap, Wait
      <4> QED
        BY <4>1, <4>2, <4>3
    <3> QED
      BY <3>1
  <2>3. \A t \in DOMAIN turns : ~Ask(t)
    <3> SUFFICES ASSUME NEW t \in DOMAIN turns, Ask(t) PROVE FALSE
      OBVIOUS
    <3>1. reqs'[r] = reqs[r]
      BY <2>1, SeqIsFunction DEF Ask, NewRequest, TypeOK, CoordinatorTypeOK
    <3> QED
      BY <3>1
  <2>4. PICK a \in answers : SettleAnswer(a)
    BY <1>1, <2>2, <2>3, WhatChangesRequests
  <2>5. a.id \in DOMAIN reqs /\ \A q \in DOMAIN reqs : q # a.id => reqs'[q] = reqs[q]
    BY <1>1, <2>4, SettlingStays DEF SettleAnswer
  <2>6. a.id = r
    BY <2>5
  <2>7. a.step = "save"
    BY <2>4 DEF SettleAnswer, Settle
  <2> QED
    BY <1>1, <2>6, <2>7 DEF IInv, AnswersAreMeant
<1>2. IInv /\ [Next]_vars => [Seen]_vars
  BY <1>1
<1> QED
  BY <1>2, Invariance, PTL DEF Spec, PlainAnswersAreSeen

-----------------------------------------------------------------------------
(* HttpApprovals.                                                          *)


\* What a run waits for, and where the call it waits for is suspended.
AskingAgrees ==
  \A r \in Runs : run[r] = "asking" =>
    /\ Current(r) \in Ids
    /\ call[Current(r)] \in {"saving", "announcing", "waiting"}
    /\ outcome[Current(r)] = "none"
    /\ ~aborted[r]

\* The approval of a call that goes on is the one its run waits for, unless
\* the run was aborted; an approval in the map always is.
CallAgrees ==
  \A id \in Ids :
    /\ call[id] = "none" => outcome[id] = "none" /\ reply[id] = "none"
    /\ call[id] \in {"saving", "announcing"} => outcome[id] \in {"none", "aborted"}
    /\ call[id] = "waiting" => outcome[id] = "none"
    /\ call[id] \in {"saving", "announcing", "waiting"} /\ outcome[id] = "none" =>
         run[Owner(id)] = "asking" /\ id = Current(Owner(id))
    /\ id[2] > calls[Owner(id)] => call[id] = "none"

\* The map holds the calls that wait.
MapAgrees == \A id \in Ids : id \in pending <=> call[id] = "waiting"

\* A list of records shows no decision the runs did not get.
TrueRecords(list) == \A id \in Ids : list[id] \in Decisions => outcome[id] = list[id]

\* Neither does a list that is still to be written, nor a record to be added.
SavesAreTrue ==
  \A id \in Ids :
    /\ TrueRecords(save[id].list)
    /\ save[id].status \in Decisions => outcome[id] = save[id].status

QueueInv ==
  /\ QueueTypeOK /\ AskingAgrees /\ CallAgrees /\ MapAgrees
  /\ AcceptedAnswerCounts /\ RecordsAreTrue /\ SavesAreTrue

\* An approval is the pair of its run and its number.
LEMMA IdFacts ==
  /\ \A id \in Ids : id = <<id[1], id[2]>> /\ id[1] \in Runs /\ id[2] \in 1..MaxCalls
  /\ \A r \in Runs, n \in 1..MaxCalls :
       <<r, n>> \in Ids /\ <<r, n>>[1] = r /\ <<r, n>>[2] = n
  BY DEF Ids

\* The invariant holds when the server has started.
LEMMA QueueStarts == QueueInit => QueueInv
<1> SUFFICES ASSUME QueueInit PROVE QueueInv
  OBVIOUS
<1>1. QueueTypeOK
  BY ApprovalsAssumption DEF QueueInit, QueueTypeOK, CallStates, Outcomes, Replies, Saves, NoSave,
    Records, NoRecords, Statuses, AbsentFile, FileStates
<1>2. AskingAgrees /\ CallAgrees /\ MapAgrees /\ AcceptedAnswerCounts
  BY DEF QueueInit, AskingAgrees, CallAgrees, MapAgrees, AcceptedAnswerCounts, Decisions
<1>3. RecordsAreTrue /\ SavesAreTrue
  BY DEF QueueInit, RecordsAreTrue, SavesAreTrue, TrueRecords, Decisions, NoSave, NoRecords,
    AbsentFile
<1> QED
  BY <1>1, <1>2, <1>3 DEF QueueInv

\* The values actions store are in the domains of TypeOK.
LEMMA ValueTypes ==
  /\ NoSave \in Saves /\ NoRecords \in Records
  /\ \A status \in Statuses : StartSave(status) \in Saves
  /\ Decisions \subseteq Statuses /\ "pending" \in Statuses
  /\ Decisions \subseteq Outcomes /\ {"aborted", "failed", "lost"} \subseteq Outcomes
  /\ Decisions \subseteq Replies /\ "refused" \in Replies
<1>1. NoRecords \in Records
  BY DEF NoRecords, Records, Statuses
<1> QED
  BY <1>1 DEF NoSave, Saves, StartSave, Statuses, Decisions, Outcomes, Replies

\* WaitEnds leaves run and outcome in their domains.
LEMMA WaitEndsTypes ==
  ASSUME QueueTypeOK, NEW id \in Ids, NEW how \in Outcomes, WaitEnds(id, how)
  PROVE  /\ run' \in [Runs -> {"working", "asking", "ended"}]
         /\ outcome' \in [Ids -> Outcomes]
<1>1. Owner(id) \in Runs
  BY IdFacts DEF Owner
<1>2. CASE outcome[id] = "none"
  BY <1>1, <1>2 DEF QueueTypeOK, WaitEnds
<1>3. CASE outcome[id] # "none"
  BY <1>3 DEF QueueTypeOK, WaitEnds
<1> QED
  BY <1>2, <1>3

\* So do the two steps of a writeFile with approvals.json.
LEMMA FileTypes ==
  ASSUME QueueTypeOK, NEW id \in Ids
  PROVE  /\ OpenedFile(NoRecords) \in [state: FileStates, content: Records]
         /\ \A f \in WrittenOver(file, save[id].list, NoRecords) :
              f \in [state: FileStates, content: Records]
<1>1. save[id].list \in Records
  BY DEF QueueTypeOK, Saves
<1> QED
  BY <1>1, ValueTypes DEF WrittenOver, WholeFile, GarbledFile, OpenedFile, FileStates

\* resolvePermission starts a call under a number that was not used before,
\* and waits for it unless the run was aborted.
LEMMA AskKeeps == ASSUME QueueInv, NEW r \in Runs, ResolvePermission(r) PROVE QueueInv'
<1> DEFINE new == <<r, calls[r] + 1>>
<1>0. /\ new \in Ids /\ Owner(new) = r /\ new # Current(r)
      /\ call[new] = "none" /\ outcome[new] = "none" /\ reply[new] = "none"
  BY IdFacts, ApprovalsAssumption DEF QueueInv, QueueTypeOK, CallAgrees, ResolvePermission,
    MayAsk, Owner, Current
<1>a. /\ outcome'[new] \in {"none", "aborted"}
      /\ run'[r] = IF outcome'[new] = "none" THEN "asking" ELSE "ended"
      /\ run'[r] = "asking" => ~aborted[r]
      /\ \A id \in Ids : id # new => outcome'[id] = outcome[id]
      /\ \A q \in Runs : q # r => run'[q] = run[q]
  <2>1. CASE aborted[r]
    BY <2>1, <1>0 DEF QueueInv, QueueTypeOK, ResolvePermission, WaitEnds, Decisions
  <2>2. CASE ~aborted[r]
    BY <2>2, <1>0 DEF QueueInv, QueueTypeOK, ResolvePermission
  <2> QED
    BY <2>1, <2>2
<1>b. /\ calls'[r] = calls[r] + 1 /\ \A q \in Runs : q # r => calls'[q] = calls[q]
      /\ call'[new] = "saving" /\ \A id \in Ids : id # new => call'[id] = call[id]
      /\ save'[new] = StartSave("pending") /\ \A id \in Ids : id # new => save'[id] = save[id]
      /\ UNCHANGED <<aborted, pending, reply, file>> /\ run[r] = "working"
  BY <1>0 DEF QueueInv, QueueTypeOK, ResolvePermission
<1>1. QueueTypeOK'
  <2>1. /\ run' \in [Runs -> {"working", "asking", "ended"}]
        /\ outcome' \in [Ids -> Outcomes]
    BY <1>0, WaitEndsTypes, ValueTypes DEF QueueInv, QueueTypeOK, ResolvePermission
  <2>2. calls' \in [Runs -> 0..MaxCalls]
    BY ApprovalsAssumption DEF QueueInv, QueueTypeOK, ResolvePermission, MayAsk
  <2>3. call' \in [Ids -> CallStates]
    BY DEF QueueInv, QueueTypeOK, ResolvePermission, CallStates
  <2>4. save' \in [Ids -> Saves]
    BY ValueTypes DEF QueueInv, QueueTypeOK, ResolvePermission
  <2> QED
    BY <2>1, <2>2, <2>3, <2>4 DEF QueueInv, QueueTypeOK, ResolvePermission
<1>2. AskingAgrees'
  BY <1>0, <1>a, <1>b DEF QueueInv, QueueTypeOK, AskingAgrees, Current
<1>3. CallAgrees'
  <2> SUFFICES ASSUME NEW id \in Ids PROVE CallAgrees!(id)'
    BY DEF CallAgrees
  <2>1. CASE id = new
    <3>1. id[2] = calls'[r] /\ id = Current(r)' /\ calls'[r] \in Nat
      BY <2>1, <1>0, <1>b, <1>1, IdFacts, ApprovalsAssumption DEF QueueTypeOK, Current
    <3>2. call'[id] = "saving" /\ Owner(id) = r
      BY <2>1, <1>0, <1>b
    <3>3. ~(id[2] > calls'[Owner(id)])
      BY <3>1, <3>2
    <3>4. outcome'[id] = "none" => run'[Owner(id)] = "asking"
      BY <2>1, <3>2, <1>a
    <3> QED
      BY <2>1, <3>1, <3>2, <3>3, <3>4, <1>a DEF Owner, Current
  <2>2. CASE id # new
    BY <2>2, <1>0, <1>a, <1>b, IdFacts DEF QueueInv, QueueTypeOK, CallAgrees, Current, Owner
  <2> QED
    BY <2>1, <2>2
<1>4. MapAgrees'
  BY <1>0, <1>b DEF QueueInv, MapAgrees
<1>5. AcceptedAnswerCounts'
  BY <1>0, <1>a, <1>b DEF QueueInv, AcceptedAnswerCounts, Decisions
<1>6. RecordsAreTrue'
  BY <1>0, <1>a, <1>b DEF QueueInv, RecordsAreTrue, Decisions
<1>7. SavesAreTrue'
  BY <1>0, <1>a, <1>b DEF QueueInv, SavesAreTrue, TrueRecords, Decisions, StartSave, NoRecords
<1> QED
  BY <1>1, <1>2, <1>3, <1>4, <1>5, <1>6, <1>7 DEF QueueInv

\* A run ends or is resumed only when it does not wait.
LEMMA EndRunKeeps == ASSUME QueueInv, NEW r \in Runs, EndRun(r) PROVE QueueInv'
<1>1. QueueTypeOK'
  BY DEF QueueInv, QueueTypeOK, EndRun
<1>2. AskingAgrees'
  BY IdFacts DEF QueueInv, QueueTypeOK, AskingAgrees, CallAgrees, MapAgrees, EndRun, Current,
    Owner, Decisions
<1>3. CallAgrees'
  BY IdFacts DEF QueueInv, QueueTypeOK, AskingAgrees, CallAgrees, MapAgrees, EndRun, Current,
    Owner, Decisions
<1>4. MapAgrees'
  BY IdFacts DEF QueueInv, QueueTypeOK, MapAgrees, CallAgrees, EndRun, Current, Owner
<1>5. AcceptedAnswerCounts'
  BY IdFacts DEF QueueInv, QueueTypeOK, AskingAgrees, CallAgrees, MapAgrees,
    AcceptedAnswerCounts, EndRun, Current, Owner, Decisions
<1>6. RecordsAreTrue'
  BY IdFacts DEF QueueInv, QueueTypeOK, AskingAgrees, CallAgrees, MapAgrees, RecordsAreTrue,
    SavesAreTrue, TrueRecords, EndRun, Current, Decisions
<1>7. SavesAreTrue'
  BY IdFacts DEF QueueInv, QueueTypeOK, AskingAgrees, CallAgrees, MapAgrees, RecordsAreTrue,
    SavesAreTrue, TrueRecords, EndRun, Current, Decisions, StartSave, NoSave, NoRecords
<1> QED
  BY <1>1, <1>2, <1>3, <1>4, <1>5, <1>6, <1>7 DEF QueueInv

LEMMA ResumeRunKeeps == ASSUME QueueInv, NEW r \in Runs, ResumeRun(r) PROVE QueueInv'
<1>1. QueueTypeOK'
  BY DEF QueueInv, QueueTypeOK, ResumeRun
<1>2. AskingAgrees'
  BY IdFacts DEF QueueInv, QueueTypeOK, AskingAgrees, CallAgrees, MapAgrees, ResumeRun, Current,
    Owner, Decisions
<1>3. CallAgrees'
  BY IdFacts DEF QueueInv, QueueTypeOK, AskingAgrees, CallAgrees, MapAgrees, ResumeRun, Current,
    Owner, Decisions
<1>4. MapAgrees'
  BY IdFacts DEF QueueInv, QueueTypeOK, MapAgrees, CallAgrees, ResumeRun, Current, Owner
<1>5. AcceptedAnswerCounts'
  BY IdFacts DEF QueueInv, QueueTypeOK, AskingAgrees, CallAgrees, MapAgrees,
    AcceptedAnswerCounts, ResumeRun, Current, Owner, Decisions
<1>6. RecordsAreTrue'
  BY IdFacts DEF QueueInv, QueueTypeOK, AskingAgrees, CallAgrees, MapAgrees, RecordsAreTrue,
    SavesAreTrue, TrueRecords, ResumeRun, Current, Decisions
<1>7. SavesAreTrue'
  BY IdFacts DEF QueueInv, QueueTypeOK, AskingAgrees, CallAgrees, MapAgrees, RecordsAreTrue,
    SavesAreTrue, TrueRecords, ResumeRun, Current, Decisions, StartSave, NoSave, NoRecords
<1> QED
  BY <1>1, <1>2, <1>3, <1>4, <1>5, <1>6, <1>7 DEF QueueInv

\* An abort ends the wait and takes the approval out of the map together.
LEMMA AbortKeeps == ASSUME QueueInv, NEW r \in Runs, Abort(r) PROVE QueueInv'
<1>1. QueueTypeOK'
  <2>1. /\ run' \in [Runs -> {"working", "asking", "ended"}]
        /\ outcome' \in [Ids -> Outcomes]
    BY WaitEndsTypes, ValueTypes DEF QueueInv, QueueTypeOK, AskingAgrees, Abort
  <2>2. pending' \subseteq Ids
    BY DEF QueueInv, QueueTypeOK, Abort
  <2>3. call' \in [Ids -> CallStates]
    BY DEF QueueInv, QueueTypeOK, Abort, CallStates
  <2> QED
    BY <2>1, <2>2, <2>3 DEF QueueInv, QueueTypeOK, Abort
<1>2. AskingAgrees'
  <2>1. CASE run[r] = "asking"
    BY <2>1, IdFacts DEF QueueInv, QueueTypeOK, AskingAgrees, Abort, WaitEnds, Current, Owner,
      Decisions
  <2>2. CASE run[r] # "asking"
    BY <2>2 DEF QueueInv, QueueTypeOK, AskingAgrees, Abort, Current
  <2> QED
    BY <2>1, <2>2
<1>3. CallAgrees'
  <2> SUFFICES ASSUME NEW id \in Ids PROVE CallAgrees!(id)'
    BY DEF CallAgrees
  <2>1. CASE run[r] = "asking"
    <3>1. CASE id = Current(r)
      <4>1. id \in Ids /\ Owner(id) = r /\ outcome[id] = "none"
            /\ call[id] \in {"saving", "announcing", "waiting"}
        BY <2>1, <3>1, IdFacts DEF QueueInv, AskingAgrees, Current, Owner
      <4>2. /\ outcome'[id] = "aborted" /\ calls' = calls /\ reply' = reply
            /\ call'[id] = IF call[id] = "waiting" THEN "returned" ELSE call[id]
        BY <2>1, <3>1, <4>1 DEF QueueInv, QueueTypeOK, Abort, WaitEnds
      <4>3. call'[id] \in {"saving", "announcing", "returned"}
        BY <4>1, <4>2
      <4> QED
        BY <4>1, <4>2, <4>3 DEF QueueInv, CallAgrees
    <3>2. CASE id # Current(r)
      <4>1. /\ call'[id] = call[id] /\ outcome'[id] = outcome[id]
            /\ calls' = calls /\ reply' = reply
        BY <2>1, <3>2, IdFacts DEF QueueInv, QueueTypeOK, AskingAgrees, Abort, WaitEnds
      <4>2. Owner(id) = r =>
              outcome[id] # "none" \/ call[id] \notin {"saving", "announcing", "waiting"}
        BY <3>2 DEF QueueInv, CallAgrees
      <4>3. Owner(id) # r =>
              run'[Owner(id)] = run[Owner(id)] /\ Current(Owner(id))' = Current(Owner(id))
        BY <2>1, <4>1, IdFacts DEF QueueInv, QueueTypeOK, Abort, WaitEnds, Current, Owner,
          AskingAgrees
      <4> QED
        BY <3>2, <4>1, <4>2, <4>3 DEF QueueInv, CallAgrees, Owner
    <3> QED
      BY <3>1, <3>2
  <2>2. CASE run[r] # "asking"
    BY <2>2, IdFacts DEF QueueInv, QueueTypeOK, CallAgrees, Abort, Current, Owner
  <2> QED
    BY <2>1, <2>2
<1>4. MapAgrees'
  <2>1. CASE run[r] = "asking"
    BY <2>1 DEF QueueInv, QueueTypeOK, AskingAgrees, MapAgrees, Abort
  <2>2. CASE run[r] # "asking"
    BY <2>2 DEF QueueInv, MapAgrees, Abort
  <2> QED
    BY <2>1, <2>2
<1>5. AcceptedAnswerCounts'
  BY IdFacts DEF QueueInv, QueueTypeOK, AskingAgrees, CallAgrees, MapAgrees,
    AcceptedAnswerCounts, Abort, WaitEnds, Current, Owner, Decisions
<1>6. RecordsAreTrue'
  BY IdFacts DEF QueueInv, QueueTypeOK, AskingAgrees, CallAgrees, MapAgrees, RecordsAreTrue,
    SavesAreTrue, TrueRecords, Abort, WaitEnds, Current, Decisions
<1>7. SavesAreTrue'
  BY IdFacts DEF QueueInv, QueueTypeOK, AskingAgrees, CallAgrees, MapAgrees, RecordsAreTrue,
    SavesAreTrue, TrueRecords, Abort, WaitEnds, Current, Decisions, StartSave, NoSave, NoRecords
<1> QED
  BY <1>1, <1>2, <1>3, <1>4, <1>5, <1>6, <1>7 DEF QueueInv

\* A call gets into the map only if its run still waits.
LEMMA RegisterKeeps == ASSUME QueueInv, NEW id \in Ids, Register(id) PROVE QueueInv'
<1>1. QueueTypeOK'
  BY DEF QueueInv, QueueTypeOK, Register, CallStates
<1>2. AskingAgrees'
  BY IdFacts DEF QueueInv, QueueTypeOK, AskingAgrees, CallAgrees, MapAgrees, Register, Current,
    Owner, Decisions
<1>3. CallAgrees'
  BY IdFacts DEF QueueInv, QueueTypeOK, AskingAgrees, CallAgrees, MapAgrees, Register, Current,
    Owner, Decisions
<1>4. MapAgrees'
  BY IdFacts DEF QueueInv, QueueTypeOK, MapAgrees, CallAgrees, Register, Current, Owner
<1>5. AcceptedAnswerCounts'
  BY IdFacts DEF QueueInv, QueueTypeOK, AskingAgrees, CallAgrees, MapAgrees,
    AcceptedAnswerCounts, Register, Current, Owner, Decisions
<1>6. RecordsAreTrue'
  BY IdFacts DEF QueueInv, QueueTypeOK, AskingAgrees, CallAgrees, MapAgrees, RecordsAreTrue,
    SavesAreTrue, TrueRecords, Register, Current, Decisions
<1>7. SavesAreTrue'
  BY IdFacts DEF QueueInv, QueueTypeOK, AskingAgrees, CallAgrees, MapAgrees, RecordsAreTrue,
    SavesAreTrue, TrueRecords, Register, Current, Decisions, StartSave, NoSave, NoRecords
<1> QED
  BY <1>1, <1>2, <1>3, <1>4, <1>5, <1>6, <1>7 DEF QueueInv

\* A failing onPending or a failing first save ends the wait with the call.
LEMMA AnnouncingFailsKeeps == ASSUME QueueInv, NEW id \in Ids, AnnouncingFails(id) PROVE QueueInv'
<1>1. QueueTypeOK'
  <2>1. /\ run' \in [Runs -> {"working", "asking", "ended"}]
        /\ outcome' \in [Ids -> Outcomes]
    BY WaitEndsTypes, ValueTypes DEF QueueInv, AnnouncingFails
  <2>2. call' \in [Ids -> CallStates]
    BY DEF QueueInv, QueueTypeOK, AnnouncingFails, CallStates
  <2> QED
    BY <2>1, <2>2 DEF QueueInv, QueueTypeOK, AnnouncingFails
<1>2. AskingAgrees'
  BY IdFacts DEF QueueInv, QueueTypeOK, AskingAgrees, CallAgrees, MapAgrees, AnnouncingFails,
    WaitEnds, Current, Owner, Decisions
<1>3. CallAgrees'
  BY IdFacts DEF QueueInv, QueueTypeOK, AskingAgrees, CallAgrees, MapAgrees, AnnouncingFails,
    WaitEnds, Current, Owner, Decisions
<1>4. MapAgrees'
  BY IdFacts DEF QueueInv, QueueTypeOK, MapAgrees, CallAgrees, AnnouncingFails, Current, Owner
<1>5. AcceptedAnswerCounts'
  BY IdFacts DEF QueueInv, QueueTypeOK, AskingAgrees, CallAgrees, MapAgrees,
    AcceptedAnswerCounts, AnnouncingFails, WaitEnds, Current, Owner, Decisions
<1>6. RecordsAreTrue'
  BY IdFacts DEF QueueInv, QueueTypeOK, AskingAgrees, CallAgrees, MapAgrees, RecordsAreTrue,
    SavesAreTrue, TrueRecords, AnnouncingFails, WaitEnds, Current, Decisions
<1>7. SavesAreTrue'
  BY IdFacts DEF QueueInv, QueueTypeOK, AskingAgrees, CallAgrees, MapAgrees, RecordsAreTrue,
    SavesAreTrue, TrueRecords, AnnouncingFails, WaitEnds, Current, Decisions, StartSave, NoSave,
    NoRecords
<1> QED
  BY <1>1, <1>2, <1>3, <1>4, <1>5, <1>6, <1>7 DEF QueueInv

LEMMA SaveFailsKeeps == ASSUME QueueInv, NEW id \in Ids, SaveFails(id) PROVE QueueInv'
<1>1. QueueTypeOK'
  <2>1. /\ run' \in [Runs -> {"working", "asking", "ended"}]
        /\ outcome' \in [Ids -> Outcomes]
    BY WaitEndsTypes, ValueTypes DEF QueueInv, SaveFails
  <2>2. call' \in [Ids -> CallStates]
    BY DEF QueueInv, QueueTypeOK, SaveFails, CallStates
  <2>3. save' \in [Ids -> Saves]
    BY ValueTypes DEF QueueInv, QueueTypeOK, SaveFails
  <2> QED
    BY <2>1, <2>2, <2>3 DEF QueueInv, QueueTypeOK, SaveFails
<1>2. AskingAgrees'
  BY IdFacts DEF QueueInv, QueueTypeOK, AskingAgrees, CallAgrees, MapAgrees, SaveFails,
    WaitEnds, Current, Owner, Decisions
<1>3. CallAgrees'
  BY IdFacts DEF QueueInv, QueueTypeOK, AskingAgrees, CallAgrees, MapAgrees, SaveFails,
    WaitEnds, Current, Owner, Decisions
<1>4. MapAgrees'
  BY IdFacts DEF QueueInv, QueueTypeOK, MapAgrees, CallAgrees, SaveFails, Current, Owner
<1>5. AcceptedAnswerCounts'
  BY IdFacts DEF QueueInv, QueueTypeOK, AskingAgrees, CallAgrees, MapAgrees,
    AcceptedAnswerCounts, SaveFails, WaitEnds, Current, Owner, Decisions
<1>6. RecordsAreTrue'
  BY IdFacts DEF QueueInv, QueueTypeOK, AskingAgrees, CallAgrees, MapAgrees, RecordsAreTrue,
    SavesAreTrue, TrueRecords, SaveFails, WaitEnds, Current, Decisions
<1>7. SavesAreTrue'
  BY IdFacts DEF QueueInv, QueueTypeOK, AskingAgrees, CallAgrees, MapAgrees, RecordsAreTrue,
    SavesAreTrue, TrueRecords, SaveFails, WaitEnds, Current, Decisions, StartSave, NoSave,
    NoRecords
<1> QED
  BY <1>1, <1>2, <1>3, <1>4, <1>5, <1>6, <1>7 DEF QueueInv

\* An answer gives the run, the client and the record the same decision.
LEMMA AnswerKeeps ==
  ASSUME QueueInv, NEW id \in Ids, NEW d \in Decisions, NEW ofSession \in BOOLEAN,
         ResolveApproval(id, d, ofSession)
  PROVE  QueueInv'
<1>1. QueueTypeOK'
  <2>1. /\ run' \in [Runs -> {"working", "asking", "ended"}]
        /\ outcome' \in [Ids -> Outcomes]
    BY WaitEndsTypes, ValueTypes DEF QueueInv, ResolveApproval
  <2>2. call' \in [Ids -> CallStates]
    BY DEF QueueInv, QueueTypeOK, ResolveApproval, CallStates
  <2>3. save' \in [Ids -> Saves]
    BY ValueTypes DEF QueueInv, QueueTypeOK, ResolveApproval
  <2>4. reply' \in [Ids -> Replies]
    BY ValueTypes DEF QueueInv, QueueTypeOK, ResolveApproval
  <2> QED
    BY <2>1, <2>2, <2>3, <2>4 DEF QueueInv, QueueTypeOK, ResolveApproval
<1>2. AskingAgrees'
  BY IdFacts DEF QueueInv, QueueTypeOK, AskingAgrees, CallAgrees, MapAgrees, ResolveApproval,
    WaitEnds, Current, Owner, Decisions
<1>3. CallAgrees'
  BY IdFacts DEF QueueInv, QueueTypeOK, AskingAgrees, CallAgrees, MapAgrees, ResolveApproval,
    WaitEnds, Current, Owner, Decisions
<1>4. MapAgrees'
  BY IdFacts DEF QueueInv, QueueTypeOK, MapAgrees, CallAgrees, ResolveApproval, Current, Owner
<1>5. AcceptedAnswerCounts'
  BY IdFacts DEF QueueInv, QueueTypeOK, AskingAgrees, CallAgrees, MapAgrees,
    AcceptedAnswerCounts, ResolveApproval, WaitEnds, Current, Owner, Decisions
<1>6. RecordsAreTrue'
  BY IdFacts DEF QueueInv, QueueTypeOK, AskingAgrees, CallAgrees, MapAgrees, RecordsAreTrue,
    SavesAreTrue, TrueRecords, ResolveApproval, WaitEnds, Current, Decisions
<1>7. SavesAreTrue'
  BY IdFacts DEF QueueInv, QueueTypeOK, AskingAgrees, CallAgrees, MapAgrees, RecordsAreTrue,
    SavesAreTrue, TrueRecords, ResolveApproval, WaitEnds, Current, Decisions, StartSave, NoSave,
    NoRecords
<1> QED
  BY <1>1, <1>2, <1>3, <1>4, <1>5, <1>6, <1>7 DEF QueueInv

\* The steps of a save move records that are true from the file to the list
\* to be written and back.
LEMMA ReadApprovalsKeeps == ASSUME QueueInv, NEW id \in Ids, ReadApprovals(id) PROVE QueueInv'
<1>1. QueueTypeOK'
  <2>1. [file.content EXCEPT ![id] = save[id].status] \in Records
    BY DEF QueueInv, QueueTypeOK, Records, Saves
  <2>2. save' \in [Ids -> Saves]
    BY <2>1 DEF QueueInv, QueueTypeOK, ReadApprovals, Saves
  <2> QED
    BY <2>2 DEF QueueInv, QueueTypeOK, ReadApprovals
<1>2. AskingAgrees'
  BY IdFacts DEF QueueInv, QueueTypeOK, AskingAgrees, CallAgrees, MapAgrees, ReadApprovals,
    Current, Owner, Decisions
<1>3. CallAgrees'
  BY IdFacts DEF QueueInv, QueueTypeOK, AskingAgrees, CallAgrees, MapAgrees, ReadApprovals,
    Current, Owner, Decisions
<1>4. MapAgrees'
  BY IdFacts DEF QueueInv, QueueTypeOK, MapAgrees, CallAgrees, ReadApprovals, Current, Owner
<1>5. AcceptedAnswerCounts'
  BY IdFacts DEF QueueInv, QueueTypeOK, AskingAgrees, CallAgrees, MapAgrees,
    AcceptedAnswerCounts, ReadApprovals, Current, Owner, Decisions
<1>6. RecordsAreTrue'
  BY IdFacts DEF QueueInv, QueueTypeOK, RecordsAreTrue, SavesAreTrue, TrueRecords,
    ReadApprovals, Decisions, NoRecords, OpenedFile, WholeFile, GarbledFile, WrittenOver, NoSave
<1>7. SavesAreTrue'
  BY IdFacts DEF QueueInv, QueueTypeOK, RecordsAreTrue, SavesAreTrue, TrueRecords,
    ReadApprovals, Decisions, NoRecords, OpenedFile, WholeFile, GarbledFile, WrittenOver, NoSave
<1> QED
  BY <1>1, <1>2, <1>3, <1>4, <1>5, <1>6, <1>7 DEF QueueInv

LEMMA OpenApprovalsKeeps == ASSUME QueueInv, NEW id \in Ids, OpenApprovals(id) PROVE QueueInv'
<1>1. QueueTypeOK'
  <2>1. save' \in [Ids -> Saves]
    BY DEF QueueInv, QueueTypeOK, OpenApprovals, Saves
  <2> QED
    BY <2>1, FileTypes DEF QueueInv, QueueTypeOK, OpenApprovals
<1>2. AskingAgrees'
  BY IdFacts DEF QueueInv, QueueTypeOK, AskingAgrees, CallAgrees, MapAgrees, OpenApprovals,
    Current, Owner, Decisions
<1>3. CallAgrees'
  BY IdFacts DEF QueueInv, QueueTypeOK, AskingAgrees, CallAgrees, MapAgrees, OpenApprovals,
    Current, Owner, Decisions
<1>4. MapAgrees'
  BY IdFacts DEF QueueInv, QueueTypeOK, MapAgrees, CallAgrees, OpenApprovals, Current, Owner
<1>5. AcceptedAnswerCounts'
  BY IdFacts DEF QueueInv, QueueTypeOK, AskingAgrees, CallAgrees, MapAgrees,
    AcceptedAnswerCounts, OpenApprovals, Current, Owner, Decisions
<1>6. RecordsAreTrue'
  BY IdFacts DEF QueueInv, QueueTypeOK, RecordsAreTrue, SavesAreTrue, TrueRecords,
    OpenApprovals, Decisions, NoRecords, OpenedFile, WholeFile, GarbledFile, WrittenOver, NoSave
<1>7. SavesAreTrue'
  BY IdFacts DEF QueueInv, QueueTypeOK, RecordsAreTrue, SavesAreTrue, TrueRecords,
    OpenApprovals, Decisions, NoRecords, OpenedFile, WholeFile, GarbledFile, WrittenOver, NoSave
<1> QED
  BY <1>1, <1>2, <1>3, <1>4, <1>5, <1>6, <1>7 DEF QueueInv

LEMMA WriteApprovalsKeeps == ASSUME QueueInv, NEW id \in Ids, WriteApprovals(id) PROVE QueueInv'
<1>1. QueueTypeOK'
  <2>1. save' \in [Ids -> Saves]
    BY ValueTypes DEF QueueInv, QueueTypeOK, WriteApprovals
  <2>2. call' \in [Ids -> CallStates]
    BY DEF QueueInv, QueueTypeOK, WriteApprovals, CallStates
  <2> QED
    BY <2>1, <2>2, FileTypes DEF QueueInv, QueueTypeOK, WriteApprovals
<1>2. AskingAgrees'
  BY IdFacts DEF QueueInv, QueueTypeOK, AskingAgrees, CallAgrees, MapAgrees, WriteApprovals,
    Current, Owner, Decisions
<1>3. CallAgrees'
  BY IdFacts DEF QueueInv, QueueTypeOK, AskingAgrees, CallAgrees, MapAgrees, WriteApprovals,
    Current, Owner, Decisions
<1>4. MapAgrees'
  BY IdFacts DEF QueueInv, QueueTypeOK, MapAgrees, CallAgrees, WriteApprovals, Current, Owner
<1>5. AcceptedAnswerCounts'
  BY IdFacts DEF QueueInv, QueueTypeOK, AskingAgrees, CallAgrees, MapAgrees,
    AcceptedAnswerCounts, WriteApprovals, Current, Owner, Decisions
<1>6. RecordsAreTrue'
  BY IdFacts DEF QueueInv, QueueTypeOK, RecordsAreTrue, SavesAreTrue, TrueRecords,
    WriteApprovals, Decisions, NoRecords, OpenedFile, WholeFile, GarbledFile, WrittenOver, NoSave
<1>7. SavesAreTrue'
  BY IdFacts DEF QueueInv, QueueTypeOK, RecordsAreTrue, SavesAreTrue, TrueRecords,
    WriteApprovals, Decisions, NoRecords, OpenedFile, WholeFile, GarbledFile, WrittenOver, NoSave
<1> QED
  BY <1>1, <1>2, <1>3, <1>4, <1>5, <1>6, <1>7 DEF QueueInv

\* A crash ends every wait that had no outcome and decides nothing.
LEMMA CrashKeeps == ASSUME QueueInv, Crash PROVE QueueInv'
<1>1. QueueTypeOK'
  <2>1. save' \in [Ids -> Saves] /\ outcome' \in [Ids -> Outcomes]
    BY ValueTypes DEF QueueInv, QueueTypeOK, Crash
  <2>2. crashes' \in 0..MaxCrashes
    BY ApprovalsAssumption DEF QueueInv, QueueTypeOK, Crash
  <2> QED
    BY <2>1, <2>2 DEF QueueInv, QueueTypeOK, Crash, CallStates
<1>2. AskingAgrees'
  BY IdFacts DEF QueueInv, QueueTypeOK, AskingAgrees, CallAgrees, MapAgrees, Crash, Current,
    Owner, Decisions
<1>3. CallAgrees'
  BY IdFacts DEF QueueInv, QueueTypeOK, AskingAgrees, CallAgrees, MapAgrees, Crash, Current,
    Owner, Decisions
<1>4. MapAgrees'
  BY IdFacts DEF QueueInv, QueueTypeOK, MapAgrees, CallAgrees, Crash, Current, Owner
<1>5. AcceptedAnswerCounts'
  BY IdFacts DEF QueueInv, QueueTypeOK, AskingAgrees, CallAgrees, MapAgrees,
    AcceptedAnswerCounts, Crash, Current, Owner, Decisions
<1>6. RecordsAreTrue'
  BY IdFacts DEF QueueInv, QueueTypeOK, AskingAgrees, CallAgrees, MapAgrees, RecordsAreTrue,
    SavesAreTrue, TrueRecords, Crash, Current, Decisions
<1>7. SavesAreTrue'
  BY IdFacts DEF QueueInv, QueueTypeOK, AskingAgrees, CallAgrees, MapAgrees, RecordsAreTrue,
    SavesAreTrue, TrueRecords, Crash, Current, Decisions, StartSave, NoSave, NoRecords
<1> QED
  BY <1>1, <1>2, <1>3, <1>4, <1>5, <1>6, <1>7 DEF QueueInv

\* The queue, the runs that wait and the records agree in every reachable
\* state, for any number of runs, approvals and crashes.
THEOREM QueueInvariance == QueueSpec => []QueueInv
<1>1. QueueInv /\ [QueueNext]_queueVars => QueueInv'
  <2> SUFFICES ASSUME QueueInv, [QueueNext]_queueVars PROVE QueueInv'
    OBVIOUS
  <2>1. CASE \E r \in Runs : ResolvePermission(r) \/ EndRun(r) \/ ResumeRun(r) \/ Abort(r)
    BY <2>1, AskKeeps, EndRunKeeps, ResumeRunKeeps, AbortKeeps
  <2>2. CASE \E id \in Ids : CallStep(id)
    BY <2>2, ReadApprovalsKeeps, OpenApprovalsKeeps, WriteApprovalsKeeps, RegisterKeeps
    DEF CallStep, SaveStep
  <2>3. CASE \E id \in Ids : HandleApprovalRoute(id)
    BY <2>3, AnswerKeeps DEF HandleApprovalRoute
  <2>4. CASE \E id \in Ids : AnnouncingFails(id) \/ SaveFails(id)
    BY <2>4, AnnouncingFailsKeeps, SaveFailsKeeps
  <2>5. CASE Crash
    BY <2>5, CrashKeeps
  <2>6. CASE UNCHANGED queueVars
    BY <2>6 DEF queueVars, QueueInv, QueueTypeOK, AskingAgrees, CallAgrees, MapAgrees, Current,
      AcceptedAnswerCounts, RecordsAreTrue, SavesAreTrue, TrueRecords
  <2> QED
    BY <2>1, <2>2, <2>3, <2>4, <2>5, <2>6 DEF QueueNext
<1> QED
  BY <1>1, QueueStarts, PTL DEF QueueSpec

\* Every variable of the approval queue has its type.
THEOREM QueueTypeCorrect == QueueSpec => []QueueTypeOK
<1>1. QueueInv => QueueTypeOK
  BY DEF QueueInv
<1> QED
  BY <1>1, QueueInvariance, PTL

\* Whatever aborts, failing saves, failing listeners, answers and crashes do:
\* a run that waits has a call that is on its way to the map or in it, and what
\* is in the map is what a run waits for (createPrompter, cancelApproval).
THEOREM AskingServed == QueueSpec => []AskingRunIsServed
<1>1. QueueInv => AskingRunIsServed
  <2> SUFFICES ASSUME QueueInv PROVE AskingRunIsServed
    OBVIOUS
  <2>1. \A r \in Runs : run[r] = "asking" =>
          call[Current(r)] \in {"saving", "announcing", "waiting"}
    BY DEF QueueInv, AskingAgrees
  <2>2. \A id \in Ids : id \in pending <=> call[id] = "waiting"
    BY DEF QueueInv, MapAgrees
  <2>3. \A id \in pending : run[Owner(id)] = "asking" /\ id = Current(Owner(id))
    BY DEF QueueInv, QueueTypeOK, MapAgrees, CallAgrees
  <2> QED
    BY <2>1, <2>2, <2>3 DEF AskingRunIsServed
<1> QED
  BY <1>1, QueueInvariance, PTL

\* A client who was told that his decision was accepted decided (resolveApproval).
THEOREM AnswersCount == QueueSpec => []AcceptedAnswerCounts
<1>1. QueueInv => AcceptedAnswerCounts
  BY DEF QueueInv
<1> QED
  BY <1>1, QueueInvariance, PTL

\* However saves of approvals.json overlap, it shows no decision the run did
\* not get (saveApproval).
THEOREM RecordsTrue == QueueSpec => []RecordsAreTrue
<1>1. QueueInv => RecordsAreTrue
  BY DEF QueueInv
<1> QED
  BY <1>1, QueueInvariance, PTL

\* No approval is granted to a run after its abort (waitWithAbortSignal and
\* the abort listener of the queue).
THEOREM AbortedRunsGetNothing == QueueSpec => NoGrantAfterAbort
<1>1. QueueInv /\ [QueueNext]_queueVars =>
        \A id \in Ids : aborted[Owner(id)] /\ outcome'[id] = "approved" =>
          outcome[id] = "approved"
  <2> SUFFICES ASSUME QueueInv, [QueueNext]_queueVars, NEW id \in Ids, aborted[Owner(id)],
                      outcome'[id] = "approved", outcome[id] # "approved"
               PROVE  FALSE
    OBVIOUS
  <2>0. \A i \in Ids, how \in Outcomes :
          WaitEnds(i, how) /\ how # "approved" => outcome'[id] # "approved"
    BY DEF QueueInv, QueueTypeOK, WaitEnds
  <2>1. ASSUME NEW i \in Ids, NEW d \in Decisions, NEW s \in BOOLEAN, ResolveApproval(i, d, s)
        PROVE  FALSE
    <3>1. run[Owner(i)] = "asking" /\ Owner(i) \in Runs
      BY <2>1, IdFacts DEF ResolveApproval, QueueInv, MapAgrees, CallAgrees, Owner
    <3>2. ~aborted[Owner(i)]
      BY <3>1 DEF QueueInv, AskingAgrees
    <3>3. i # id
      BY <3>2
    <3> QED
      BY <2>1, <3>3 DEF ResolveApproval, WaitEnds, QueueInv, QueueTypeOK
  <2>2. ASSUME NEW r \in Runs, ResolvePermission(r) PROVE FALSE
    <3>1. <<r, calls[r] + 1>> \in Ids
      BY <2>2, IdFacts, ApprovalsAssumption DEF ResolvePermission, MayAsk, QueueInv, QueueTypeOK
    <3> QED
      BY <2>2, <2>0, <3>1 DEF ResolvePermission, Outcomes
  <2>3. ASSUME NEW r \in Runs, Abort(r) PROVE FALSE
    BY <2>3, <2>0 DEF Abort, Outcomes, QueueInv, AskingAgrees
  <2>4. ASSUME NEW i \in Ids, AnnouncingFails(i) \/ SaveFails(i) PROVE FALSE
    BY <2>4, <2>0 DEF AnnouncingFails, SaveFails, Outcomes
  <2>5. ASSUME Crash PROVE FALSE
    BY <2>5 DEF Crash
  <2>6. ASSUME NEW r \in Runs, EndRun(r) \/ ResumeRun(r) PROVE FALSE
    BY <2>6 DEF EndRun, ResumeRun
  <2>7. ASSUME NEW i \in Ids, CallStep(i) PROVE FALSE
    BY <2>7 DEF CallStep, SaveStep, ReadApprovals, OpenApprovals, WriteApprovals, Register
  <2>8. ASSUME UNCHANGED queueVars PROVE FALSE
    BY <2>8 DEF queueVars
  <2> QED
    BY <2>1, <2>2, <2>3, <2>4, <2>5, <2>6, <2>7, <2>8 DEF QueueNext, HandleApprovalRoute
<1> QED
  BY <1>1, QueueInvariance, PTL DEF QueueSpec, NoGrantAfterAbort
=============================================================================

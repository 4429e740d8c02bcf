------------------------- MODULE Conversation_proof -------------------------
(***************************************************************************)
(* Proofs about what a session says and remembers.                         *)
(*   Transcript: what the logs of the runs hold, and that what is rebuilt  *)
(*   from them is in order.                                                *)
(*   ModelCalls: what is sent to the model is well formed, and what is     *)
(*   streamed back is put together as it was meant.                        *)
(* Both fold over sequences, and share the lemmas about folds.             *)
(***************************************************************************)
EXTENDS Transcript, ModelCalls, FiniteSetTheorems, WellFoundedInduction, TLAPS

-----------------------------------------------------------------------------
(* Transcript.  The inductive invariant.                                   *)

\* Every event but the announcement of a call and the note of a revert
\* carries a message.
Carries(e) == e.kind \in ConversationKinds \ {"tool.call"}
Carried(es) == {es[i].message.id : i \in {i \in DOMAIN es : Carries(es[i])}}

\* An event of a run that said these messages.
Tells(e, ids) ==
  /\ e \in Events
  /\ Carries(e) => e.message.id \in ids
  /\ e.kind = "tool.call" => e.message.call \in Calls
Telling(es, ids) == \A i \in DOMAIN es : Tells(es[i], ids)

\* The messages of a list of events are in the order of saying, and the
\* events of a run are numbered by their places.
InOrder(es) ==
  \A i, j \in DOMAIN es :
    i < j /\ Carries(es[i]) /\ Carries(es[j]) => es[i].message.id < es[j].message.id
Numbered(es) == \A i \in DOMAIN es : es[i].kind \in ConversationKinds => es[i].seq = i

NoHoles(es, ids) == \A a \in ids, b \in Carried(es) : a < b => a \in Carried(es)

\* The file of a run: the beginning of what it said.
Beginning(es, ids) ==
  /\ es \in Seq(Events)
  /\ Telling(es, ids) /\ InOrder(es) /\ Numbered(es) /\ NoHoles(es, ids)
LogsRight == \A r \in Runs : Beginning(log[r].lines, said[r])

\* The file and the queue of the run that goes on are all it said, unless
\* a failed write ends it.
Stream == log[run].lines \o pending
StreamRight ==
  /\ at = "down" => pending = <<>>
  /\ at # "down" =>
       /\ run \in Runs
       /\ Telling(Stream, said[run]) /\ InOrder(Stream) /\ Numbered(Stream)
       /\ \A i \in DOMAIN Stream : Stream[i].kind \in ConversationKinds
       /\ said[run] = Carried(Stream) \/ (at = "closing" /\ pending = <<>>)

\* Runs follow one another.
SaidRight ==
  /\ \A r \in Runs : said[r] \subseteq 1 .. last
  /\ \A r \in Runs : r > run => said[r] = {} /\ log[r].lines = <<>>
  /\ \A r, q \in Runs : r < q => \A a \in said[r], b \in said[q] : a < b
IndexRight ==
  /\ \A i \in DOMAIN RunIds : RunIds[i] <= run /\ (at = "restored" => RunIds[i] < run)
  /\ \A i, j \in DOMAIN RunIds : i < j => RunIds[i] < RunIds[j]

Sorted(ms) ==
  \A i, j \in DOMAIN ms :
    i < j /\ ms[i].id # 0 /\ ms[j].id # 0 => ms[i].id < ms[j].id
WindowRight == Sorted(messages) /\ Ids(messages) \subseteq 1 .. last

TodoRight == at \in {"tools", "call"} => todo # <<>>

IInv ==
  /\ TypeOK /\ LogsRight /\ StreamRight /\ SaidRight /\ IndexRight
  /\ WindowRight /\ TodoRight
-----------------------------------------------------------------------------
(* Folds.  Induction on numbers is the least element of a well-founded     *)
(* order; a fold is a function on the sets of places of a sequence.        *)

Smaller == {pair \in Nat \X Nat : pair[1] < pair[2]}

\* A set of numbers has a least one.
LEMMA SmallerWellFounded == IsWellFoundedOn(Smaller, Nat)
<1>1. OpToRel(<, Nat) = Smaller
  BY Zenon DEF OpToRel, Smaller
<1> QED
  BY <1>1, NatLessThanWellFounded, Zenon

\* What holds at 0 and is handed on holds up to n.
LEMMA Reaches ==
  ASSUME NEW n \in Nat, NEW G, 0 \in G, \A k \in 1..n : k - 1 \in G => k \in G
  PROVE  n \in G
<1> SUFFICES ASSUME n \notin G PROVE FALSE
  OBVIOUS
<1> DEFINE T == {k \in 0..n : k \notin G}
<1>1. T \subseteq Nat /\ T # {}
  OBVIOUS
<1>2. PICK m \in T : \A k \in T : ~ (<<k, m>> \in Smaller)
  <2> HIDE DEF T
  <2> QED
    BY <1>1, SmallerWellFounded, WFMin, Zenon
<1>3. ASSUME NEW k \in T PROVE ~(k < m)
  <2>1. <<k, m>> \in Nat \X Nat /\ ~ (<<k, m>> \in Smaller)
    BY <1>2
  <2>2. <<k, m>>[1] = k /\ <<k, m>>[2] = m
    OBVIOUS
  <2> QED
    BY <2>1, <2>2 DEF Smaller
<1>4. m \in 1..n /\ m - 1 \notin T /\ m - 1 \in 0..n
  BY <1>3
<1> QED
  BY <1>4

\* The largest number up to n is n.
LEMMA Largest ==
  ASSUME NEW n \in Nat, NEW s \in SUBSET (1..n), n \in s
  PROVE  Max(s) = n
<1>1. \A y \in s : n >= y /\ y \in Int
  OBVIOUS
<1>2. Max(s) \in s /\ \A y \in s : Max(s) >= y
  BY <1>1, Zenon DEF Max
<1>3. Max(s) \in Int /\ Max(s) >= n /\ n >= Max(s)
  BY <1>1, <1>2
<1> QED
  BY <1>3

\* A set of numbers up to n has a largest one.
LEMMA HasLargest ==
  ASSUME NEW n \in Nat, NEW s \in SUBSET (1..n), s # {}
  PROVE  Max(s) \in s
<1> DEFINE Good(k) == \A t \in SUBSET (1..k) : t # {} => Max(t) \in t
           G == {k \in 0..n : Good(k)}
<1>1. Good(0)
  <2>1. ASSUME NEW t \in SUBSET (1..0) PROVE t = {}
    OBVIOUS
  <2> QED
    BY <2>1
<1>2. ASSUME NEW k \in 1..n, Good(k - 1) PROVE Good(k)
  <2>1. ASSUME NEW t \in SUBSET (1..k), t # {} PROVE Max(t) \in t
    <3>1. CASE k \in t
      BY <3>1, Largest
    <3>2. CASE k \notin t
      <4>1. t \in SUBSET (1..k-1)
        BY <3>2
      <4> QED
        BY <1>2, <2>1, <4>1
    <3> QED
      BY <3>1, <3>2
  <2> QED
    BY <2>1
<1>3. Good(n)
  <2> HIDE DEF Good
  <2>1. 0 \in G /\ \A k \in 1..n : k - 1 \in G => k \in G
    BY <1>1, <1>2
  <2>2. n \in G
    <3> HIDE DEF G
    <3> QED
      BY <2>1, Reaches
  <2> QED
    BY <2>2
<1> QED
  BY <1>3

\* The function that folds, and the values it goes through from left to right.
Folds(g, n, U, base, step) ==
  /\ g \in [SUBSET (1..n) -> U]
  /\ \A s \in SUBSET (1..n) : g[s] = IF s = {} THEN base ELSE step[Max(s)][g[s \ {Max(s)}]]
Passes(c, n, U, base, step) ==
  /\ c \in [0..n -> U] /\ c[0] = base
  /\ \A k \in 1..n : c[k] = step[k][c[k-1]]
FoldsWithin(h, n, U, base, step) ==
  /\ h[{}] = base
  /\ \A s \in SUBSET (1..n) : s # {} /\ h[s \ {Max(s)}] \in U =>
       h[s] = step[Max(s)][h[s \ {Max(s)}]]

\* There is a function that folds, by induction on the length.
LEMMA FoldExists ==
  ASSUME NEW n \in Nat, NEW U, NEW base \in U, NEW step \in [1..n -> [U -> U]]
  PROVE  \E g : Folds(g, n, U, base, step)
<1> DEFINE G == {k \in 0..n : \E g : Folds(g, k, U, base, step)}
<1>1. 0 \in G
  <2>1. Folds([s \in SUBSET (1..0) |-> base], 0, U, base, step)
    <3>1. ASSUME NEW s \in SUBSET (1..0) PROVE s = {}
      OBVIOUS
    <3> QED
      BY <3>1 DEF Folds
  <2> QED
    BY <2>1
<1>2. ASSUME NEW k \in 1..n, k - 1 \in G PROVE k \in G
  <2>1. PICK g : Folds(g, k - 1, U, base, step)
    BY <1>2
  <2>a. /\ g \in [SUBSET (1..k-1) -> U]
        /\ \A s \in SUBSET (1..k-1) :
             g[s] = IF s = {} THEN base ELSE step[Max(s)][g[s \ {Max(s)}]]
    BY <2>1 DEF Folds
  <2> DEFINE h == [s \in SUBSET (1..k) |-> IF k \in s THEN step[k][g[s \ {k}]] ELSE g[s]]
  <2>2. ASSUME NEW s \in SUBSET (1..k)
        PROVE  /\ s \ {k} \in SUBSET (1..k-1) /\ k \notin s => s \in SUBSET (1..k-1)
               /\ s \ {Max(s)} \in SUBSET (1..k)
    OBVIOUS
  <2>3. h \in [SUBSET (1..k) -> U]
    <3>1. ASSUME NEW s \in SUBSET (1..k) PROVE h[s] \in U
      <4>1. step[k] \in [U -> U]
        OBVIOUS
      <4> QED
        BY <2>a, <2>2, <4>1
    <3> QED
      BY <3>1
  <2>4. ASSUME NEW s \in SUBSET (1..k), s # {} PROVE h[s] = step[Max(s)][h[s \ {Max(s)}]]
    <3>1. CASE k \in s
      <4>1. Max(s) = k
        BY <3>1, Largest
      <4>2. h[s] = step[k][g[s \ {k}]] /\ h[s \ {k}] = g[s \ {k}]
        BY <2>2, <3>1
      <4> QED
        BY <4>1, <4>2
    <3>2. CASE k \notin s
      <4>1. h[s] = g[s] /\ s \in SUBSET (1..k-1)
        BY <2>2, <3>2
      <4>2. g[s] = step[Max(s)][g[s \ {Max(s)}]]
        BY <2>a, <2>4, <4>1
      <4>3. h[s \ {Max(s)}] = g[s \ {Max(s)}]
        BY <2>2, <3>2
      <4> QED
        BY <4>1, <4>2, <4>3
    <3> QED
      BY <3>1, <3>2
  <2>5. h[{}] = base
    <3>1. {} \in SUBSET (1..k) /\ {} \in SUBSET (1..k-1)
      OBVIOUS
    <3> QED
      BY <2>a, <3>1
  <2>6. Folds(h, k, U, base, step)
    <3> HIDE DEF h
    <3> QED
      BY <2>3, <2>4, <2>5 DEF Folds
  <2> QED
    BY <2>6
<1>3. n \in G
  <2> HIDE DEF G
  <2> QED
    BY <1>1, <1>2, Reaches
<1> QED
  BY <1>3

Steps(step, n, U) == step \in [1..n -> [U -> U]]
Passed(h, n, U, base, step) == \E c : Passes(c, n, U, base, step) /\ c[n] = h[1..n]

\* A function that folds this way, as far as that stays within U, goes through such values.
LEMMA FoldPasses ==
  ASSUME NEW n \in Nat, NEW U, NEW base \in U, NEW step, Steps(step, n, U),
         NEW h, FoldsWithin(h, n, U, base, step)
  PROVE  Passed(h, n, U, base, step)
<1>0. step \in [1..n -> [U -> U]]
  BY DEF Steps
<1> DEFINE G == {k \in 0..n : h[1..k] \in U}
<1>1. ASSUME NEW k \in 1..n
      PROVE  1..k # {} /\ Max(1..k) = k /\ 1..k \ {k} = 1..k-1 /\ 1..k \in SUBSET (1..n)
  <2>1. k \in Nat /\ 1..k \in SUBSET (1..k) /\ k \in 1..k
    OBVIOUS
  <2>2. Max(1..k) = k
    BY <2>1, Largest
  <2>3. 1..k # {} /\ 1..k \ {k} = 1..k-1 /\ 1..k \in SUBSET (1..n)
    OBVIOUS
  <2> QED
    BY <2>2, <2>3
<1>2. ASSUME NEW k \in 1..n, h[1..k-1] \in U
      PROVE  h[1..k] = step[k][h[1..k-1]] /\ h[1..k] \in U
  <2>1. PICK s \in SUBSET (1..n) : s = 1..k
    BY <1>1
  <2>2. s # {} /\ Max(s) = k /\ s \ {Max(s)} = 1..k-1
    BY <1>1, <2>1
  <2>3. h[s] = step[Max(s)][h[s \ {Max(s)}]]
    BY <1>2, <2>2 DEF FoldsWithin
  <2>4. step[k] \in [U -> U]
    BY <1>0
  <2> QED
    BY <1>2, <2>1, <2>2, <2>3, <2>4
<1>3. h[1..0] = base
  <2>1. 1..0 = {}
    OBVIOUS
  <2>2. h[{}] = base
    BY DEF FoldsWithin
  <2> QED
    BY <2>1, <2>2
<1>4. 0 \in G /\ \A k \in 1..n : k - 1 \in G => k \in G
  BY <1>2, <1>3
<1>5. \A k \in 0..n : k \in G
  <2>1. ASSUME NEW m \in 0..n PROVE m \in G
    <3>1. m \in Nat /\ \A k \in 1..m : k \in 1..n
      OBVIOUS
    <3> HIDE DEF G
    <3> QED
      BY <1>4, <3>1, Reaches
  <2> QED
    BY <2>1
<1> DEFINE c == [k \in 0..n |-> h[1..k]]
<1>6. c \in [0..n -> U] /\ c[0] = base /\ c[n] = h[1..n]
  BY <1>3, <1>5
<1>7. \A k \in 1..n : c[k] = step[k][c[k-1]]
  BY <1>2, <1>5
<1> QED
  BY <1>6, <1>7 DEF Passes, Passed


-----------------------------------------------------------------------------
(* The folds of Transcript, element by element, each within a set its      *)
(* steps do not leave.                                                     *)

ConversationClosed(seq, n, U) == \A k \in 1..n : \A x \in U : WithEvent(x, seq[k]) \in U
ConversationPasses(seq, n, U, c) ==
  c \in [0..n -> U] /\ \A k \in 1..n : c[k] = WithEvent(c[k-1], seq[k])

\* The events of a run are taken one after the other,
LEMMA ConversationRuns ==
  ASSUME NEW seq, NEW n \in Nat, DOMAIN seq = 1..n,
         NEW U, <<>> \in U, ConversationClosed(seq, n, U)
  PROVE  \E c : ConversationPasses(seq, n, U, c) /\ c[0] = <<>> /\ c[n] = Conversation(seq)
<1> DEFINE Op(x, y) == WithEvent(x, y)
           step == [k \in 1..n |-> [x \in U |-> Op(x, seq[k])]]
           h == CHOOSE g : g = [s \in SUBSET (1..n) |->
                  IF s = {} THEN <<>> ELSE Op(g[s \ {Max(s)}], seq[Max(s)])]
<1>1. Conversation(seq) = h[1..n]
  BY DEF Conversation, FoldLeft, MapThenFoldSet
<1>2. \A k \in 1..n : \A x \in U : Op(x, seq[k]) \in U
  BY DEF ConversationClosed
<1> HIDE DEF Op
<1>3. step \in [1..n -> [U -> U]]
  BY <1>2
<1>4. PICK g : Folds(g, n, U, <<>>, step)
  <2> HIDE DEF step
  <2> QED
    BY <1>3, FoldExists
<1>5. ASSUME NEW s \in SUBSET (1..n), s # {}
      PROVE  Max(s) \in 1..n /\ s \ {Max(s)} \in SUBSET (1..n)
  BY <1>5, HasLargest
<1>6. g = [s \in SUBSET (1..n) |-> IF s = {} THEN <<>> ELSE Op(g[s \ {Max(s)}], seq[Max(s)])]
  BY <1>4, <1>5 DEF Folds
<1>7. h = [s \in SUBSET (1..n) |-> IF s = {} THEN <<>> ELSE Op(h[s \ {Max(s)}], seq[Max(s)])]
  BY <1>6
<1> HIDE DEF h
<1>8. FoldsWithin(h, n, U, <<>>, step)
  BY <1>5, <1>7 DEF FoldsWithin
<1>9. PICK c : Passes(c, n, U, <<>>, step) /\ c[n] = h[1..n]
  <2>1. Steps(step, n, U)
    BY <1>3 DEF Steps
  <2> HIDE DEF step
  <2>2. Passed(h, n, U, <<>>, step)
    BY <1>8, <2>1, FoldPasses
  <2> QED
    BY <2>2 DEF Passed
<1>10. c \in [0..n -> U] /\ c[0] = <<>> /\ \A k \in 1..n : c[k] = step[k][c[k-1]]
  BY <1>9 DEF Passes
<1>11. \A k \in 1..n : c[k-1] \in U /\ step[k][c[k-1]] = Op(c[k-1], seq[k])
  BY <1>10
<1>12. \A k \in 1..n : c[k] = Op(c[k-1], seq[k])
  BY <1>10, <1>11
<1> QED
  BY <1>1, <1>9, <1>10, <1>12 DEF Op, ConversationPasses

LoadClosed(seq, n, U) == \A k \in 1..n : \A x \in U : WithRun(x, seq[k]) \in U
LoadPasses(seq, n, U, c) ==
  c \in [0..n -> U] /\ \A k \in 1..n : c[k] = WithRun(c[k-1], seq[k])

\* the runs of a session too,
LEMMA LoadRuns ==
  ASSUME NEW seq, NEW n \in Nat, DOMAIN seq = 1..n,
         NEW U, <<>> \in U, LoadClosed(seq, n, U)
  PROVE  \E c : LoadPasses(seq, n, U, c) /\ c[0] = <<>> /\ c[n] = FoldLeft(WithRun, <<>>, seq)
<1> DEFINE Op(x, y) == WithRun(x, y)
           step == [k \in 1..n |-> [x \in U |-> Op(x, seq[k])]]
           h == CHOOSE g : g = [s \in SUBSET (1..n) |->
                  IF s = {} THEN <<>> ELSE Op(g[s \ {Max(s)}], seq[Max(s)])]
<1>1. FoldLeft(WithRun, <<>>, seq) = h[1..n]
  BY DEF  FoldLeft, MapThenFoldSet
<1>2. \A k \in 1..n : \A x \in U : Op(x, seq[k]) \in U
  BY DEF LoadClosed
<1> HIDE DEF Op
<1>3. step \in [1..n -> [U -> U]]
  BY <1>2
<1>4. PICK g : Folds(g, n, U, <<>>, step)
  <2> HIDE DEF step
  <2> QED
    BY <1>3, FoldExists
<1>5. ASSUME NEW s \in SUBSET (1..n), s # {}
      PROVE  Max(s) \in 1..n /\ s \ {Max(s)} \in SUBSET (1..n)
  BY <1>5, HasLargest
<1>6. g = [s \in SUBSET (1..n) |-> IF s = {} THEN <<>> ELSE Op(g[s \ {Max(s)}], seq[Max(s)])]
  BY <1>4, <1>5 DEF Folds
<1>7. h = [s \in SUBSET (1..n) |-> IF s = {} THEN <<>> ELSE Op(h[s \ {Max(s)}], seq[Max(s)])]
  BY <1>6
<1> HIDE DEF h
<1>8. FoldsWithin(h, n, U, <<>>, step)
  BY <1>5, <1>7 DEF FoldsWithin
<1>9. PICK c : Passes(c, n, U, <<>>, step) /\ c[n] = h[1..n]
  <2>1. Steps(step, n, U)
    BY <1>3 DEF Steps
  <2> HIDE DEF step
  <2>2. Passed(h, n, U, <<>>, step)
    BY <1>8, <2>1, FoldPasses
  <2> QED
    BY <2>2 DEF Passed
<1>10. c \in [0..n -> U] /\ c[0] = <<>> /\ \A k \in 1..n : c[k] = step[k][c[k-1]]
  BY <1>9 DEF Passes
<1>11. \A k \in 1..n : c[k-1] \in U /\ step[k][c[k-1]] = Op(c[k-1], seq[k])
  BY <1>10
<1>12. \A k \in 1..n : c[k] = Op(c[k-1], seq[k])
  BY <1>10, <1>11
<1> QED
  BY <1>1, <1>9, <1>10, <1>12 DEF Op, LoadPasses

RebuildClosed(seq, n, U) == \A k \in 1..n : \A x \in U : WithMessage(x, seq[k]) \in U
RebuildPasses(seq, n, U, c) ==
  c \in [0..n -> U] /\ \A k \in 1..n : c[k] = WithMessage(c[k-1], seq[k])

\* and so are the events a window is rebuilt from.
LEMMA RebuildRuns ==
  ASSUME NEW seq, NEW n \in Nat, DOMAIN seq = 1..n,
         NEW U, <<>> \in U, RebuildClosed(seq, n, U)
  PROVE  \E c : RebuildPasses(seq, n, U, c) /\ c[0] = <<>> /\ c[n] = Rebuild(seq)
<1> DEFINE Op(x, y) == WithMessage(x, y)
           step == [k \in 1..n |-> [x \in U |-> Op(x, seq[k])]]
           h == CHOOSE g : g = [s \in SUBSET (1..n) |->
                  IF s = {} THEN <<>> ELSE Op(g[s \ {Max(s)}], seq[Max(s)])]
<1>1. Rebuild(seq) = h[1..n]
  BY DEF Rebuild, FoldLeft, MapThenFoldSet
<1>2. \A k \in 1..n : \A x \in U : Op(x, seq[k]) \in U
  BY DEF RebuildClosed
<1> HIDE DEF Op
<1>3. step \in [1..n -> [U -> U]]
  BY <1>2
<1>4. PICK g : Folds(g, n, U, <<>>, step)
  <2> HIDE DEF step
  <2> QED
    BY <1>3, FoldExists
<1>5. ASSUME NEW s \in SUBSET (1..n), s # {}
      PROVE  Max(s) \in 1..n /\ s \ {Max(s)} \in SUBSET (1..n)
  BY <1>5, HasLargest
<1>6. g = [s \in SUBSET (1..n) |-> IF s = {} THEN <<>> ELSE Op(g[s \ {Max(s)}], seq[Max(s)])]
  BY <1>4, <1>5 DEF Folds
<1>7. h = [s \in SUBSET (1..n) |-> IF s = {} THEN <<>> ELSE Op(h[s \ {Max(s)}], seq[Max(s)])]
  BY <1>6
<1> HIDE DEF h
<1>8. FoldsWithin(h, n, U, <<>>, step)
  BY <1>5, <1>7 DEF FoldsWithin
<1>9. PICK c : Passes(c, n, U, <<>>, step) /\ c[n] = h[1..n]
  <2>1. Steps(step, n, U)
    BY <1>3 DEF Steps
  <2> HIDE DEF step
  <2>2. Passed(h, n, U, <<>>, step)
    BY <1>8, <2>1, FoldPasses
  <2> QED
    BY <2>2 DEF Passed
<1>10. c \in [0..n -> U] /\ c[0] = <<>> /\ \A k \in 1..n : c[k] = step[k][c[k-1]]
  BY <1>9 DEF Passes
<1>11. \A k \in 1..n : c[k-1] \in U /\ step[k][c[k-1]] = Op(c[k-1], seq[k])
  BY <1>10
<1>12. \A k \in 1..n : c[k] = Op(c[k-1], seq[k])
  BY <1>10, <1>11
<1> QED
  BY <1>1, <1>9, <1>10, <1>12 DEF Op, RebuildPasses

-----------------------------------------------------------------------------
(* The events of one run: those of other kinds are left out and the rest   *)
(* stays as it was written.                                                *)

\* An event that is no earlier than the others goes to the end.
LEMMA LateEvent ==
  ASSUME NEW es \in Seq(Events), NEW e \in Events, e.kind \in ConversationKinds,
         \A i \in DOMAIN es : es[i].seq <= e.seq
  PROVE  WithEvent(es, e) = Append(es, e)
<1>1. {i \in DOMAIN es : es[i].seq <= e.seq} = 1 .. Len(es)
  OBVIOUS
<1>2. Cardinality(1 .. Len(es)) = Len(es)
  <2>1. Len(es) \in Nat /\ Len(es) \in Int /\ 1 \in Int
    OBVIOUS
  <2>2. Cardinality(1 .. Len(es)) = IF 1 > Len(es) THEN 0 ELSE Len(es) - 1 + 1
    BY <2>1, FS_Interval
  <2> QED
    BY <2>1, <2>2
<1>3. WithEvent(es, e) = InsertAt(es, 1 + Len(es), e)
  BY <1>1, <1>2 DEF WithEvent
<1>4. InsertAt(es, 1 + Len(es), e) = SubSeq(es, 1, Len(es)) \o <<e>> \o SubSeq(es, 1 + Len(es), Len(es))
  BY DEF InsertAt
<1>5. SubSeq(es, 1, Len(es)) = es /\ SubSeq(es, 1 + Len(es), Len(es)) = <<>>
  OBVIOUS
<1>6. es \o <<e>> \o <<>> = Append(es, e)
  OBVIOUS
<1> QED
  BY <1>3, <1>4, <1>5, <1>6

\* Wherever it goes, there is a list of events again.
LEMMA EventTaken ==
  ASSUME NEW es \in Seq(Events), NEW e \in Events
  PROVE  WithEvent(es, e) \in Seq(Events)
<1> DEFINE earlier == {i \in DOMAIN es : es[i].seq <= e.seq}
<1>1. IsFiniteSet(1 .. Len(es)) /\ Cardinality(1 .. Len(es)) = Len(es)
  <2>1. Len(es) \in Nat /\ Len(es) \in Int /\ 1 \in Int
    OBVIOUS
  <2>2. Cardinality(1 .. Len(es)) = IF 1 > Len(es) THEN 0 ELSE Len(es) - 1 + 1
    BY <2>1, FS_Interval
  <2> QED
    BY <2>1, <2>2, FS_Interval
<1>2. earlier \in SUBSET (1 .. Len(es))
  OBVIOUS
<1>3. IsFiniteSet(earlier) /\ Cardinality(earlier) <= Len(es)
  <2> HIDE DEF earlier
  <2> QED
    BY <1>1, <1>2, FS_Subset
<1>4. Cardinality(earlier) \in Nat
  <2> HIDE DEF earlier
  <2> QED
    BY <1>3, FS_CardinalityType
<1>5. PICK n \in 0 .. Len(es) : n = Cardinality(earlier)
  <2> HIDE DEF earlier
  <2>1. Len(es) \in Nat
    OBVIOUS
  <2> QED
    BY <1>3, <1>4, <2>1
<1>6. InsertAt(es, 1 + n, e) \in Seq(Events)
  <2>1. SubSeq(es, 1, n) \in Seq(Events) /\ SubSeq(es, 1 + n, Len(es)) \in Seq(Events)
    OBVIOUS
  <2>2. 1 + n - 1 = n
    OBVIOUS
  <2> QED
    BY <2>1, <2>2 DEF InsertAt
<1> QED
  BY <1>5, <1>6 DEF WithEvent

\* What is kept of the events up to one place: some of them, in order.
KeptOf(kept, es, k) ==
  /\ \A i \in DOMAIN kept : \E j \in 1 .. k : kept[i] = es[j]
  /\ \A i \in DOMAIN kept : kept[i].seq \in 1 .. k
  /\ InOrder(kept)

\* One more event of the run,
LEMMA KeepsEvent ==
  ASSUME NEW es \in Seq(Events), Numbered(es), InOrder(es), NEW k \in DOMAIN es,
         NEW kept \in Seq(Events), KeptOf(kept, es, k - 1)
  PROVE  KeptOf(WithEvent(kept, es[k]), es, k)
<1>1. PICK e \in Events : e = es[k]
  OBVIOUS
<1>2. CASE e.kind \notin ConversationKinds
  <2>1. WithEvent(kept, e) = kept
    BY <1>2 DEF WithEvent
  <2>2. KeptOf(kept, es, k)
    BY DEF KeptOf
  <2> QED
    BY <1>1, <2>1, <2>2
<1>3. CASE e.kind \in ConversationKinds
  <2>1. e.seq = k
    BY <1>1, <1>3 DEF Numbered
  <2>2. \A i \in DOMAIN kept : kept[i].seq <= e.seq
    BY <2>1 DEF KeptOf
  <2>3. WithEvent(kept, e) = Append(kept, e)
    BY <1>3, <2>2, LateEvent
  <2> DEFINE all == Append(kept, e)
  <2>4. /\ DOMAIN all = 1 .. Len(kept) + 1 /\ all[Len(kept) + 1] = e
        /\ \A i \in 1 .. Len(kept) : all[i] = kept[i] /\ i \in DOMAIN kept
    OBVIOUS
  <2> HIDE DEF all
  <2>5. ASSUME NEW i \in DOMAIN all PROVE \E j \in 1 .. k : all[i] = es[j]
    <3>1. CASE i = Len(kept) + 1
      BY <1>1, <2>4, <3>1
    <3>2. CASE i \in 1 .. Len(kept)
      <4>1. PICK j \in 1 .. k - 1 : kept[i] = es[j]
        BY <2>4, <3>2 DEF KeptOf
      <4>2. j \in 1 .. k
        OBVIOUS
      <4> QED
        BY <2>4, <3>2, <4>1, <4>2
    <3> QED
      BY <2>4, <2>5, <3>1, <3>2
  <2>6. ASSUME NEW i \in DOMAIN all PROVE all[i].seq \in 1 .. k
    <3>1. CASE i = Len(kept) + 1
      BY <2>1, <2>4, <3>1
    <3>2. CASE i \in 1 .. Len(kept)
      BY <2>4, <3>2 DEF KeptOf
    <3> QED
      BY <2>4, <2>6, <3>1, <3>2
  <2>7. ASSUME NEW i \in DOMAIN all, NEW j \in DOMAIN all, i < j,
               Carries(all[i]), Carries(all[j])
        PROVE  all[i].message.id < all[j].message.id
    <3>1. i \in 1 .. Len(kept)
      BY <2>4, <2>7
    <3>2. CASE j \in 1 .. Len(kept)
      BY <2>4, <2>7, <3>1, <3>2 DEF KeptOf, InOrder
    <3>3. CASE j = Len(kept) + 1
      <4>1. PICK m \in 1 .. k - 1 : kept[i] = es[m]
        BY <2>4, <3>1 DEF KeptOf
      <4>2. m \in DOMAIN es /\ m < k
        OBVIOUS
      <4>3. all[i] = es[m] /\ all[j] = es[k]
        BY <1>1, <2>4, <3>1, <3>3, <4>1
      <4> QED
        BY <2>7, <4>2, <4>3 DEF InOrder
    <3> QED
      BY <2>4, <2>7, <3>2, <3>3
  <2>8. KeptOf(all, es, k)
    BY <2>5, <2>6, <2>7, Zenon DEF KeptOf, InOrder
  <2> QED
    BY <1>1, <2>3, <2>8 DEF all
<1> QED
  BY <1>2, <1>3

Conversing(conversation, es) ==
  /\ conversation \in Seq(Events) /\ InOrder(conversation)
  /\ \A i \in DOMAIN conversation : \E j \in DOMAIN es : conversation[i] = es[j]

\* and so all of them.
LEMMA ConversationIs ==
  ASSUME NEW es \in Seq(Events), Numbered(es), InOrder(es)
  PROVE  Conversing(Conversation(es), es)
<1> DEFINE n == Len(es)
<1>1. n \in Nat /\ DOMAIN es = 1 .. n
  OBVIOUS
<1>2. ConversationClosed(es, n, Seq(Events))
  <2>1. ASSUME NEW k \in 1 .. n, NEW x \in Seq(Events) PROVE WithEvent(x, es[k]) \in Seq(Events)
    <3>1. es[k] \in Events
      OBVIOUS
    <3> QED
      BY <3>1, EventTaken
  <2> QED
    BY <2>1 DEF ConversationClosed
<1>3. <<>> \in Seq(Events)
  OBVIOUS
<1>4. PICK c : /\ ConversationPasses(es, n, Seq(Events), c)
               /\ c[0] = <<>> /\ c[n] = Conversation(es)
  <2> HIDE DEF n
  <2> QED
    BY <1>1, <1>2, <1>3, ConversationRuns
<1>5. c \in [0..n -> Seq(Events)] /\ \A k \in 1..n : c[k] = WithEvent(c[k-1], es[k])
  BY <1>4 DEF ConversationPasses
<1> DEFINE G == {k \in 0..n : KeptOf(c[k], es, k)}
<1>6. 0 \in G
  <2>1. KeptOf(<<>>, es, 0)
    BY DEF KeptOf, InOrder
  <2> QED
    BY <1>1, <1>4, <2>1
<1>7. ASSUME NEW k \in 1 .. n, k - 1 \in G PROVE k \in G
  <2>1. PICK kept \in Seq(Events) : kept = c[k-1]
    BY <1>1, <1>5
  <2>2. KeptOf(kept, es, k - 1)
    BY <1>7, <2>1
  <2>3. k \in DOMAIN es
    BY <1>1
  <2>4. KeptOf(WithEvent(kept, es[k]), es, k)
    BY <2>2, <2>3, KeepsEvent
  <2> QED
    BY <1>1, <1>5, <2>1, <2>4
<1>8. n \in G
  <2> HIDE DEF G, n
  <2> QED
    BY <1>1, <1>6, <1>7, Reaches
<1>9. KeptOf(Conversation(es), es, n) /\ Conversation(es) \in Seq(Events)
  BY <1>1, <1>4, <1>5, <1>8
<1> QED
  BY <1>1, <1>9 DEF KeptOf, Conversing

-----------------------------------------------------------------------------
(* The events of a session: those of its runs, one run after the other.    *)

\* What a run's file reads as.
Readable(r) == ReadRunEvents(r) \in Seq(Events) /\ Telling(ReadRunEvents(r), said[r])
                 /\ Numbered(ReadRunEvents(r)) /\ InOrder(ReadRunEvents(r))

\* A file reads as events of its run in their order, or as none (readRunEvents).
LEMMA RunRead ==
  ASSUME LogsRight, NEW r \in Runs
  PROVE  Readable(r)
<1>1. CASE log[r].torn
  <2>1. ReadRunEvents(r) = <<>>
    BY <1>1 DEF ReadRunEvents
  <2>2. <<>> \in Seq(Events) /\ Telling(<<>>, said[r]) /\ Numbered(<<>>) /\ InOrder(<<>>)
    BY DEF Telling, Numbered, InOrder
  <2> QED
    BY <2>1, <2>2 DEF Readable
<1>2. CASE ~ log[r].torn
  <2>1. ReadRunEvents(r) = log[r].lines
    BY <1>2 DEF ReadRunEvents
  <2> QED
    BY <2>1 DEF Readable, LogsRight, Beginning
<1> QED
  BY <1>1, <1>2

OfRun(es, r) == es \in Seq(Events) /\ InOrder(es) /\ Telling(es, said[r])

\* Filtering and sorting them leaves events of the run in the order of saying.
LEMMA RunConverses ==
  ASSUME LogsRight, NEW r \in Runs
  PROVE  OfRun(Conversation(ReadRunEvents(r)), r)
<1>1. PICK es : es = ReadRunEvents(r)
  OBVIOUS
<1>2. es \in Seq(Events) /\ Telling(es, said[r]) /\ Numbered(es) /\ InOrder(es)
  BY <1>1, RunRead DEF Readable
<1>3. Conversing(Conversation(es), es)
  BY <1>2, ConversationIs
<1>4. ASSUME NEW i \in DOMAIN Conversation(es) PROVE Tells(Conversation(es)[i], said[r])
  <2>1. PICK j \in DOMAIN es : Conversation(es)[i] = es[j]
    BY <1>3 DEF Conversing
  <2> QED
    BY <1>2, <2>1 DEF Telling
<1> QED
  BY <1>1, <1>3, <1>4 DEF OfRun, Telling, Conversing

\* Joined so far: the events of the runs up to one place.
SaidBy(k) == UNION {said[RunIds[i]] : i \in 1 .. k}
Joined(es, k) == es \in Seq(Events) /\ InOrder(es) /\ Telling(es, SaidBy(k))

\* Another run's events stand behind those of the runs before it.
LEMMA JoinsRun ==
  ASSUME LogsRight, SaidRight, IndexRight, RunIds \in Seq(Runs),
         NEW k \in DOMAIN RunIds, NEW es, Joined(es, k - 1)
  PROVE  Joined(WithRun(es, RunIds[k]), k)
<1>1. PICK r \in Runs : r = RunIds[k]
  OBVIOUS
<1>2. PICK new : new = Conversation(ReadRunEvents(r))
  OBVIOUS
<1>3. new \in Seq(Events) /\ InOrder(new) /\ Telling(new, said[r])
  BY <1>2, RunConverses DEF OfRun
<1>4. es \in Seq(Events) /\ InOrder(es) /\ Telling(es, SaidBy(k - 1))
  BY DEF Joined
<1> DEFINE all == es \o new
<1>5. /\ all \in Seq(Events) /\ DOMAIN all = 1 .. Len(es) + Len(new)
      /\ \A i \in 1 .. Len(es) : all[i] = es[i]
      /\ \A i \in Len(es) + 1 .. Len(es) + Len(new) :
           all[i] = new[i - Len(es)] /\ i - Len(es) \in DOMAIN new
      /\ DOMAIN es = 1 .. Len(es) /\ Len(es) \in Nat /\ Len(new) \in Nat
  BY <1>3, <1>4
<1> HIDE DEF all
<1>6. ASSUME NEW a \in SaidBy(k - 1), NEW b \in said[r] PROVE a < b
  <2>1. PICK i \in 1 .. k - 1 : a \in said[RunIds[i]]
    BY DEF SaidBy
  <2>2. i \in DOMAIN RunIds /\ i < k /\ RunIds[i] \in Runs
    OBVIOUS
  <2>3. RunIds[i] < RunIds[k]
    BY <2>2 DEF IndexRight
  <2> QED
    BY <1>1, <2>1, <2>2, <2>3 DEF SaidRight
<1>7. SaidBy(k - 1) \subseteq SaidBy(k) /\ said[r] \subseteq SaidBy(k)
  <2>1. k \in 1 .. k /\ \A i \in 1 .. k - 1 : i \in 1 .. k
    OBVIOUS
  <2> QED
    BY <1>1, <2>1 DEF SaidBy
<1>8. ASSUME NEW i \in DOMAIN all
      PROVE  \/ i \in 1 .. Len(es) /\ Tells(all[i], SaidBy(k - 1))
             \/ i \in Len(es) + 1 .. Len(es) + Len(new) /\ Tells(all[i], said[r])
  <2>1. CASE i \in 1 .. Len(es)
    BY <1>4, <1>5, <2>1 DEF Telling
  <2>2. CASE i \in Len(es) + 1 .. Len(es) + Len(new)
    BY <1>3, <1>5, <2>2 DEF Telling
  <2> QED
    BY <1>5, <1>8, <2>1, <2>2
<1>9. Telling(all, SaidBy(k))
  BY <1>7, <1>8 DEF Telling, Tells
<1>10. ASSUME NEW i \in DOMAIN all, NEW j \in DOMAIN all, i < j,
              Carries(all[i]), Carries(all[j])
       PROVE  all[i].message.id < all[j].message.id
  <2>1. CASE i \in 1 .. Len(es) /\ j \in 1 .. Len(es)
    BY <1>4, <1>5, <1>10, <2>1 DEF InOrder
  <2>2. CASE i \in 1 .. Len(es) /\ j \in Len(es) + 1 .. Len(es) + Len(new)
    <3>1. Tells(all[i], SaidBy(k - 1)) /\ Tells(all[j], said[r])
      BY <1>5, <1>8, <2>2
    <3>2. all[i].message.id \in SaidBy(k - 1) /\ all[j].message.id \in said[r]
      BY <1>10, <3>1 DEF Tells
    <3> QED
      BY <1>6, <3>2
  <2>3. CASE i \in Len(es) + 1 .. Len(es) + Len(new) /\ j \in Len(es) + 1 .. Len(es) + Len(new)
    <3>1. PICK p \in DOMAIN new : p = i - Len(es) /\ all[i] = new[p]
      BY <1>5, <2>3
    <3>2. PICK q \in DOMAIN new : q = j - Len(es) /\ all[j] = new[q]
      BY <1>5, <2>3
    <3>3. p < q
      BY <1>5, <1>10, <2>3, <3>1, <3>2
    <3> QED
      BY <1>3, <1>10, <3>1, <3>2, <3>3 DEF InOrder
  <2> QED
    BY <1>5, <1>10, <2>1, <2>2, <2>3
<1>11. InOrder(all)
  BY <1>10, Zenon DEF InOrder
<1> QED
  BY <1>1, <1>2, <1>5, <1>9, <1>11 DEF Joined, WithRun, all

Loaded(es) == es \in Seq(Events) /\ InOrder(es) /\ Telling(es, 1 .. last)

\* All runs together tell of what was said, in the order of saying
\* (loadSessionConversationEvents).
LEMMA LoadIs ==
  ASSUME LogsRight, SaidRight, IndexRight, RunIds \in Seq(Runs)
  PROVE  Loaded(LoadConversationEvents)
<1> DEFINE n == Len(RunIds)
<1>1. n \in Nat /\ DOMAIN RunIds = 1 .. n
  OBVIOUS
<1>2. LoadClosed(RunIds, n, Seq(Events))
  <2>1. ASSUME NEW k \in 1 .. n, NEW x \in Seq(Events)
        PROVE  WithRun(x, RunIds[k]) \in Seq(Events)
    <3>1. RunIds[k] \in Runs
      OBVIOUS
    <3>2. Conversation(ReadRunEvents(RunIds[k])) \in Seq(Events)
      BY <3>1, RunConverses DEF OfRun
    <3> QED
      BY <3>2 DEF WithRun
  <2> QED
    BY <2>1 DEF LoadClosed
<1>3. <<>> \in Seq(Events)
  OBVIOUS
<1>4. PICK c : /\ LoadPasses(RunIds, n, Seq(Events), c)
               /\ c[0] = <<>> /\ c[n] = LoadConversationEvents
  <2> HIDE DEF n
  <2>1. PICK seq : seq = RunIds
    OBVIOUS
  <2>2. \E c : LoadPasses(seq, n, Seq(Events), c) /\ c[0] = <<>>
                 /\ c[n] = FoldLeft(WithRun, <<>>, seq)
    BY <1>1, <1>2, <1>3, <2>1, LoadRuns
  <2> QED
    BY <2>1, <2>2 DEF LoadConversationEvents
<1>5. c \in [0..n -> Seq(Events)] /\ \A k \in 1..n : c[k] = WithRun(c[k-1], RunIds[k])
  BY <1>4 DEF LoadPasses
<1> DEFINE G == {k \in 0..n : Joined(c[k], k)}
<1>6. 0 \in G
  <2>1. Joined(<<>>, 0)
    BY <1>3 DEF Joined, InOrder, Telling
  <2> QED
    BY <1>1, <1>4, <2>1
<1>7. ASSUME NEW k \in 1 .. n, k - 1 \in G PROVE k \in G
  <2>1. k \in DOMAIN RunIds /\ Joined(c[k-1], k - 1)
    BY <1>1, <1>7
  <2>2. Joined(WithRun(c[k-1], RunIds[k]), k)
    BY <2>1, JoinsRun
  <2> QED
    BY <1>5, <2>2
<1>8. n \in G
  <2> HIDE DEF G, n
  <2> QED
    BY <1>1, <1>6, <1>7, Reaches
<1>9. Joined(LoadConversationEvents, n)
  BY <1>4, <1>8
<1>10. SaidBy(n) \subseteq 1 .. last
  <2>1. ASSUME NEW i \in 1 .. n PROVE said[RunIds[i]] \subseteq 1 .. last
    <3>1. RunIds[i] \in Runs
      OBVIOUS
    <3> QED
      BY <3>1 DEF SaidRight
  <2> QED
    BY <2>1 DEF SaidBy
<1> QED
  BY <1>9, <1>10 DEF Joined, Loaded, Telling, Tells

-----------------------------------------------------------------------------
(* A window rebuilt from events.                                           *)

CarriedTo(es, k) == {es[i].message.id : i \in {i \in 1 .. k : Carries(es[i])}}

\* What is rebuilt from the events up to one place: their messages, in order.
RebuiltTo(ms, es, k) ==
  /\ ms \in Seq(Messages) /\ Sorted(ms)
  /\ Ids(ms) = CarriedTo(es, k) \ {0}

\* A call can be added to a window.
LEMMA CallTaken ==
  ASSUME NEW ms \in Seq(Messages), NEW call \in Calls
  PROVE  /\ WithCall(ms, call) \in Seq(Messages)
         /\ Ids(WithCall(ms, call)) = Ids(ms)
         /\ Sorted(ms) => Sorted(WithCall(ms, call))
<1>1. CASE ms # <<>> /\ Last(ms).role = "assistant"
  <2>1. Len(ms) \in DOMAIN ms /\ ms[Len(ms)] \in Messages
    BY <1>1
  <2>2. PICK m \in Messages : m = [ms[Len(ms)] EXCEPT !.calls = @ \cup {call}]
    BY <2>1 DEF Messages
  <2>3. m.id = ms[Len(ms)].id
    BY <2>1, <2>2 DEF Messages
  <2>4. WithCall(ms, call) = [ms EXCEPT ![Len(ms)] = m]
    BY <1>1, <2>1, <2>2 DEF WithCall
  <2> DEFINE all == [ms EXCEPT ![Len(ms)] = m]
  <2>5. all \in Seq(Messages) /\ DOMAIN all = DOMAIN ms
    BY <2>1
  <2>6. \A i \in DOMAIN ms : all[i].id = ms[i].id
    BY <2>1, <2>3
  <2> HIDE DEF all
  <2>7. Ids(all) = Ids(ms)
    BY <2>5, <2>6 DEF Ids
  <2>8. Sorted(ms) => Sorted(all)
    BY <2>5, <2>6 DEF Sorted
  <2> QED
    BY <2>4, <2>5, <2>7, <2>8 DEF all
<1>2. CASE ~ (ms # <<>> /\ Last(ms).role = "assistant")
  <2>1. PICK m \in Messages : m = AssistantMessage(0, {call}) /\ m.id = 0
    <3>1. 0 \in 0 .. MaxMessages /\ {call} \in SUBSET Calls
      BY TranscriptAssumption
    <3>2. PICK m \in Messages : m = AssistantMessage(0, {call})
      BY <3>1 DEF AssistantMessage, Messages, Sources
    <3>3. m.id = 0
      BY <3>2 DEF AssistantMessage
    <3> QED
      BY <3>2, <3>3
  <2>2. WithCall(ms, call) = Append(ms, m)
    BY <1>2, <2>1 DEF WithCall
  <2> DEFINE all == Append(ms, m)
  <2>3. /\ all \in Seq(Messages) /\ DOMAIN all = 1 .. Len(ms) + 1
        /\ \A i \in 1 .. Len(ms) : all[i] = ms[i] /\ i \in DOMAIN ms
        /\ all[Len(ms) + 1] = m /\ DOMAIN ms = 1 .. Len(ms) /\ Len(ms) \in Nat
    OBVIOUS
  <2> HIDE DEF all
  <2>4. Ids(all) = Ids(ms)
    <3>1. ASSUME NEW id \in Ids(all) PROVE id \in Ids(ms)
      BY <2>1, <2>3, <3>1 DEF Ids
    <3>2. ASSUME NEW id \in Ids(ms) PROVE id \in Ids(all)
      <4>1. PICK i \in DOMAIN ms : id = ms[i].id /\ id # 0
        BY <3>2 DEF Ids
      <4>2. i \in DOMAIN all /\ all[i] = ms[i]
        BY <2>3
      <4> QED
        BY <4>1, <4>2 DEF Ids
    <3> QED
      BY <3>1, <3>2
  <2>5. Sorted(ms) => Sorted(all)
    BY <2>1, <2>3 DEF Sorted
  <2> QED
    BY <2>2, <2>3, <2>4, <2>5 DEF all
<1> QED
  BY <1>1, <1>2

\* A message can be said after all others.
Follows(ms, id) == \A i \in DOMAIN ms : ms[i].id # 0 /\ id # 0 => ms[i].id < id

\* Appending a message adds its number to the window and keeps the order.
LEMMA MessageTaken ==
  ASSUME NEW ms \in Seq(Messages), NEW m \in Messages
  PROVE  /\ Append(ms, m) \in Seq(Messages)
         /\ Ids(Append(ms, m)) = Ids(ms) \cup ({m.id} \ {0})
         /\ Sorted(ms) /\ Follows(ms, m.id) => Sorted(Append(ms, m))
<1> DEFINE all == Append(ms, m)
<1>1. /\ all \in Seq(Messages) /\ DOMAIN all = 1 .. Len(ms) + 1
      /\ \A i \in 1 .. Len(ms) : all[i] = ms[i] /\ i \in DOMAIN ms
      /\ all[Len(ms) + 1] = m /\ DOMAIN ms = 1 .. Len(ms) /\ Len(ms) \in Nat
  OBVIOUS
<1> HIDE DEF all
<1>2. ASSUME NEW id \in Ids(all) PROVE id \in Ids(ms) \cup ({m.id} \ {0})
  BY <1>1, <1>2 DEF Ids
<1>3. ASSUME NEW id \in Ids(ms) PROVE id \in Ids(all)
  <2>1. PICK i \in DOMAIN ms : id = ms[i].id /\ id # 0
    BY <1>3 DEF Ids
  <2>2. i \in DOMAIN all /\ all[i] = ms[i]
    BY <1>1
  <2> QED
    BY <2>1, <2>2 DEF Ids
<1>4. m.id # 0 => m.id \in Ids(all)
  <2>1. Len(ms) + 1 \in DOMAIN all /\ all[Len(ms) + 1] = m
    BY <1>1
  <2> QED
    BY <2>1 DEF Ids
<1>5. Ids(all) = Ids(ms) \cup ({m.id} \ {0})
  BY <1>2, <1>3, <1>4
<1>6. ASSUME Sorted(ms), Follows(ms, m.id), NEW i \in DOMAIN all, NEW j \in DOMAIN all, i < j,
             all[i].id # 0, all[j].id # 0
      PROVE  all[i].id < all[j].id
  <2>1. i \in 1 .. Len(ms)
    BY <1>1, <1>6
  <2>2. CASE j \in 1 .. Len(ms)
    BY <1>1, <1>6, <2>1, <2>2 DEF Sorted
  <2>3. CASE j = Len(ms) + 1
    BY <1>1, <1>6, <2>1, <2>3 DEF Follows
  <2> QED
    BY <1>1, <1>6, <2>2, <2>3
<1>7. Sorted(ms) /\ Follows(ms, m.id) => Sorted(all)
  BY <1>6, Zenon DEF Sorted
<1> QED
  BY <1>1, <1>5, <1>7 DEF all

\* An event more adds its message to what is rebuilt, or a call to one of its responses.
LEMMA EventRebuilt ==
  ASSUME NEW es \in Seq(Events), InOrder(es), NEW k \in DOMAIN es,
         es[k].kind = "tool.call" => es[k].message.call \in Calls,
         NEW ms, RebuiltTo(ms, es, k - 1)
  PROVE  RebuiltTo(WithMessage(ms, es[k]), es, k)
<1>1. PICK e \in Events : e = es[k]
  OBVIOUS
<1>2. e.message \in Messages
  BY DEF Events
<1>3. ms \in Seq(Messages) /\ Sorted(ms) /\ Ids(ms) = CarriedTo(es, k - 1) \ {0}
  BY DEF RebuiltTo
<1>4. CarriedTo(es, k) = CarriedTo(es, k - 1) \cup (IF Carries(e) THEN {e.message.id} ELSE {})
  <2>1. 1 .. k = 1 .. k - 1 \cup {k}
    OBVIOUS
  <2> QED
    BY <1>1, <2>1 DEF CarriedTo
<1>5. CASE e.kind \notin ConversationKinds
  <2>1. WithMessage(ms, e) = ms /\ ~ Carries(e)
    BY <1>5 DEF WithMessage, Carries
  <2> QED
    BY <1>1, <1>3, <1>4, <2>1 DEF RebuiltTo
<1>6. CASE e.kind = "tool.call"
  <2>1. e.kind \in ConversationKinds /\ ~ Carries(e)
    BY <1>6 DEF ConversationKinds, Carries
  <2>2. WithMessage(ms, e) = WithCall(ms, e.message.call)
    BY <1>6, <2>1 DEF WithMessage
  <2>3. PICK call \in Calls : call = e.message.call
    BY <1>1, <1>6
  <2>4. /\ WithCall(ms, call) \in Seq(Messages)
        /\ Ids(WithCall(ms, call)) = Ids(ms)
        /\ Sorted(ms) => Sorted(WithCall(ms, call))
    BY <1>3, CallTaken
  <2> QED
    BY <1>1, <1>3, <1>4, <2>1, <2>2, <2>3, <2>4 DEF RebuiltTo
<1>7. CASE e.kind \in ConversationKinds /\ e.kind # "tool.call"
  <2>1. Carries(e) /\ WithMessage(ms, e) = Append(ms, e.message)
    BY <1>7 DEF Carries, WithMessage
  <2>2. PICK m \in Messages : m = e.message
    BY <1>2
  <2>3. Follows(ms, m.id)
    <3>1. ASSUME NEW i \in DOMAIN ms, ms[i].id # 0 PROVE ms[i].id < m.id
      <4>1. ms[i].id \in CarriedTo(es, k - 1)
        BY <1>3, <3>1 DEF Ids
      <4>2. PICK j \in 1 .. k - 1 : Carries(es[j]) /\ es[j].message.id = ms[i].id
        BY <4>1 DEF CarriedTo
      <4>3. j \in DOMAIN es /\ j < k
        OBVIOUS
      <4> QED
        BY <1>1, <2>1, <2>2, <4>2, <4>3 DEF InOrder
    <3> QED
      BY <3>1 DEF Follows
  <2>4. /\ Append(ms, m) \in Seq(Messages)
        /\ Ids(Append(ms, m)) = Ids(ms) \cup ({m.id} \ {0})
        /\ Sorted(ms) /\ Follows(ms, m.id) => Sorted(Append(ms, m))
    BY <1>3, MessageTaken
  <2>5. Ids(Append(ms, m)) = CarriedTo(es, k) \ {0}
    BY <1>3, <1>4, <2>1, <2>2, <2>4
  <2> QED
    BY <1>1, <1>3, <2>1, <2>2, <2>3, <2>4, <2>5 DEF RebuiltTo
<1> QED
  BY <1>5, <1>6, <1>7

Rebuilding(ms, es) == ms \in Seq(Messages) /\ Sorted(ms) /\ Ids(ms) = Carried(es) \ {0}

\* What is rebuilt from events in order is in order, and its messages are those the events
\* carry (rebuildConversationFromEvents).
LEMMA RebuildIs ==
  ASSUME NEW es \in Seq(Events), InOrder(es), NEW ids, Telling(es, ids)
  PROVE  Rebuilding(Rebuild(es), es)
<1> DEFINE n == Len(es)
<1>1. n \in Nat /\ DOMAIN es = 1 .. n
  OBVIOUS
<1>2. ASSUME NEW k \in 1 .. n
      PROVE  es[k] \in Events /\ (es[k].kind = "tool.call" => es[k].message.call \in Calls)
  BY <1>1 DEF Telling, Tells
<1>3. RebuildClosed(es, n, Seq(Messages))
  <2>1. ASSUME NEW k \in 1 .. n, NEW x \in Seq(Messages)
        PROVE  WithMessage(x, es[k]) \in Seq(Messages)
    <3>1. PICK e \in Events : e = es[k]
      BY <1>2
    <3>2. e.message \in Messages
      BY DEF Events
    <3>3. Append(x, e.message) \in Seq(Messages)
      BY <3>2, MessageTaken
    <3>4. CASE e.kind = "tool.call"
      <4>1. WithCall(x, e.message.call) \in Seq(Messages)
        <5>1. PICK call \in Calls : call = e.message.call
          BY <1>2, <3>1, <3>4
        <5>2. WithCall(x, call) \in Seq(Messages)
          BY CallTaken
        <5> QED
          BY <5>1, <5>2
      <4>2. WithMessage(x, e) \in {x, WithCall(x, e.message.call)}
        BY <3>4 DEF WithMessage
      <4> QED
        BY <3>1, <4>1, <4>2
    <3>5. CASE e.kind # "tool.call"
      <4>1. WithMessage(x, e) \in {x, Append(x, e.message)}
        BY <3>5 DEF WithMessage
      <4> QED
        BY <3>1, <3>3, <4>1
    <3> QED
      BY <3>4, <3>5
  <2> QED
    BY <2>1 DEF RebuildClosed
<1>4. <<>> \in Seq(Messages)
  OBVIOUS
<1>5. PICK c : /\ RebuildPasses(es, n, Seq(Messages), c)
               /\ c[0] = <<>> /\ c[n] = Rebuild(es)
  <2> HIDE DEF n
  <2> QED
    BY <1>1, <1>3, <1>4, RebuildRuns
<1>6. c \in [0..n -> Seq(Messages)] /\ \A k \in 1..n : c[k] = WithMessage(c[k-1], es[k])
  BY <1>5 DEF RebuildPasses
<1> DEFINE G == {k \in 0..n : RebuiltTo(c[k], es, k)}
<1>7. 0 \in G
  <2>1. Ids(<<>>) = {} /\ CarriedTo(es, 0) = {} /\ Sorted(<<>>)
    BY DEF Ids, CarriedTo, Sorted
  <2>2. RebuiltTo(<<>>, es, 0)
    BY <1>4, <2>1 DEF RebuiltTo
  <2> QED
    BY <1>1, <1>5, <2>2
<1>8. ASSUME NEW k \in 1 .. n, k - 1 \in G PROVE k \in G
  <2>1. k \in DOMAIN es /\ RebuiltTo(c[k-1], es, k - 1)
    BY <1>1, <1>8
  <2>2. RebuiltTo(WithMessage(c[k-1], es[k]), es, k)
    BY <1>2, <2>1, EventRebuilt
  <2> QED
    BY <1>6, <2>2
<1>9. n \in G
  <2> HIDE DEF G, n
  <2> QED
    BY <1>1, <1>7, <1>8, Reaches
<1>10. RebuiltTo(Rebuild(es), es, n)
  BY <1>5, <1>9
<1>11. CarriedTo(es, n) = Carried(es)
  BY <1>1 DEF CarriedTo, Carried
<1> QED
  BY <1>10, <1>11 DEF RebuiltTo, Rebuilding

-----------------------------------------------------------------------------
(* Types.                                                                  *)

Making(m, id) ==
  /\ m \in Messages /\ m.id = id
  /\ Kind(m) \in ConversationKinds \ {"tool.call"}

\* What the actions say are messages.
LEMMA MessagesMade ==
  ASSUME NEW id \in 0 .. MaxMessages
  PROVE  /\ Making(UserMessage(id), id)
         /\ \A calls \in SUBSET Calls : Making(AssistantMessage(id, calls), id)
         /\ \A call \in Calls : Making(ToolMessage(id, call), id)
<1>1. Making(UserMessage(id), id)
  BY DEF UserMessage, Making, Messages, Sources, Kind, ConversationKinds
<1>2. ASSUME NEW calls \in SUBSET Calls PROVE Making(AssistantMessage(id, calls), id)
  BY DEF AssistantMessage, Making, Messages, Sources, Kind, ConversationKinds
<1>3. ASSUME NEW call \in Calls PROVE Making(ToolMessage(id, call), id)
  BY DEF ToolMessage, Making, Messages, Sources, Kind, ConversationKinds
<1> QED
  BY <1>1, <1>2, <1>3

\* The event of a message, queued behind the others.
Queued(queue, lines, kind, m) == [seq |-> Len(lines) + Len(queue) + 1, kind |-> kind, message |-> m]

\* Its number is its place in the stream of the run (EventBus.emit).
LEMMA EventMade ==
  ASSUME NEW queue \in Seq(Events), NEW lines \in Seq(Events),
         NEW kind \in ConversationKinds, NEW m \in Messages
  PROVE  /\ Queued(queue, lines, kind, m) \in Events
         /\ Emitted(queue, lines, kind, m) = Append(queue, Queued(queue, lines, kind, m))
         /\ Emitted(queue, lines, kind, m) \in Seq(Events)
<1>1. Queued(queue, lines, kind, m) \in Events
  <2>1. Len(lines) + Len(queue) + 1 \in Nat
    OBVIOUS
  <2>2. kind \in Kinds
    BY DEF Kinds, ConversationKinds
  <2> QED
    BY <2>1, <2>2 DEF Queued, Events
<1>2. Emitted(queue, lines, kind, m) = Append(queue, Queued(queue, lines, kind, m))
  BY DEF Emitted, Queued
<1> QED
  BY <1>1, <1>2

\* The numbers of a window's messages.
LEMMA IdsTyped ==
  ASSUME NEW ms \in Seq(Messages)
  PROVE  Ids(ms) \subseteq 1 .. MaxMessages
<1>1. ASSUME NEW i \in DOMAIN ms PROVE ms[i].id \in 0 .. MaxMessages
  <2>1. ms[i] \in Messages
    OBVIOUS
  <2> QED
    BY <2>1 DEF Messages
<1>2. MaxMessages \in Nat
  BY TranscriptAssumption
<1> QED
  BY <1>1, <1>2 DEF Ids

\* A piece of a window is one.
Piece(ms, part, from) ==
  /\ part \in Seq(Messages)
  /\ DOMAIN part = 1 .. Len(ms) - from
  /\ \A i \in DOMAIN part : part[i] = ms[i + from] /\ i + from \in DOMAIN ms

\* A window of n messages is the last piece of the list.
LEMMA WindowIs ==
  ASSUME NEW ms \in Seq(Messages), NEW n \in Nat
  PROVE  Piece(ms, Window(ms, n), IF Len(ms) > n THEN Len(ms) - n ELSE 0)
<1>1. CASE Len(ms) > n
  <2>1. Window(ms, n) = SubSeq(ms, Len(ms) - n + 1, Len(ms))
    BY <1>1 DEF Window
  <2>2. Len(ms) - n \in Nat /\ Len(ms) \in Nat
    BY <1>1
  <2> QED
    BY <1>1, <2>1, <2>2 DEF Piece
<1>2. CASE ~ (Len(ms) > n)
  <2>1. Window(ms, n) = SubSeq(ms, 1, Len(ms))
    BY <1>2 DEF Window
  <2>2. SubSeq(ms, 1, Len(ms)) = ms
    OBVIOUS
  <2> QED
    BY <1>2, <2>1, <2>2 DEF Piece
<1> QED
  BY <1>1, <1>2

\* A piece holds nothing the list does not hold, in the order of the list.
LEMMA PieceKeeps ==
  ASSUME NEW ms \in Seq(Messages), NEW part, NEW from \in 0 .. Len(ms), Piece(ms, part, from)
  PROVE  Ids(part) \subseteq Ids(ms) /\ (Sorted(ms) => Sorted(part))
<1>1. Ids(part) \subseteq Ids(ms)
  BY DEF Piece, Ids
<1>2. Sorted(ms) => Sorted(part)
  <2> SUFFICES ASSUME Sorted(ms), NEW i \in DOMAIN part, NEW j \in DOMAIN part, i < j,
                      part[i].id # 0, part[j].id # 0
               PROVE  part[i].id < part[j].id
    BY DEF Sorted
  <2>1. /\ i + from \in DOMAIN ms /\ j + from \in DOMAIN ms
        /\ part[i] = ms[i + from] /\ part[j] = ms[j + from]
    BY DEF Piece
  <2>2. i + from < j + from
    BY DEF Piece
  <2> QED
    BY <2>1, <2>2 DEF Sorted
<1> QED
  BY <1>1, <1>2

\* How many observations there are.
LEMMA Observations ==
  ASSUME NEW ms \in Seq(Messages)
  PROVE  ObservationsIn(ms) \in Nat
<1>1. IsFiniteSet(1 .. Len(ms))
  BY FS_Interval
<1> DEFINE seen == {i \in DOMAIN ms : ms[i].role = "tool"}
<1>2. seen \in SUBSET (1 .. Len(ms))
  OBVIOUS
<1>3. IsFiniteSet(seen)
  <2> HIDE DEF seen
  <2> QED
    BY <1>1, <1>2, FS_Subset
<1>4. Cardinality(seen) \in Nat
  <2> HIDE DEF seen
  <2> QED
    BY <1>3, FS_CardinalityType
<1> QED
  BY <1>4 DEF ObservationsIn

-----------------------------------------------------------------------------
(* What a run tells grows at its end.                                      *)

Told(es, ids) ==
  /\ es \in Seq(Events) /\ Telling(es, ids) /\ InOrder(es) /\ Numbered(es)
  /\ \A i \in DOMAIN es : es[i].kind \in ConversationKinds
Newest(es, e) ==
  /\ e \in Events /\ e.kind \in ConversationKinds /\ e.seq = Len(es) + 1
  /\ Carries(e) => \A id \in Carried(es) : id < e.message.id

\* A stream in order stays so when the newest event is put behind it.
LEMMA StreamGrows ==
  ASSUME NEW es, NEW ids, Told(es, ids), NEW e, Newest(es, e),
         NEW more, ids \subseteq more, Tells(e, more)
  PROVE  /\ Told(Append(es, e), more)
         /\ Carried(Append(es, e)) = Carried(es) \cup (IF Carries(e) THEN {e.message.id} ELSE {})
<1>0. es \in Seq(Events) /\ e \in Events
  BY DEF Told, Newest
<1> DEFINE all == Append(es, e)
<1>1. /\ all \in Seq(Events) /\ DOMAIN all = 1 .. Len(es) + 1
      /\ \A i \in 1 .. Len(es) : all[i] = es[i] /\ i \in DOMAIN es
      /\ all[Len(es) + 1] = e /\ DOMAIN es = 1 .. Len(es) /\ Len(es) \in Nat
  BY <1>0
<1> HIDE DEF all
<1>2. ASSUME NEW i \in DOMAIN all
      PROVE  /\ Tells(all[i], more) /\ all[i].kind \in ConversationKinds
             /\ all[i].kind \in ConversationKinds => all[i].seq = i
  <2>1. CASE i \in 1 .. Len(es)
    BY <1>1, <2>1 DEF Told, Telling, Tells, Numbered
  <2>2. CASE i = Len(es) + 1
    BY <1>1, <2>2 DEF Newest
  <2> QED
    BY <1>1, <1>2, <2>1, <2>2
<1>3. ASSUME NEW i \in DOMAIN all, NEW j \in DOMAIN all, i < j,
             Carries(all[i]), Carries(all[j])
      PROVE  all[i].message.id < all[j].message.id
  <2>1. i \in 1 .. Len(es)
    BY <1>1, <1>3
  <2>2. CASE j \in 1 .. Len(es)
    BY <1>1, <1>3, <2>1, <2>2 DEF Told, InOrder
  <2>3. CASE j = Len(es) + 1
    <3>1. es[i].message.id \in Carried(es)
      BY <1>1, <1>3, <2>1 DEF Carried
    <3> QED
      BY <1>1, <1>3, <2>1, <2>3, <3>1 DEF Newest
  <2> QED
    BY <1>1, <1>3, <2>2, <2>3
<1>4. Told(all, more)
  BY <1>1, <1>2, <1>3, Zenon DEF Told, Telling, Numbered, InOrder
<1>5. Carried(all) = Carried(es) \cup (IF Carries(e) THEN {e.message.id} ELSE {})
  <2>1. ASSUME NEW id \in Carried(all)
        PROVE  id \in Carried(es) \cup (IF Carries(e) THEN {e.message.id} ELSE {})
    BY <1>1, <2>1 DEF Carried
  <2>2. ASSUME NEW id \in Carried(es) PROVE id \in Carried(all)
    <3>1. PICK i \in DOMAIN es : Carries(es[i]) /\ id = es[i].message.id
      BY <2>2 DEF Carried
    <3>2. i \in DOMAIN all /\ all[i] = es[i]
      BY <1>1
    <3> QED
      BY <3>1, <3>2 DEF Carried
  <2>3. Carries(e) => e.message.id \in Carried(all)
    <3>1. Len(es) + 1 \in DOMAIN all /\ all[Len(es) + 1] = e
      BY <1>1
    <3> QED
      BY <3>1 DEF Carried
  <2> QED
    BY <2>1, <2>2, <2>3
<1> QED
  BY <1>4, <1>5 DEF all

\* The beginning of what a run told is the beginning of what it said.
LEMMA PrefixBegins ==
  ASSUME NEW es, NEW ids, Told(es, ids), NoHoles(es, ids), NEW n \in 0 .. Len(es),
         ids \subseteq Nat
  PROVE  Beginning(SubSeq(es, 1, n), ids)
<1>0. es \in Seq(Events)
  BY DEF Told
<1> DEFINE part == SubSeq(es, 1, n)
<1>1. /\ part \in Seq(Events) /\ DOMAIN part = 1 .. n
      /\ \A i \in 1 .. n : part[i] = es[i] /\ i \in DOMAIN es
      /\ DOMAIN es = 1 .. Len(es) /\ Len(es) \in Nat
  BY <1>0
<1> HIDE DEF part
<1>2. Telling(part, ids) /\ Numbered(part) /\ InOrder(part)
  BY <1>1 DEF Told, Telling, Numbered, InOrder
<1>3. ASSUME NEW a \in ids, NEW b \in Carried(part), a < b PROVE a \in Carried(part)
  <2>1. PICK j \in 1 .. n : Carries(es[j]) /\ b = es[j].message.id /\ j \in DOMAIN es
    BY <1>1 DEF Carried
  <2>2. b \in Carried(es) /\ b \in Nat
    BY <2>1 DEF Carried, Told, Telling, Tells
  <2>3. PICK i \in DOMAIN es : Carries(es[i]) /\ a = es[i].message.id
    BY <1>3, <2>2 DEF NoHoles, Carried
  <2>4. ~ (j < i)
    BY <1>3, <2>1, <2>2, <2>3 DEF Told, InOrder
  <2>5. i \in 1 .. n
    BY <1>1, <2>1, <2>4
  <2> QED
    BY <1>1, <2>3, <2>5 DEF Carried
<1>4. NoHoles(part, ids)
  BY <1>3 DEF NoHoles
<1> QED
  BY <1>1, <1>2, <1>4 DEF Beginning, part

\* So is the file with a note behind it.
LEMMA NoteBegins ==
  ASSUME NEW es, NEW ids, Beginning(es, ids), NEW e \in Events, e.kind = "recovery.triggered"
  PROVE  Beginning(Append(es, e), ids)
<1>0. es \in Seq(Events) /\ e.kind \notin ConversationKinds /\ ~ Carries(e)
  BY DEF Beginning, ConversationKinds, Carries
<1> DEFINE all == Append(es, e)
<1>1. /\ all \in Seq(Events) /\ DOMAIN all = 1 .. Len(es) + 1
      /\ \A i \in 1 .. Len(es) : all[i] = es[i] /\ i \in DOMAIN es
      /\ all[Len(es) + 1] = e /\ DOMAIN es = 1 .. Len(es) /\ Len(es) \in Nat
  BY <1>0
<1> HIDE DEF all
<1>2. Telling(all, ids)
  <2>1. Tells(e, ids)
    BY <1>0 DEF Tells
  <2> QED
    BY <1>1, <2>1 DEF Telling, Beginning
<1>3. Numbered(all)
  BY <1>0, <1>1 DEF Numbered, Beginning
<1>4. InOrder(all)
  BY <1>0, <1>1 DEF InOrder, Beginning
<1>5. Carried(all) = Carried(es)
  <2>1. ASSUME NEW id \in Carried(all) PROVE id \in Carried(es)
    BY <1>0, <1>1, <2>1 DEF Carried
  <2>2. ASSUME NEW id \in Carried(es) PROVE id \in Carried(all)
    <3>1. PICK i \in DOMAIN es : Carries(es[i]) /\ id = es[i].message.id
      BY <2>2 DEF Carried
    <3>2. i \in DOMAIN all /\ all[i] = es[i]
      BY <1>1
    <3> QED
      BY <3>1, <3>2 DEF Carried
  <2> QED
    BY <2>1, <2>2
<1> QED
  BY <1>1, <1>2, <1>3, <1>4, <1>5 DEF Beginning, NoHoles, all

\* A run that says more has no hole before.
LEMMA SaysMore ==
  ASSUME NEW es, NEW ids, Beginning(es, ids), NEW n \in Nat, ids \subseteq 1 .. n
  PROVE  Beginning(es, ids \cup {n + 1})
<1>1. Telling(es, ids \cup {n + 1})
  BY DEF Beginning, Telling, Tells
<1>2. Carried(es) \subseteq ids
  BY DEF Beginning, Telling, Tells, Carried
<1>3. NoHoles(es, ids \cup {n + 1})
  <2> SUFFICES ASSUME NEW a \in ids \cup {n + 1}, NEW b \in Carried(es), a < b
               PROVE  a \in Carried(es)
    BY DEF NoHoles
  <2>1. b \in 1 .. n
    BY <1>2
  <2>2. a # n + 1
    BY <2>1
  <2> QED
    BY <2>2 DEF Beginning, NoHoles
<1> QED
  BY <1>1, <1>3 DEF Beginning

-----------------------------------------------------------------------------
(* Every step keeps the types.                                             *)

\* A message that is said keeps the types of what it changes.
LEMMA SayTyped ==
  ASSUME TypeOK, run \in Runs, NEW m, Making(m, last + 1), Say(m)
  PROVE  /\ last' \in 0 .. MaxMessages /\ messages' \in Seq(Messages)
         /\ pending' \in Seq(Events)
         /\ said' \in [Runs -> SUBSET (1 .. MaxMessages)]
<1>1. last \in 0 .. MaxMessages /\ last < MaxMessages /\ MaxMessages \in Nat
  BY TranscriptAssumption DEF TypeOK, Say
<1>2. m \in Messages /\ Kind(m) \in ConversationKinds /\ m.id = last + 1
  BY DEF Making
<1>3. messages' \in Seq(Messages)
  BY <1>2 DEF Say, TypeOK
<1>4. pending' \in Seq(Events)
  <2>1. PICK kind \in ConversationKinds : kind = Kind(m)
    BY <1>2
  <2>2. PICK lines \in Seq(Events) : lines = log[run].lines
    BY DEF TypeOK
  <2>3. Emitted(pending, lines, kind, m) \in Seq(Events)
    BY <1>2, EventMade DEF TypeOK
  <2> QED
    BY <2>1, <2>2, <2>3 DEF Say
<1>5. said' \in [Runs -> SUBSET (1 .. MaxMessages)]
  BY <1>1, <1>2 DEF Say, TypeOK
<1>6. last' \in 0 .. MaxMessages
  BY <1>1 DEF Say
<1> QED
  BY <1>3, <1>4, <1>5, <1>6

\* The message of every action that says one.
LEMMA SaidMade ==
  ASSUME TypeOK, last < MaxMessages
  PROVE  /\ Making(UserMessage(last + 1), last + 1)
         /\ \A calls \in SUBSET Calls : Making(AssistantMessage(last + 1, calls), last + 1)
         /\ \A call \in Calls : Making(ToolMessage(last + 1, call), last + 1)
<1>1. PICK id \in 1 .. MaxMessages : id = last + 1
  <2>1. MaxMessages \in Nat /\ last \in 0 .. MaxMessages
    BY TranscriptAssumption DEF TypeOK
  <2> QED
    BY <2>1
<1>2. id \in 0 .. MaxMessages
  OBVIOUS
<1>3. /\ Making(UserMessage(id), id)
      /\ \A calls \in SUBSET Calls : Making(AssistantMessage(id, calls), id)
      /\ \A call \in Calls : Making(ToolMessage(id, call), id)
  BY <1>2, MessagesMade
<1> QED
  BY <1>1, <1>3

\* The calls of a response.
LEMMA ResponseCalls ==
  ASSUME TypeOK, last < MaxMessages, NEW n \in 1 .. MaxCalls,
         NEW calls, calls = [k \in 1 .. n |-> <<last + 1, k>>]
  PROVE  calls \in Seq(Calls) /\ calls # <<>> /\ Range(calls) \in SUBSET Calls
<1>1. PICK id \in 1 .. MaxMessages : id = last + 1
  <2>1. MaxMessages \in Nat /\ last \in 0 .. MaxMessages
    BY TranscriptAssumption DEF TypeOK
  <2> QED
    BY <2>1
<1>2. MaxCalls \in Nat /\ n \in Nat /\ n >= 1
  BY TranscriptAssumption
<1>3. \A k \in 1 .. n : <<id, k>> \in Calls
  BY <1>2 DEF Calls
<1>4. calls \in [1 .. n -> Calls]
  BY <1>1, <1>3
<1>5. calls \in Seq(Calls) /\ Len(calls) = n
  BY <1>2, <1>4
<1>6. calls # <<>>
  BY <1>2, <1>5
<1>7. Range(calls) \in SUBSET Calls
  BY <1>4 DEF Range
<1> QED
  BY <1>5, <1>6, <1>7

\* What a run begins with.
LEMMA BeginTyped ==
  ASSUME IInv, Begin
  PROVE  /\ run' \in 1 .. MaxRuns /\ messages' \in Seq(Messages) /\ observed' \in Nat
         /\ memo' \in [summary: SUBSET (1 .. MaxMessages), count: Nat, blocked: Nat]
         /\ Sorted(messages') /\ Ids(messages') \subseteq 1 .. last
<1>1. PICK es : es = LoadConversationEvents
  OBVIOUS
<1>2. es \in Seq(Events) /\ InOrder(es) /\ Telling(es, 1 .. last)
  <2>1. RunIds \in Seq(Runs)
    BY DEF IInv, TypeOK, RunIds
  <2> QED
    BY <1>1, <2>1, LoadIs DEF IInv, Loaded
<1>3. PICK ms : ms = Rebuild(es)
  OBVIOUS
<1>4. ms \in Seq(Messages) /\ Sorted(ms) /\ Ids(ms) = Carried(es) \ {0}
  <2>1. Rebuilding(Rebuild(es), es)
    BY <1>2, RebuildIs
  <2> QED
    BY <1>3, <2>1 DEF Rebuilding
<1>5. Ids(ms) \subseteq 1 .. last
  BY <1>2, <1>4 DEF Carried, Telling, Tells
<1>6. DefaultRetained \in Nat
  BY TranscriptAssumption
<1> DEFINE from == IF Len(ms) > DefaultRetained THEN Len(ms) - DefaultRetained ELSE 0
<1>7. /\ Window(ms, DefaultRetained) \in Seq(Messages) /\ Sorted(Window(ms, DefaultRetained))
      /\ Ids(Window(ms, DefaultRetained)) \subseteq Ids(ms)
  <2>1. Piece(ms, Window(ms, DefaultRetained), from)
    BY <1>4, <1>6, WindowIs
  <2>2. from \in 0 .. Len(ms)
    BY <1>4, <1>6
  <2> HIDE DEF from
  <2>3. PICK part : part = Window(ms, DefaultRetained)
    OBVIOUS
  <2>4. Ids(part) \subseteq Ids(ms) /\ (Sorted(ms) => Sorted(part))
    BY <1>4, <2>1, <2>2, <2>3, PieceKeeps
  <2> QED
    BY <1>4, <2>1, <2>3, <2>4 DEF Piece
<1>8. ObservationsIn(ms) \in Nat /\ Least(ObservationsIn(ms), DefaultRetained) \in Nat
  BY <1>4, <1>6, Observations DEF Least
<1>9. messages' \in {ms, Window(ms, DefaultRetained)}
  BY <1>1, <1>3 DEF Begin
<1>10. observed' \in Nat
  BY <1>1, <1>3, <1>8 DEF Begin
<1>11. memo' \in [summary: SUBSET (1 .. MaxMessages), count: Nat, blocked: Nat]
  <2>1. compacts \in Seq(SUBSET (1 .. MaxMessages))
    BY DEF IInv, TypeOK
  <2>2. compacts # <<>> => Last(compacts) \in SUBSET (1 .. MaxMessages)
    BY <2>1 DEF Last
  <2>3. (IF compacts # <<>> THEN Last(compacts) ELSE {}) \in SUBSET (1 .. MaxMessages)
    BY <2>2
  <2>4. Len(compacts) \in Nat
    BY <2>1
  <2>5. memo' = [summary |-> IF compacts # <<>> THEN Last(compacts) ELSE {},
                 count |-> Len(compacts), blocked |-> 0]
    BY DEF Begin
  <2> QED
    BY <2>3, <2>4, <2>5
<1>12. run' \in 1 .. MaxRuns
  BY TranscriptAssumption DEF Begin, IInv, TypeOK
<1> QED
  BY <1>4, <1>5, <1>7, <1>9, <1>10, <1>11, <1>12

\* What a compaction takes out of the window and what it leaves are all of it.
LEMMA EvictedIs ==
  ASSUME messages \in Seq(Messages)
  PROVE  /\ Evicted \subseteq Ids(messages)
         /\ Ids(messages) \subseteq Evicted \cup Ids(Window(messages, Retained))
<1>1. PICK ms \in Seq(Messages) : ms = messages
  OBVIOUS
<1>2. Retained \in Nat /\ Len(ms) \in Nat
  BY TranscriptAssumption
<1>3. ASSUME NEW n \in 1 .. Len(ms) PROVE Ids(SubSeq(ms, 1, Len(ms) - n)) \subseteq Ids(ms)
  <2>1. SubSeq(ms, 1, Len(ms) - n) \in Seq(Messages)
    OBVIOUS
  <2>2. ASSUME NEW i \in DOMAIN SubSeq(ms, 1, Len(ms) - n)
        PROVE  i \in DOMAIN ms /\ SubSeq(ms, 1, Len(ms) - n)[i] = ms[i]
    OBVIOUS
  <2> QED
    BY <2>2 DEF Ids
<1>4. CASE Len(ms) > Retained
  <2>1. Evicted = Ids(SubSeq(ms, 1, Len(ms) - Retained))
    BY <1>1, <1>4 DEF Evicted, EvictedBy
  <2>2. Retained \in 1 .. Len(ms)
    BY <1>2, <1>4, TranscriptAssumption
  <2>3. Evicted \subseteq Ids(ms)
    BY <1>3, <2>1, <2>2
  <2>4. Piece(ms, Window(ms, Retained), Len(ms) - Retained)
    BY <1>2, <1>4, WindowIs
  <2>5. ASSUME NEW id \in Ids(ms) PROVE id \in Evicted \cup Ids(Window(ms, Retained))
    <3>1. PICK i \in DOMAIN ms : id = ms[i].id /\ id # 0
      BY <2>5 DEF Ids
    <3>2. CASE i > Len(ms) - Retained
      <4>1. PICK j \in DOMAIN Window(ms, Retained) : j = i - (Len(ms) - Retained)
        BY <1>2, <1>4, <3>2, <2>4 DEF Piece
      <4>2. Window(ms, Retained)[j] = ms[i]
        <5>1. Window(ms, Retained)[j] = ms[j + (Len(ms) - Retained)]
          BY <2>4 DEF Piece
        <5>2. j + (Len(ms) - Retained) = i
          BY <1>2, <4>1
        <5> QED
          BY <5>1, <5>2
      <4> QED
        BY <3>1, <4>2 DEF Ids
    <3>3. CASE ~ (i > Len(ms) - Retained)
      <4>1. i \in 1 .. Len(ms) - Retained
        BY <1>2, <1>4, <3>3
      <4>2. PICK head : head = SubSeq(ms, 1, Len(ms) - Retained)
        OBVIOUS
      <4>3. i \in DOMAIN head /\ head[i] = ms[i]
        BY <1>2, <4>1, <4>2
      <4>4. id \in Ids(head)
        BY <3>1, <4>3 DEF Ids
      <4> QED
        BY <2>1, <4>2, <4>4
    <3> QED
      BY <3>2, <3>3
  <2> QED
    BY <1>1, <2>3, <2>5
<1>5. CASE ~ (Len(ms) > Retained)
  <2>1. Piece(ms, Window(ms, Retained), 0)
    <3>1. Piece(ms, Window(ms, Retained), IF Len(ms) > Retained THEN Len(ms) - Retained ELSE 0)
      BY <1>2, WindowIs
    <3> QED
      BY <1>5, <3>1
  <2>2. ASSUME NEW id \in Ids(ms) PROVE id \in Ids(Window(ms, Retained))
    <3>1. PICK i \in DOMAIN ms : id = ms[i].id /\ id # 0
      BY <2>2 DEF Ids
    <3>2. i \in DOMAIN Window(ms, Retained) /\ Window(ms, Retained)[i] = ms[i]
      BY <2>1 DEF Piece
    <3> QED
      BY <3>1, <3>2 DEF Ids
  <2>3. Evicted \subseteq Ids(ms)
    <3>1. CASE observed > Retained
      BY <1>1, <1>5, <3>1 DEF Evicted
    <3>2. CASE ~ (observed > Retained) /\ Len(ms) > 1
      <4>1. Evicted = Ids(SubSeq(ms, 1, Len(ms) - 1))
        BY <1>1, <1>5, <3>2 DEF Evicted, EvictedBy
      <4>2. 1 \in 1 .. Len(ms)
        BY <1>2, <3>2
      <4> QED
        BY <1>3, <4>1, <4>2
    <3>3. CASE ~ (observed > Retained) /\ ~ (Len(ms) > 1)
      BY <1>1, <1>5, <3>3 DEF Evicted
    <3> QED
      BY <3>1, <3>2, <3>3
  <2> QED
    BY <1>1, <2>2, <2>3
<1> QED
  BY <1>4, <1>5

\* The call that is handled next is one of a response, and so are those after it.
LEMMA CallsLeft ==
  ASSUME TypeOK, TodoRight, at \in {"tools", "call"}
  PROVE  Head(todo) \in Calls /\ Tail(todo) \in Seq(Calls)
<1>1. PICK calls \in Seq(Calls) : calls = todo
  BY DEF TypeOK
<1>2. calls # <<>>
  BY <1>1 DEF TodoRight
<1>3. Head(calls) \in Calls /\ Tail(calls) \in Seq(Calls)
  <2> HIDE DEF Calls
  <2> QED
    BY <1>2
<1> QED
  BY <1>1, <1>3

\* The types of all that a step of the model changes.
LEMMA NextTyped == IInv /\ [Next]_vars => TypeOK'
<1> SUFFICES ASSUME IInv, [Next]_vars PROVE TypeOK'
  OBVIOUS
<1>0. /\ TypeOK /\ TodoRight /\ (at # "down" => run \in Runs)
      /\ {MaxMessages, MaxFaults, MaxCrashes, Retained} \subseteq Nat
  BY TranscriptAssumption DEF IInv, StreamRight
<1>1. CASE Begin
  BY <1>0, <1>1, BeginTyped DEF Begin, TypeOK, Places
<1>2. CASE AppendToIndex
  <2>1. Append(RunIds, run) \in Seq(Runs)
    BY <1>0, <1>2 DEF AppendToIndex, TypeOK, RunIds
  <2>2. index' \in [state: FileStates, content: Seq(Runs)]
    BY <1>2, <2>1 DEF AppendToIndex, WholeFile, FileStates
  <2> QED
    BY <1>0, <1>2, <2>2 DEF AppendToIndex, TypeOK, Places
<1>3. CASE SayTask
  <2>1. last < MaxMessages /\ Making(UserMessage(last + 1), last + 1) /\ Say(UserMessage(last + 1))
    BY <1>0, <1>3, SaidMade DEF SayTask, Say
  <2>2. /\ last' \in 0 .. MaxMessages /\ messages' \in Seq(Messages)
        /\ pending' \in Seq(Events) /\ said' \in [Runs -> SUBSET (1 .. MaxMessages)]
    BY <1>0, <1>3, <2>1, SayTyped DEF SayTask
  <2> QED
    BY <1>0, <1>3, <2>2 DEF SayTask, TypeOK, Places
<1>4. ASSUME NEW n \in 1 .. MaxCalls, RespondWithCalls(n) PROVE TypeOK'
  <2> DEFINE calls == [k \in 1 .. n |-> <<last + 1, k>>]
             m == AssistantMessage(last + 1, Range(calls))
  <2>1. last < MaxMessages /\ Say(m) /\ todo' = calls
    BY <1>4 DEF RespondWithCalls, Say
  <2>2. calls \in Seq(Calls) /\ Range(calls) \in SUBSET Calls
    <3>1. PICK c : c = calls
      OBVIOUS
    <3>2. c \in Seq(Calls) /\ c # <<>> /\ Range(c) \in SUBSET Calls
      BY <1>0, <2>1, <3>1, ResponseCalls
    <3> QED
      BY <3>1, <3>2
  <2>3. Making(m, last + 1)
    <3> HIDE DEF calls
    <3> QED
      BY <1>0, <2>1, <2>2, SaidMade
  <2> HIDE DEF m, calls
  <2>4. /\ last' \in 0 .. MaxMessages /\ messages' \in Seq(Messages)
        /\ pending' \in Seq(Events) /\ said' \in [Runs -> SUBSET (1 .. MaxMessages)]
    BY <1>0, <1>4, <2>1, <2>3, SayTyped DEF RespondWithCalls
  <2> QED
    BY <1>0, <1>4, <2>1, <2>2, <2>4 DEF RespondWithCalls, TypeOK, Places
<1>5. CASE RespondFinally
  <2>1. last < MaxMessages /\ Say(AssistantMessage(last + 1, {}))
    BY <1>5 DEF RespondFinally, Say
  <2>2. Making(AssistantMessage(last + 1, {}), last + 1)
    BY <1>0, <2>1, SaidMade
  <2>3. /\ last' \in 0 .. MaxMessages /\ messages' \in Seq(Messages)
        /\ pending' \in Seq(Events) /\ said' \in [Runs -> SUBSET (1 .. MaxMessages)]
    BY <1>0, <1>5, <2>1, <2>2, SayTyped DEF RespondFinally
  <2> QED
    BY <1>0, <1>5, <2>3 DEF RespondFinally, TypeOK, Places
<1>6. CASE Stop
  <2>1. <<>> \in Seq(Calls)
    OBVIOUS
  <2> QED
    BY <1>0, <1>6, <2>1 DEF Stop, TypeOK, Places
<1>7. CASE AnnounceCall
  <2>1. Head(todo) \in Calls
    BY <1>0, <1>7, CallsLeft DEF AnnounceCall
  <2>2. PICK m \in Messages : m = ToolMessage(0, Head(todo))
    <3>1. 0 \in 0 .. MaxMessages /\ {} \in SUBSET Calls
      BY <1>0
    <3>2. Making(ToolMessage(0, Head(todo)), 0)
      BY <2>1, <3>1, MessagesMade
    <3> QED
      BY <3>2 DEF Making
  <2>3. PICK kind \in ConversationKinds : kind = "tool.call"
    BY DEF ConversationKinds
  <2>4. PICK lines \in Seq(Events) : lines = log[run].lines
    BY <1>0, <1>7 DEF AnnounceCall, TypeOK
  <2>5. Emitted(pending, lines, kind, m) \in Seq(Events)
    BY <1>0, EventMade DEF TypeOK
  <2>6. pending' \in Seq(Events)
    BY <1>7, <2>2, <2>3, <2>4, <2>5 DEF AnnounceCall
  <2> QED
    BY <1>0, <1>7, <2>6 DEF AnnounceCall, TypeOK, Places
<1>8. CASE PersistResult
  <2>1. Head(todo) \in Calls /\ Tail(todo) \in Seq(Calls)
    BY <1>0, <1>8, CallsLeft DEF PersistResult
  <2>2. last < MaxMessages /\ Say(ToolMessage(last + 1, Head(todo)))
    BY <1>8 DEF PersistResult, Say
  <2>3. Making(ToolMessage(last + 1, Head(todo)), last + 1)
    BY <1>0, <2>1, <2>2, SaidMade
  <2>4. /\ last' \in 0 .. MaxMessages /\ messages' \in Seq(Messages)
        /\ pending' \in Seq(Events) /\ said' \in [Runs -> SUBSET (1 .. MaxMessages)]
    BY <1>0, <1>8, <2>2, <2>3, SayTyped DEF PersistResult
  <2> QED
    <3>1. observed' \in Nat /\ todo' \in Seq(Calls) /\ at' \in Places
      BY <1>0, <1>8, <2>1 DEF PersistResult, TypeOK, Places
    <3> QED
      BY <1>0, <1>8, <2>4, <3>1 DEF PersistResult, TypeOK
<1>9. CASE SayClarification \/ SayReview \/ SayVerification \/ SayRecovery
  <2>1. last < MaxMessages /\ Making(UserMessage(last + 1), last + 1) /\ Say(UserMessage(last + 1))
    BY <1>0, <1>9, SaidMade DEF SayClarification, SayReview, SayVerification, SayRecovery, Say
  <2>2. /\ last' \in 0 .. MaxMessages /\ messages' \in Seq(Messages)
        /\ pending' \in Seq(Events) /\ said' \in [Runs -> SUBSET (1 .. MaxMessages)]
    BY <1>0, <1>9, <2>1, SayTyped DEF SayClarification, SayReview, SayVerification, SayRecovery
  <2> QED
    BY <1>0, <1>9, <2>2
       DEF SayClarification, SayReview, SayVerification, SayRecovery, TypeOK, Places
<1>e. CASE EchoPlan
  <2>1. UserMessage(0) \in Messages
    BY <1>0 DEF UserMessage, Messages, Sources
  <2>2. messages' \in Seq(Messages)
    BY <1>0, <1>e, <2>1 DEF EchoPlan, TypeOK
  <2> QED
    BY <1>0, <1>e, <2>2 DEF EchoPlan, TypeOK, Places
<1>a. AfterCall \in Places /\ AfterFlush \in Places
  BY DEF AfterCall, AfterFlush, Places
<1>c. ASSUME misfortune.faults < MaxFaults
      PROVE  [misfortune EXCEPT !.faults = @ + 1] \in [faults: 0 .. MaxFaults, crashes: 0 .. MaxCrashes]
  <2>1. misfortune \in [faults: 0 .. MaxFaults, crashes: 0 .. MaxCrashes]
    BY <1>0 DEF TypeOK
  <2>2. misfortune.faults + 1 \in 0 .. MaxFaults
    BY <1>0, <1>c, <2>1
  <2> QED
    BY <2>1, <2>2
<1>d. ASSUME misfortune.crashes < MaxCrashes
      PROVE  [misfortune EXCEPT !.crashes = @ + 1] \in [faults: 0 .. MaxFaults, crashes: 0 .. MaxCrashes]
  <2>1. misfortune \in [faults: 0 .. MaxFaults, crashes: 0 .. MaxCrashes]
    BY <1>0 DEF TypeOK
  <2>2. misfortune.crashes + 1 \in 0 .. MaxCrashes
    BY <1>0, <1>d, <2>1
  <2> QED
    BY <2>1, <2>2
<1>10. CASE SkipCompaction
  BY <1>0, <1>10, <1>a DEF SkipCompaction, TypeOK
<1>11. CASE StartCompaction
  BY <1>0, <1>11 DEF StartCompaction, TypeOK, Places
<1>12. CASE SummaryFails
  <2>1. Size \in Nat
    BY <1>0 DEF TypeOK, Size
  <2>2. memo' \in [summary: SUBSET (1 .. MaxMessages), count: Nat, blocked: Nat]
    BY <1>0, <1>12, <2>1 DEF SummaryFails, TypeOK
  <2> QED
    BY <1>0, <1>12, <1>a, <2>2 DEF SummaryFails, TypeOK
<1>13. CASE SummaryArrives
  BY <1>0, <1>13 DEF SummaryArrives, TypeOK, Places
<1>14. CASE ApplyCompaction
  <2>1. Evicted \subseteq Ids(messages) /\ Ids(messages) \subseteq 1 .. MaxMessages
    BY <1>0, EvictedIs, IdsTyped DEF TypeOK
  <2>2. memo.summary \cup Evicted \in SUBSET (1 .. MaxMessages) /\ memo.count + 1 \in Nat
    BY <1>0, <2>1 DEF TypeOK
  <2>3. compacts' = Append(compacts, memo.summary \cup Evicted)
    BY <1>14 DEF ApplyCompaction
  <2>4. compacts' \in Seq(SUBSET (1 .. MaxMessages))
    BY <1>0, <2>2, <2>3 DEF TypeOK
  <2>5. memo' = [summary |-> memo.summary \cup Evicted, count |-> memo.count + 1, blocked |-> 0]
    BY <1>14 DEF ApplyCompaction
  <2>6. memo' \in [summary: SUBSET (1 .. MaxMessages), count: Nat, blocked: Nat]
    BY <2>2, <2>5
  <2>7. messages' \in Seq(Messages)
    <3>1. PICK ms \in Seq(Messages) : ms = messages
      BY <1>0 DEF TypeOK
    <3>2. Window(ms, Retained) \in Seq(Messages)
      BY <1>0, WindowIs DEF Piece
    <3> QED
      BY <1>14, <3>1, <3>2 DEF ApplyCompaction
  <2>8. observed' \in Nat
    BY <1>0, <1>14 DEF ApplyCompaction, Least, TypeOK
  <2> QED
    BY <1>0, <1>14, <1>a, <2>4, <2>6, <2>7, <2>8 DEF ApplyCompaction, TypeOK
<1>15. CASE SaveFails
  <2>1. compacts' \in Seq(SUBSET (1 .. MaxMessages)) /\ todo' \in Seq(Calls)
    BY <1>0, <1>15 DEF SaveFails, TypeOK
  <2>2. misfortune' \in [faults: 0 .. MaxFaults, crashes: 0 .. MaxCrashes]
    BY <1>15, <1>c DEF SaveFails
  <2> QED
    BY <1>0, <1>15, <2>1, <2>2 DEF SaveFails, TypeOK, Places
<1>16. CASE Flush
  <2>1. run \in Runs /\ log[run].lines \o pending \in Seq(Events) /\ <<>> \in Seq(Events)
    BY <1>0, <1>16 DEF Flush, TypeOK
  <2>2. log' \in [Runs -> [lines: Seq(Events), torn: BOOLEAN]]
    BY <1>0, <1>16, <2>1 DEF Flush, TypeOK
  <2> QED
    BY <1>0, <1>16, <1>a, <2>1, <2>2 DEF Flush, TypeOK
<1>17. CASE FlushFails
  <2>1. misfortune' \in [faults: 0 .. MaxFaults, crashes: 0 .. MaxCrashes]
    BY <1>17, <1>c DEF FlushFails
  <2>2. <<>> \in Seq(Events)
    OBVIOUS
  <2> QED
    BY <1>0, <1>17, <2>1, <2>2 DEF FlushFails, TypeOK, Places
<1>18. CASE Revert
  <2> DEFINE note == [seq |-> 0, kind |-> "recovery.triggered", message |-> UserMessage(0)]
  <2>1. Last(RunIds) \in Runs
    BY <1>0, <1>18 DEF Revert, RunIds, TypeOK, Last
  <2>2. note \in Events
    <3>1. UserMessage(0) \in Messages
      BY <1>0 DEF UserMessage, Messages, Sources
    <3> QED
      BY <3>1 DEF Events, Kinds
  <2>3. log' = [log EXCEPT ![Last(RunIds)].lines = Append(@, note)]
    BY <1>18 DEF Revert
  <2> HIDE DEF note
  <2>4. Append(log[Last(RunIds)].lines, note) \in Seq(Events)
    BY <1>0, <2>1, <2>2 DEF TypeOK
  <2>5. log' \in [Runs -> [lines: Seq(Events), torn: BOOLEAN]]
    BY <1>0, <2>1, <2>3, <2>4 DEF TypeOK
  <2> QED
    BY <1>0, <1>18, <2>5 DEF Revert, TypeOK
<1>b. ASSUME CrashLosesMemory
      PROVE  /\ at' \in Places /\ run' \in 0 .. MaxRuns /\ messages' \in Seq(Messages)
             /\ observed' \in Nat /\ todo' \in Seq(Calls) /\ pending' \in Seq(Events)
             /\ memo' \in [summary: SUBSET (1 .. MaxMessages), count: Nat, blocked: Nat]
             /\ last' \in 0 .. MaxMessages /\ said' \in [Runs -> SUBSET (1 .. MaxMessages)]
             /\ misfortune' \in [faults: 0 .. MaxFaults, crashes: 0 .. MaxCrashes]
  <2>1. /\ <<>> \in Seq(Messages) /\ <<>> \in Seq(Calls) /\ <<>> \in Seq(Events)
        /\ NoMemo \in [summary: SUBSET (1 .. MaxMessages), count: Nat, blocked: Nat]
    BY DEF NoMemo
  <2> QED
    BY <1>0, <1>b, <1>d, <2>1 DEF CrashLosesMemory, TypeOK, Places
<1>19. CASE Crash
  BY <1>0, <1>19, <1>b DEF Crash, TypeOK
<1>20. CASE CrashInIndex
  <2>1. index' \in [state: FileStates, content: Seq(Runs)]
    BY <1>20 DEF CrashInIndex, OpenedFile, FileStates
  <2> QED
    BY <1>0, <1>20, <1>b, <2>1 DEF CrashInIndex, TypeOK
<1>21. CASE CrashInSummary
  <2>1. compacts' \in Seq(SUBSET (1 .. MaxMessages))
    BY <1>0, <1>21 DEF CrashInSummary, TypeOK
  <2> QED
    BY <1>0, <1>21, <1>b, <2>1 DEF CrashInSummary, TypeOK
<1>22. CASE CrashInFlush
  <2>1. PICK n \in 0 .. Len(pending), torn \in BOOLEAN :
          log' = [log EXCEPT ![run] = [lines |-> @.lines \o SubSeq(pending, 1, n), torn |-> torn]]
    BY <1>22 DEF CrashInFlush
  <2>2. run \in Runs /\ log[run].lines \in Seq(Events) /\ pending \in Seq(Events)
    BY <1>0, <1>22 DEF CrashInFlush, TypeOK
  <2>3. SubSeq(pending, 1, n) \in Seq(Events)
    BY <2>2
  <2>4. log[run].lines \o SubSeq(pending, 1, n) \in Seq(Events)
    BY <2>2, <2>3
  <2>5. log' \in [Runs -> [lines: Seq(Events), torn: BOOLEAN]]
    BY <1>0, <2>1, <2>2, <2>4 DEF TypeOK
  <2> QED
    BY <1>0, <1>22, <1>b, <2>5 DEF CrashInFlush, TypeOK
<1>23. CASE UNCHANGED vars
  BY <1>0, <1>23 DEF vars, TypeOK
<1> QED
  BY <1>1, <1>2, <1>3, <1>4, <1>5, <1>6, <1>7, <1>8, <1>9, <1>e, <1>10, <1>11, <1>12, <1>13,
     <1>14, <1>15, <1>16, <1>17, <1>18, <1>19, <1>20, <1>21, <1>22, <1>23 DEF Next

-----------------------------------------------------------------------------
(* Every step keeps the logs right, and what the run under way is to add.  *)

EventsRight == LogsRight /\ StreamRight /\ SaidRight

\* While a run is under way its file and its queue tell what it said, without holes.
LEMMA StreamTold ==
  ASSUME IInv, at # "down"
  PROVE  /\ run \in Runs /\ Told(Stream, said[run]) /\ NoHoles(Stream, said[run])
         /\ said[run] \subseteq Nat
         /\ log[run].lines \in Seq(Events) /\ pending \in Seq(Events)
<1>1. run \in Runs /\ log[run].lines \in Seq(Events) /\ pending \in Seq(Events)
  BY DEF IInv, StreamRight, TypeOK
<1>2. Stream \in Seq(Events)
  BY <1>1 DEF Stream
<1>3. Told(Stream, said[run])
  BY <1>2 DEF IInv, StreamRight, Told
<1>4. NoHoles(Stream, said[run])
  <2>1. CASE said[run] = Carried(Stream)
    BY <2>1 DEF NoHoles
  <2>2. CASE pending = <<>>
    <3>1. Stream = log[run].lines
      BY <1>1, <2>2 DEF Stream
    <3> QED
      BY <1>1, <3>1 DEF IInv, LogsRight, Beginning
  <2> QED
    BY <2>1, <2>2 DEF IInv, StreamRight
<1>5. said[run] \subseteq Nat
  BY <1>1 DEF IInv, SaidRight
<1> QED
  BY <1>1, <1>3, <1>4, <1>5

\* Nothing is said,
LEMMA QuietEvents ==
  ASSUME IInv, at \notin {"down", "closing"}, at' # "down",
         UNCHANGED <<run, pending, log, last, said>>
  PROVE  EventsRight'
<1>1. Stream' = Stream
  BY DEF Stream
<1>2. StreamRight'
  BY <1>1 DEF IInv, StreamRight
<1>3. LogsRight' /\ SaidRight'
  BY DEF IInv, LogsRight, SaidRight
<1> QED
  BY <1>2, <1>3 DEF EventsRight

\* or a run is over,
LEMMA OverEvents ==
  ASSUME IInv, at' = "down", pending' = <<>>, UNCHANGED <<run, last, said>>,
         \A r \in Runs : \/ log'[r].lines = log[r].lines
                         \/ r <= run /\ Beginning(log'[r].lines, said[r])
  PROVE  EventsRight'
<1>1. StreamRight'
  BY DEF StreamRight
<1>2. LogsRight'
  BY DEF IInv, LogsRight
<1>3. SaidRight'
  <2>1. \A r \in Runs : r > run => log'[r].lines = log[r].lines
    BY DEF IInv, TypeOK, Runs
  <2> QED
    BY <2>1 DEF IInv, SaidRight
<1> QED
  BY <1>1, <1>2, <1>3 DEF EventsRight

\* or the run says something.
LEMMA SayEvents ==
  ASSUME IInv, at \notin {"down", "closing"}, at' # "down", NEW m, Making(m, last + 1), Say(m),
         UNCHANGED <<run, log>>
  PROVE  EventsRight'
<1>0. /\ run \in Runs /\ Told(Stream, said[run])
      /\ log[run].lines \in Seq(Events) /\ pending \in Seq(Events)
      /\ said[run] = Carried(Stream) /\ last \in Nat
  <2>1. said[run] = Carried(Stream) /\ last \in Nat
    BY TranscriptAssumption DEF IInv, StreamRight, TypeOK
  <2> QED
    BY <2>1, StreamTold
<1>1. PICK lines \in Seq(Events) : lines = log[run].lines
  BY <1>0
<1>2. PICK kind \in ConversationKinds : kind = Kind(m) /\ kind # "tool.call"
  BY DEF Making
<1>3. PICK e \in Events : e = Queued(pending, lines, kind, m)
  BY <1>0, EventMade DEF Making
<1>4. pending' = Append(pending, e)
  BY <1>0, <1>1, <1>2, <1>3, EventMade DEF Say, Making
<1>5. e.seq = Len(Stream) + 1 /\ e.kind = kind /\ e.message = m /\ Carries(e)
  <2>1. Len(Stream) = Len(lines) + Len(pending)
    BY <1>0, <1>1 DEF Stream
  <2> QED
    BY <1>2, <1>3, <2>1 DEF Queued, Carries
<1>6. said' = [said EXCEPT ![run] = said[run] \cup {last + 1}] /\ last' = last + 1 /\ m.id = last + 1
  BY DEF Say, Making
<1>7. said \in [Runs -> SUBSET (1 .. MaxMessages)]
  BY DEF IInv, TypeOK
<1>8. said'[run] = said[run] \cup {last + 1} /\ \A r \in Runs \ {run} : said'[r] = said[r]
  BY <1>0, <1>6, <1>7
<1>9. said[run] \subseteq 1 .. last
  BY <1>0 DEF IInv, SaidRight
<1>10. Newest(Stream, e)
  BY <1>0, <1>2, <1>5, <1>6, <1>9 DEF Newest
<1>11. Tells(e, said'[run])
  BY <1>5, <1>6, <1>8, <1>2 DEF Tells
<1>12. Stream' = Append(Stream, e)
  <2>1. log'[run'].lines = lines
    BY <1>1
  <2>2. lines \o Append(pending, e) = Append(lines \o pending, e)
    BY <1>0
  <2> QED
    BY <1>1, <1>4, <2>1, <2>2 DEF Stream
<1>13. /\ Told(Append(Stream, e), said'[run])
       /\ Carried(Append(Stream, e)) = Carried(Stream) \cup {last + 1}
  <2>1. PICK more : more = said'[run]
    OBVIOUS
  <2>2. said[run] \subseteq more /\ Tells(e, more)
    BY <1>8, <1>11, <2>1
  <2>3. /\ Told(Append(Stream, e), more)
        /\ Carried(Append(Stream, e)) = Carried(Stream) \cup (IF Carries(e) THEN {e.message.id} ELSE {})
    BY <1>0, <1>10, <2>2, StreamGrows
  <2> QED
    BY <1>5, <1>6, <2>1, <2>3
<1>14. StreamRight'
  BY <1>0, <1>8, <1>12, <1>13 DEF StreamRight, Told
<1>15. LogsRight'
  <2> SUFFICES ASSUME NEW r \in Runs PROVE Beginning(log[r].lines, said'[r])
    BY DEF LogsRight
  <2>1. Beginning(log[r].lines, said[r])
    BY DEF IInv, LogsRight
  <2>2. CASE r # run
    BY <1>8, <2>1, <2>2
  <2>3. CASE r = run
    <3>1. Beginning(log[run].lines, said[run] \cup {last + 1})
      BY <1>0, <1>9, <2>1, <2>3, SaysMore
    <3> QED
      BY <1>8, <2>3, <3>1
  <2> QED
    BY <2>2, <2>3
<1>16. SaidRight'
  <2>0. run \in Nat /\ \A r \in Runs : r \in Nat
    BY <1>0 DEF Runs
  <2>1. ASSUME NEW r \in Runs PROVE said'[r] \subseteq 1 .. last + 1
    <3>1. said[r] \subseteq 1 .. last
      BY DEF IInv, SaidRight
    <3> QED
      BY <1>0, <1>8, <3>1
  <2>2. ASSUME NEW r \in Runs, r > run PROVE said'[r] = {} /\ log[r].lines = <<>>
    BY <1>0, <1>8, <2>0, <2>2 DEF IInv, SaidRight
  <2>3. ASSUME NEW r \in Runs, NEW q \in Runs, r < q, NEW a \in said'[r], NEW b \in said'[q]
        PROVE  a < b
    <3>1. CASE r # run /\ q # run
      BY <1>8, <2>3, <3>1 DEF IInv, SaidRight
    <3>2. CASE r = run
      <4>1. said'[q] = {}
        BY <2>0, <2>2, <2>3, <3>2
      <4> QED
        BY <2>3, <4>1
    <3>3. CASE q = run /\ r # run
      <4>1. a \in said[r] /\ said[r] \subseteq 1 .. last
        BY <1>8, <2>3, <3>3 DEF IInv, SaidRight
      <4>2. CASE b = last + 1
        BY <1>0, <4>1, <4>2
      <4>3. CASE b \in said[run]
        BY <2>3, <3>3, <4>1, <4>3 DEF IInv, SaidRight
      <4> QED
        BY <1>8, <2>3, <3>3, <4>2, <4>3
    <3> QED
      BY <3>1, <3>2, <3>3
  <2> QED
    BY <1>6, <2>1, <2>2, <2>3 DEF SaidRight
<1> QED
  BY <1>14, <1>15, <1>16 DEF EventsRight

\* A call that is announced is an event without a message.
LEMMA AnnounceEvents ==
  ASSUME IInv, AnnounceCall
  PROVE  EventsRight'
<1>0. /\ run \in Runs /\ Told(Stream, said[run]) /\ said[run] = Carried(Stream)
      /\ log[run].lines \in Seq(Events) /\ pending \in Seq(Events) /\ Head(todo) \in Calls
  <2>1. at = "tools"
    BY DEF AnnounceCall
  <2>2. said[run] = Carried(Stream)
    BY <2>1 DEF IInv, StreamRight
  <2>3. Head(todo) \in Calls
    BY <2>1, CallsLeft DEF IInv
  <2> QED
    BY <2>1, <2>2, <2>3, StreamTold
<1>1. PICK lines \in Seq(Events) : lines = log[run].lines
  BY <1>0
<1>2. PICK kind \in ConversationKinds : kind = "tool.call"
  BY DEF ConversationKinds
<1>3. PICK m \in Messages : m = ToolMessage(0, Head(todo))
  <2>1. 0 \in 0 .. MaxMessages
    BY TranscriptAssumption
  <2> QED
    BY <1>0, <2>1, MessagesMade DEF Making
<1>4. PICK e \in Events : e = Queued(pending, lines, kind, m)
  BY <1>0, EventMade
<1>5. pending' = Append(pending, e)
  BY <1>0, <1>1, <1>2, <1>3, <1>4, EventMade DEF AnnounceCall
<1>6. /\ e.seq = Len(Stream) + 1 /\ e.kind = "tool.call" /\ ~ Carries(e)
      /\ e.message.call \in Calls
  <2>1. Len(Stream) = Len(lines) + Len(pending)
    BY <1>0, <1>1 DEF Stream
  <2>2. m.call \in Calls
    BY <1>0, <1>3 DEF ToolMessage
  <2> QED
    BY <1>2, <1>4, <2>1, <2>2 DEF Queued, Carries
<1>7. Newest(Stream, e) /\ Tells(e, said[run])
  BY <1>2, <1>6 DEF Newest, Tells, ConversationKinds
<1>8. Stream' = Append(Stream, e)
  <2>1. log'[run'].lines = lines
    BY <1>1 DEF AnnounceCall
  <2>2. lines \o Append(pending, e) = Append(lines \o pending, e)
    BY <1>0
  <2> QED
    BY <1>1, <1>5, <2>1, <2>2 DEF Stream
<1>9. Told(Append(Stream, e), said[run]) /\ Carried(Append(Stream, e)) = Carried(Stream)
  <2>1. PICK ids : ids = said[run]
    OBVIOUS
  <2>2. /\ Told(Append(Stream, e), ids)
        /\ Carried(Append(Stream, e)) = Carried(Stream) \cup (IF Carries(e) THEN {e.message.id} ELSE {})
    BY <1>0, <1>7, <2>1, StreamGrows
  <2> QED
    BY <1>6, <2>1, <2>2
<1>10. StreamRight'
  BY <1>0, <1>8, <1>9 DEF StreamRight, Told, AnnounceCall
<1>11. LogsRight' /\ SaidRight'
  BY DEF IInv, LogsRight, SaidRight, AnnounceCall
<1> QED
  BY <1>10, <1>11 DEF EventsRight

\* The pending lines reach the file, all of them or some.
LEMMA FlushEvents ==
  ASSUME IInv, at \in {"flush", "closing"}, NEW n \in 0 .. Len(pending), NEW lines,
         lines = log[run].lines \o SubSeq(pending, 1, n)
  PROVE  Beginning(lines, said[run]) /\ (n = Len(pending) => lines = Stream)
<1>0. /\ run \in Runs /\ Told(Stream, said[run]) /\ NoHoles(Stream, said[run])
      /\ said[run] \subseteq Nat
      /\ log[run].lines \in Seq(Events) /\ pending \in Seq(Events)
  BY StreamTold
<1>1. PICK old \in Seq(Events) : old = log[run].lines
  BY <1>0
<1>2. PICK es : es = Stream
  OBVIOUS
<1>3. SubSeq(es, 1, Len(old) + n) = old \o SubSeq(pending, 1, n)
  <2>1. es = old \o pending
    BY <1>1, <1>2 DEF Stream
  <2> QED
    BY <1>0, <2>1
<1>4. Len(old) + n \in 0 .. Len(es)
  BY <1>0, <1>1, <1>2 DEF Stream
<1>5. PICK ids : ids = said[run]
  OBVIOUS
<1>6. Beginning(SubSeq(es, 1, Len(old) + n), ids)
  BY <1>0, <1>2, <1>4, <1>5, PrefixBegins
<1>7. n = Len(pending) => SubSeq(pending, 1, n) = pending
  BY <1>0
<1> QED
  BY <1>1, <1>3, <1>5, <1>6, <1>7 DEF Stream

\* Every step keeps what the files, the stream of the run and its history say of each other.
LEMMA NextEvents == IInv /\ [Next]_vars => EventsRight'
<1> SUFFICES ASSUME IInv, [Next]_vars PROVE EventsRight'
  OBVIOUS
<1>0. /\ TypeOK /\ (at # "down" => run \in Runs)
      /\ run \in Nat /\ \A r \in Runs : r \in Nat
  <2>1. TypeOK /\ (at # "down" => run \in Runs)
    BY DEF IInv, StreamRight
  <2>2. MaxRuns \in Nat /\ run \in 0 .. MaxRuns
    BY <2>1, TranscriptAssumption DEF TypeOK
  <2> QED
    BY <2>1, <2>2 DEF Runs
<1>a. last < MaxMessages =>
        /\ Making(UserMessage(last + 1), last + 1)
        /\ \A calls \in SUBSET Calls : Making(AssistantMessage(last + 1, calls), last + 1)
        /\ \A call \in Calls : Making(ToolMessage(last + 1, call), last + 1)
  BY <1>0, SaidMade
<1>1. CASE Begin
  <2>1. run' \in Runs /\ run' = run + 1 /\ at' = "restored"
    BY <1>1, BeginTyped DEF Begin, Runs
  <2>2. run' > run
    BY <1>0, <2>1
  <2>3. said[run'] = {} /\ log[run'].lines = <<>> /\ pending = <<>>
    BY <1>1, <2>1, <2>2 DEF IInv, SaidRight, StreamRight, Begin
  <2>4. Stream' = <<>>
    BY <1>1, <2>3 DEF Stream, Begin
  <2>5. Told(<<>>, {}) /\ Carried(<<>>) = {}
    BY DEF Told, Telling, InOrder, Numbered, Carried
  <2>6. StreamRight'
    BY <1>1, <2>1, <2>3, <2>4, <2>5 DEF StreamRight, Begin, Told
  <2>7. LogsRight'
    BY <1>1 DEF Begin, IInv, LogsRight
  <2>8. SaidRight'
    BY <1>0, <1>1, <2>1 DEF Begin, IInv, SaidRight
  <2> QED
    BY <2>6, <2>7, <2>8 DEF EventsRight
<1>2. CASE AppendToIndex
  BY <1>2, QuietEvents DEF AppendToIndex
<1>3. CASE SayTask
  <2>1. last < MaxMessages /\ Say(UserMessage(last + 1))
    BY <1>3 DEF SayTask, Say
  <2> QED
    BY <1>3, <1>a, <2>1, SayEvents DEF SayTask
<1>4. ASSUME NEW n \in 1 .. MaxCalls, RespondWithCalls(n) PROVE EventsRight'
  <2> DEFINE calls == [k \in 1 .. n |-> <<last + 1, k>>]
             m == AssistantMessage(last + 1, Range(calls))
  <2>1. last < MaxMessages /\ Say(m)
    BY <1>4 DEF RespondWithCalls, Say
  <2>2. Range(calls) \in SUBSET Calls
    <3>1. PICK c : c = calls
      OBVIOUS
    <3>2. c \in Seq(Calls) /\ c # <<>> /\ Range(c) \in SUBSET Calls
      BY <1>0, <2>1, <3>1, ResponseCalls
    <3> QED
      BY <3>1, <3>2
  <2>3. Making(m, last + 1)
    <3> HIDE DEF calls
    <3> QED
      BY <1>a, <2>1, <2>2
  <2> HIDE DEF m, calls
  <2>4. UNCHANGED <<run, log>> /\ at = "step" /\ at' = "tools"
    BY <1>4 DEF RespondWithCalls
  <2> QED
    BY <2>1, <2>3, <2>4, SayEvents
<1>5. CASE RespondFinally
  <2>1. last < MaxMessages /\ Say(AssistantMessage(last + 1, {}))
    BY <1>5 DEF RespondFinally, Say
  <2> QED
    BY <1>5, <1>a, <2>1, SayEvents DEF RespondFinally
<1>6. CASE Stop
  BY <1>6, QuietEvents DEF Stop
<1>7. CASE AnnounceCall
  BY <1>7, AnnounceEvents
<1>8. CASE PersistResult
  <2>1. last < MaxMessages /\ Say(ToolMessage(last + 1, Head(todo)))
    BY <1>8 DEF PersistResult, Say
  <2>2. Head(todo) \in Calls
    BY <1>8, CallsLeft DEF PersistResult, IInv
  <2> QED
    BY <1>8, <1>a, <2>1, <2>2, SayEvents DEF PersistResult
<1>9. CASE SayClarification \/ SayReview \/ SayVerification \/ SayRecovery
  <2>1. last < MaxMessages /\ Say(UserMessage(last + 1))
    BY <1>9 DEF SayClarification, SayReview, SayVerification, SayRecovery, Say
  <2> QED
    BY <1>9, <1>a, <2>1, SayEvents
       DEF SayClarification, SayReview, SayVerification, SayRecovery
<1>e. CASE EchoPlan
  BY <1>e, QuietEvents DEF EchoPlan
<1>b. AfterCall # "down"
  BY DEF AfterCall
<1>10. CASE SkipCompaction \/ SummaryFails \/ ApplyCompaction
  BY <1>10, <1>b, QuietEvents DEF SkipCompaction, SummaryFails, ApplyCompaction
<1>11. CASE StartCompaction \/ SummaryArrives \/ SaveFails
  BY <1>11, QuietEvents DEF StartCompaction, SummaryArrives, SaveFails
<1>12. CASE Flush
  <2>1. PICK n \in 0 .. Len(pending) : n = Len(pending)
    BY <1>0 DEF TypeOK
  <2>2. PICK lines : lines = log[run].lines \o SubSeq(pending, 1, n)
    OBVIOUS
  <2>3. Beginning(lines, said[run]) /\ lines = Stream
    BY <1>12, <2>1, <2>2, FlushEvents DEF Flush
  <2>4. /\ run \in Runs /\ log' = [log EXCEPT ![run].lines = Stream] /\ pending' = <<>>
        /\ UNCHANGED <<run, last, said>>
    BY <1>0, <1>12 DEF Flush, Stream
  <2>5. log'[run].lines = Stream /\ \A r \in Runs \ {run} : log'[r] = log[r]
    BY <1>0, <2>4 DEF TypeOK
  <2>6. CASE at = "closing"
    <3>1. at' = "down"
      BY <1>12, <2>6 DEF Flush, AfterFlush
    <3>2. run <= run
      BY <1>0
    <3> QED
      BY <2>3, <2>4, <2>5, <3>1, <3>2, OverEvents
  <2>7. CASE at = "flush"
    <3>1. at' = "step"
      BY <1>12, <2>7 DEF Flush, AfterFlush
    <3>2. Stream \in Seq(Events)
      BY <1>12, StreamTold DEF Flush, Told
    <3>3. Stream' = Stream
      <4>1. Stream' = Stream \o <<>>
        BY <2>4, <2>5 DEF Stream
      <4> QED
        BY <3>2, <4>1
    <3>4. StreamRight'
      BY <2>4, <2>7, <3>1, <3>3 DEF StreamRight, IInv
    <3>5. LogsRight'
      BY <2>3, <2>4, <2>5 DEF LogsRight, IInv
    <3>6. SaidRight'
      BY <1>0, <2>4, <2>5 DEF SaidRight, IInv
    <3> QED
      BY <3>4, <3>5, <3>6 DEF EventsRight
  <2> QED
    BY <1>12, <2>6, <2>7 DEF Flush
<1>13. CASE FlushFails
  <2>1. CASE at = "closing"
    BY <1>13, <2>1, OverEvents DEF FlushFails
  <2>2. CASE at = "flush"
    <3>1. /\ run \in Runs /\ at' = "closing" /\ pending' = <<>>
          /\ UNCHANGED <<run, log, last, said>>
      BY <1>0, <1>13, <2>2 DEF FlushFails
    <3>2. PICK n \in 0 .. Len(pending) : n = 0
      BY <1>0 DEF TypeOK
    <3>3. Stream' = log[run].lines /\ log[run].lines \in Seq(Events)
      BY <1>0, <3>1 DEF Stream, TypeOK
    <3>4. Told(Stream, said[run])
      BY <2>2, StreamTold
    <3>5. \A i \in DOMAIN log[run].lines : log[run].lines[i].kind \in ConversationKinds
      <4>1. PICK lines \in Seq(Events) : lines = log[run].lines
        BY <3>3
      <4>2. PICK es : es = lines \o pending
        OBVIOUS
      <4>3. \A i \in DOMAIN lines : i \in DOMAIN es /\ es[i] = lines[i]
        BY <1>0, <4>2 DEF TypeOK
      <4>4. \A i \in DOMAIN es : es[i].kind \in ConversationKinds
        BY <3>4, <4>1, <4>2 DEF Told, Stream
      <4> QED
        BY <4>1, <4>3, <4>4
    <3>6. Beginning(log[run].lines, said[run])
      BY <3>1 DEF IInv, LogsRight
    <3>7. StreamRight'
      BY <3>1, <3>3, <3>5, <3>6 DEF StreamRight, Beginning
    <3>8. LogsRight' /\ SaidRight'
      BY <3>1 DEF IInv, LogsRight, SaidRight
    <3> QED
      BY <3>7, <3>8 DEF EventsRight
  <2> QED
    BY <1>13, <2>1, <2>2 DEF FlushFails
<1>14. CASE Revert
  <2> DEFINE note == [seq |-> 0, kind |-> "recovery.triggered", message |-> UserMessage(0)]
  <2>1. PICK r \in Runs : r = Last(RunIds) /\ r <= run
    <3>1. RunIds \in Seq(Runs) /\ RunIds # <<>>
      BY <1>0, <1>14 DEF Revert, RunIds, TypeOK
    <3>2. Len(RunIds) \in DOMAIN RunIds /\ RunIds[Len(RunIds)] \in Runs
      BY <3>1
    <3> QED
      BY <3>2 DEF Last, IInv, IndexRight
  <2>2. note \in Events
    <3>1. 0 \in 0 .. MaxMessages
      BY TranscriptAssumption
    <3>2. UserMessage(0) \in Messages
      BY <3>1, MessagesMade DEF Making
    <3> QED
      BY <3>2 DEF Events, Kinds
  <2>3. PICK e \in Events : e = note /\ e.kind = "recovery.triggered"
    BY <2>2
  <2>4. log' = [log EXCEPT ![r].lines = Append(log[r].lines, e)]
    BY <1>14, <2>1, <2>3 DEF Revert
  <2>5. /\ log'[r].lines = Append(log[r].lines, e)
        /\ \A q \in Runs \ {r} : log'[q] = log[q]
    BY <1>0, <2>1, <2>4 DEF TypeOK
  <2>6. Beginning(log[r].lines, said[r])
    BY DEF IInv, LogsRight
  <2>7. PICK es, ids : es = log[r].lines /\ ids = said[r]
    OBVIOUS
  <2>8. Beginning(Append(es, e), ids)
    BY <2>3, <2>6, <2>7, NoteBegins
  <2>9. at' = "down" /\ pending' = <<>> /\ UNCHANGED <<run, last, said>>
    BY <1>14 DEF Revert, IInv, StreamRight
  <2> QED
    BY <2>1, <2>5, <2>7, <2>8, <2>9, OverEvents
<1>15. CASE Crash \/ CrashInIndex \/ CrashInSummary
  BY <1>15, OverEvents DEF Crash, CrashInIndex, CrashInSummary, CrashLosesMemory
<1>16. CASE CrashInFlush
  <2>1. PICK n \in 0 .. Len(pending), torn \in BOOLEAN :
          log' = [log EXCEPT ![run] = [lines |-> @.lines \o SubSeq(pending, 1, n), torn |-> torn]]
    BY <1>16 DEF CrashInFlush
  <2>2. PICK lines : lines = log[run].lines \o SubSeq(pending, 1, n)
    OBVIOUS
  <2>3. Beginning(lines, said[run])
    BY <1>16, <2>2, FlushEvents DEF CrashInFlush
  <2>4. run \in Runs /\ run <= run
    BY <1>0, <1>16 DEF CrashInFlush
  <2>5. log'[run].lines = lines /\ \A q \in Runs \ {run} : log'[q] = log[q]
    BY <1>0, <2>1, <2>2, <2>4 DEF TypeOK
  <2>6. at' = "down" /\ pending' = <<>> /\ UNCHANGED <<run, last, said>>
    BY <1>16 DEF CrashInFlush, CrashLosesMemory
  <2> QED
    BY <2>3, <2>4, <2>5, <2>6, OverEvents
<1>17. CASE UNCHANGED vars
  <2>1. Stream' = Stream
    BY <1>17 DEF vars, Stream
  <2> QED
    BY <1>17, <2>1 DEF vars, IInv, EventsRight, StreamRight, LogsRight, SaidRight
<1> QED
  BY <1>1, <1>2, <1>3, <1>4, <1>5, <1>6, <1>7, <1>8, <1>9, <1>e, <1>10, <1>11, <1>12, <1>13,
     <1>14, <1>15, <1>16, <1>17 DEF Next

-----------------------------------------------------------------------------
(* The index, the window and the calls that are left.                      *)

\* Every step keeps the runs of the index in the order in which they began.
LEMMA NextIndex == IInv /\ [Next]_vars => IndexRight'
<1> SUFFICES ASSUME IInv, [Next]_vars PROVE IndexRight'
  OBVIOUS
<1>0. IndexRight /\ RunIds \in Seq(Runs) /\ run \in Nat /\ \A r \in Runs : r \in Nat
  <2>1. MaxRuns \in Nat /\ run \in 0 .. MaxRuns
    BY TranscriptAssumption DEF IInv, TypeOK
  <2>2. IndexRight /\ RunIds \in Seq(Runs)
    BY DEF IInv, TypeOK, RunIds
  <2> QED
    BY <2>1, <2>2 DEF Runs
<1>1. ASSUME UNCHANGED <<run, index>>, at' # "restored" PROVE IndexRight'
  BY <1>0, <1>1 DEF IndexRight, RunIds
<1>2. CASE Begin
  BY <1>0, <1>2 DEF Begin, IndexRight, RunIds
<1>3. CASE AppendToIndex
  <2>1. /\ RunIds' = Append(RunIds, run) /\ run' = run /\ at' = "opened" /\ at = "restored"
    BY <1>3 DEF AppendToIndex, RunIds, WholeFile
  <2> DEFINE all == Append(RunIds, run)
  <2>2. /\ DOMAIN all = 1 .. Len(RunIds) + 1 /\ all[Len(RunIds) + 1] = run
        /\ \A i \in 1 .. Len(RunIds) : all[i] = RunIds[i] /\ i \in DOMAIN RunIds /\ RunIds[i] < run
    BY <1>0, <2>1 DEF IndexRight
  <2> HIDE DEF all
  <2>3. ASSUME NEW i \in DOMAIN all PROVE all[i] <= run
    <3>1. CASE i \in 1 .. Len(RunIds)
      <4>1. RunIds[i] \in Nat
        BY <1>0, <3>1
      <4> QED
        BY <1>0, <2>2, <3>1, <4>1
    <3>2. CASE i = Len(RunIds) + 1
      BY <1>0, <2>2, <3>2
    <3> QED
      BY <1>0, <2>2, <2>3, <3>1, <3>2
  <2>4. ASSUME NEW i \in DOMAIN all, NEW j \in DOMAIN all, i < j PROVE all[i] < all[j]
    <3>1. i \in 1 .. Len(RunIds)
      BY <1>0, <2>2, <2>4
    <3>2. CASE j \in 1 .. Len(RunIds)
      BY <1>0, <2>2, <2>4, <3>1, <3>2 DEF IndexRight
    <3>3. CASE j = Len(RunIds) + 1
      BY <2>2, <3>1, <3>3
    <3> QED
      BY <1>0, <2>2, <2>4, <3>2, <3>3
  <2> QED
    BY <2>1, <2>3, <2>4 DEF IndexRight, all
<1>4. CASE CrashInIndex
  <2>1. RunIds' = <<>>
    BY <1>4 DEF CrashInIndex, OpenedFile, RunIds
  <2> QED
    BY <2>1 DEF IndexRight
<1>5. AfterCall # "restored" /\ AfterFlush # "restored"
  BY DEF AfterCall, AfterFlush
<1>6. CASE \/ SayTask \/ SayClarification \/ (\E n \in 1 .. MaxCalls : RespondWithCalls(n))
           \/ RespondFinally \/ SayReview \/ AnnounceCall \/ PersistResult
           \/ SayVerification \/ SayRecovery \/ EchoPlan
  BY <1>1, <1>6 DEF SayTask, SayClarification, RespondWithCalls, RespondFinally, SayReview,
     AnnounceCall, PersistResult, SayVerification, SayRecovery, EchoPlan
<1>7. CASE \/ Stop \/ SkipCompaction \/ StartCompaction \/ SummaryFails
           \/ SummaryArrives \/ ApplyCompaction \/ SaveFails
  BY <1>1, <1>5, <1>7 DEF Stop, SkipCompaction, StartCompaction, SummaryFails,
     SummaryArrives, ApplyCompaction, SaveFails
<1>8. CASE Flush \/ FlushFails \/ Revert
  BY <1>1, <1>5, <1>8 DEF Flush, FlushFails, Revert
<1>9. CASE Crash \/ CrashInSummary \/ CrashInFlush
  BY <1>1, <1>9 DEF Crash, CrashInSummary, CrashInFlush, CrashLosesMemory
<1>10. CASE UNCHANGED vars
  BY <1>0, <1>10 DEF vars, IndexRight, RunIds
<1> QED
  BY <1>2, <1>3, <1>4, <1>6, <1>7, <1>8, <1>9, <1>10 DEF Next

\* What is said comes after all there is in the window.
LEMMA SayWindow ==
  ASSUME IInv, last < MaxMessages, NEW m, Making(m, last + 1), Say(m)
  PROVE  WindowRight'
<1>1. PICK ms \in Seq(Messages) : ms = messages
  BY DEF IInv, TypeOK
<1>2. Sorted(ms) /\ Ids(ms) \subseteq 1 .. last /\ last \in Nat
  BY <1>1, TranscriptAssumption DEF IInv, WindowRight, TypeOK
<1>3. m \in Messages /\ m.id = last + 1
  BY DEF Making
<1>4. Follows(ms, m.id)
  <2> SUFFICES ASSUME NEW i \in DOMAIN ms, ms[i].id # 0 PROVE ms[i].id < last + 1
    BY <1>3 DEF Follows
  <2>1. ms[i].id \in 1 .. last
    BY <1>2 DEF Ids
  <2> QED
    BY <1>2, <2>1
<1>5. /\ Ids(Append(ms, m)) = Ids(ms) \cup ({m.id} \ {0})
      /\ Sorted(ms) /\ Follows(ms, m.id) => Sorted(Append(ms, m))
  BY <1>3, MessageTaken
<1>6. messages' = Append(ms, m) /\ last' = last + 1
  BY <1>1 DEF Say
<1>7. Ids(Append(ms, m)) \subseteq 1 .. last + 1
  BY <1>2, <1>3, <1>5
<1> QED
  BY <1>2, <1>4, <1>5, <1>6, <1>7 DEF WindowRight

\* Every step keeps the window in the order of saying.
LEMMA NextWindow == IInv /\ [Next]_vars => WindowRight'
<1> SUFFICES ASSUME IInv, [Next]_vars PROVE WindowRight'
  OBVIOUS
<1>0. WindowRight /\ TypeOK /\ Retained \in Nat
  BY TranscriptAssumption DEF IInv
<1>a. last < MaxMessages =>
        /\ Making(UserMessage(last + 1), last + 1)
        /\ \A calls \in SUBSET Calls : Making(AssistantMessage(last + 1, calls), last + 1)
        /\ \A call \in Calls : Making(ToolMessage(last + 1, call), last + 1)
  BY <1>0, SaidMade
<1>1. ASSUME UNCHANGED <<messages, last>> PROVE WindowRight'
  BY <1>0, <1>1 DEF WindowRight
<1>2. CASE Begin
  BY <1>2, BeginTyped DEF WindowRight, Begin
<1>3. CASE SayTask \/ SayClarification \/ SayReview \/ SayVerification \/ SayRecovery
  <2>1. last < MaxMessages /\ Say(UserMessage(last + 1))
    BY <1>3 DEF SayTask, SayClarification, SayReview, SayVerification, SayRecovery, Say
  <2> QED
    BY <1>a, <2>1, SayWindow
<1>4. ASSUME NEW n \in 1 .. MaxCalls, RespondWithCalls(n) PROVE WindowRight'
  <2> DEFINE calls == [k \in 1 .. n |-> <<last + 1, k>>]
             m == AssistantMessage(last + 1, Range(calls))
  <2>1. last < MaxMessages /\ Say(m)
    BY <1>4 DEF RespondWithCalls, Say
  <2>2. Range(calls) \in SUBSET Calls
    <3>1. PICK c : c = calls
      OBVIOUS
    <3>2. c \in Seq(Calls) /\ c # <<>> /\ Range(c) \in SUBSET Calls
      BY <1>0, <2>1, <3>1, ResponseCalls
    <3> QED
      BY <3>1, <3>2
  <2>3. Making(m, last + 1)
    <3> HIDE DEF calls
    <3> QED
      BY <1>a, <2>1, <2>2
  <2> HIDE DEF m, calls
  <2> QED
    BY <2>1, <2>3, SayWindow
<1>5. CASE RespondFinally
  <2>1. last < MaxMessages /\ Say(AssistantMessage(last + 1, {}))
    BY <1>5 DEF RespondFinally, Say
  <2> QED
    BY <1>a, <2>1, SayWindow
<1>6. CASE PersistResult
  <2>1. last < MaxMessages /\ Say(ToolMessage(last + 1, Head(todo)))
    BY <1>6 DEF PersistResult, Say
  <2>2. Head(todo) \in Calls
    BY <1>6, CallsLeft DEF PersistResult, IInv
  <2> QED
    BY <1>a, <2>1, <2>2, SayWindow
<1>7. CASE ApplyCompaction
  <2>1. PICK ms \in Seq(Messages) : ms = messages
    BY <1>0 DEF TypeOK
  <2> DEFINE from == IF Len(ms) > Retained THEN Len(ms) - Retained ELSE 0
  <2>2. Piece(ms, Window(ms, Retained), from)
    BY <1>0, WindowIs
  <2>3. from \in 0 .. Len(ms)
    BY <1>0
  <2> HIDE DEF from
  <2>4. PICK part : part = Window(ms, Retained)
    OBVIOUS
  <2>5. Ids(part) \subseteq Ids(ms) /\ (Sorted(ms) => Sorted(part))
    BY <2>2, <2>3, <2>4, PieceKeeps
  <2>6. messages' = part /\ last' = last
    BY <1>7, <2>1, <2>4 DEF ApplyCompaction
  <2> QED
    BY <1>0, <2>1, <2>5, <2>6 DEF WindowRight
<1>8. CASE CrashLosesMemory
  <2>1. messages' = <<>>
    BY <1>8 DEF CrashLosesMemory
  <2> QED
    BY <2>1 DEF WindowRight, Sorted, Ids
<1>9. CASE \/ AppendToIndex \/ Stop \/ AnnounceCall \/ SkipCompaction \/ StartCompaction
           \/ SummaryFails \/ SummaryArrives \/ SaveFails \/ Flush \/ FlushFails \/ Revert
  BY <1>1, <1>9 DEF AppendToIndex, Stop, AnnounceCall, SkipCompaction, StartCompaction,
     SummaryFails, SummaryArrives, SaveFails, Flush, FlushFails, Revert
<1>10. CASE UNCHANGED vars
  BY <1>1, <1>10 DEF vars
<1>11. CASE EchoPlan
  <2>1. PICK ms \in Seq(Messages) : ms = messages
    BY <1>0 DEF TypeOK
  <2>2. PICK m : m = UserMessage(0)
    OBVIOUS
  <2>3. m.id = 0 /\ messages' = Append(ms, m) /\ last' = last
    BY <1>11, <2>1, <2>2 DEF EchoPlan, UserMessage
  <2>4. \A i \in DOMAIN Append(ms, m) :
          \/ i \in DOMAIN ms /\ Append(ms, m)[i] = ms[i]
          \/ Append(ms, m)[i].id = 0
    BY <2>1, <2>3
  <2>5. Ids(Append(ms, m)) \subseteq Ids(ms)
    BY <2>4 DEF Ids
  <2>6. Sorted(ms)
    BY <1>0, <2>1 DEF WindowRight
  <2>7. Sorted(Append(ms, m))
    BY <2>4, <2>6 DEF Sorted
  <2> QED
    BY <1>0, <2>1, <2>3, <2>5, <2>7 DEF WindowRight
<1> QED
  BY <1>2, <1>3, <1>4, <1>5, <1>6, <1>7, <1>8, <1>9, <1>10, <1>11
     DEF Next, Crash, CrashInIndex, CrashInSummary, CrashInFlush

\* Every step keeps the calls to be handled true calls, and some there when one is handled.
LEMMA NextTodo == IInv /\ [Next]_vars => TodoRight'
<1> SUFFICES ASSUME IInv, [Next]_vars PROVE TodoRight'
  OBVIOUS
<1>0. TypeOK /\ TodoRight
  BY DEF IInv
<1>1. ASSUME NEW n \in 1 .. MaxCalls, RespondWithCalls(n) PROVE TodoRight'
  <2>1. last < MaxMessages /\ todo' = [k \in 1 .. n |-> <<last + 1, k>>]
    BY <1>1 DEF RespondWithCalls, Say
  <2> QED
    BY <1>0, <2>1, ResponseCalls DEF TodoRight
<1>2. AfterCall = "tools" => todo # <<>>
  BY DEF AfterCall
<1>3. AfterFlush \notin {"tools", "call"} /\ AfterCall # "call"
  BY DEF AfterFlush, AfterCall
<1>4. CASE AnnounceCall \/ SkipCompaction \/ SummaryFails \/ ApplyCompaction
  BY <1>0, <1>2, <1>3, <1>4
     DEF AnnounceCall, SkipCompaction, SummaryFails, ApplyCompaction, TodoRight
<1>5. CASE \/ Begin \/ AppendToIndex \/ SayTask \/ SayClarification \/ RespondFinally
           \/ SayReview \/ Stop \/ PersistResult \/ SayVerification \/ SayRecovery
           \/ EchoPlan \/ StartCompaction \/ SummaryArrives \/ SaveFails
  BY <1>5 DEF Begin, AppendToIndex, SayTask, SayClarification, RespondFinally, SayReview, Stop,
     PersistResult, SayVerification, SayRecovery, EchoPlan, StartCompaction, SummaryArrives,
     SaveFails, TodoRight
<1>6. CASE \/ Flush \/ FlushFails \/ Revert \/ Crash \/ CrashInIndex \/ CrashInSummary
           \/ CrashInFlush
  BY <1>3, <1>6 DEF Flush, FlushFails, Revert, Crash, CrashInIndex, CrashInSummary,
     CrashInFlush, CrashLosesMemory, TodoRight
<1>7. CASE UNCHANGED vars
  BY <1>0, <1>7 DEF vars, TodoRight
<1> QED
  BY <1>1, <1>4, <1>5, <1>6, <1>7 DEF Next

-----------------------------------------------------------------------------
(* The theorems.                                                           *)

\* The invariant holds of a session nothing was said in.
LEMMA InitInv == Init => IInv
<1> SUFFICES ASSUME Init PROVE IInv
  OBVIOUS
<1>1. {MaxMessages, MaxRuns, MaxFaults, MaxCrashes} \subseteq Nat
  BY TranscriptAssumption
<1>2. TypeOK
  <2>1. /\ <<>> \in Seq(Messages) /\ <<>> \in Seq(Calls) /\ <<>> \in Seq(Events)
        /\ <<>> \in Seq(Runs) /\ <<>> \in Seq(SUBSET (1 .. MaxMessages))
    OBVIOUS
  <2>2. memo \in [summary: SUBSET (1 .. MaxMessages), count: Nat, blocked: Nat]
    BY DEF Init, NoMemo
  <2>3. index \in [state: FileStates, content: Seq(Runs)]
    BY <2>1 DEF Init, AbsentFile, FileStates
  <2> QED
    BY <1>1, <2>1, <2>2, <2>3 DEF Init, TypeOK, Places
<1>3. LogsRight
  <2>1. Beginning(<<>>, {})
    BY DEF Beginning, Telling, InOrder, Numbered, NoHoles
  <2> QED
    BY <2>1 DEF LogsRight, Init
<1>4. StreamRight /\ TodoRight
  BY DEF Init, StreamRight, TodoRight
<1>5. SaidRight
  BY DEF Init, SaidRight
<1>6. IndexRight
  BY DEF Init, IndexRight, RunIds, AbsentFile
<1>7. WindowRight
  BY DEF Init, WindowRight, Sorted, Ids
<1> QED
  BY <1>2, <1>3, <1>4, <1>5, <1>6, <1>7 DEF IInv

\* The inductive invariant holds of every behaviour of a session.
THEOREM Invariance == Spec => []IInv
<1>1. IInv /\ [Next]_vars => IInv'
  BY NextTyped, NextEvents, NextIndex, NextWindow, NextTodo DEF IInv, EventsRight
<1> QED
  BY InitInv, <1>1, PTL DEF Spec

\* The variables have their types: whatever is rebuilt from torn, empty or
\* missing files is a window again.
THEOREM TypesRight == Spec => []TypeOK
<1>1. IInv => TypeOK
  BY DEF IInv
<1> QED
  BY <1>1, Invariance, PTL

\* What a later run reads of an earlier one is the beginning of what that one
\* said, whatever failed or died (RunStore.flush, readRunEvents).
THEOREM LogsHaveNoHoles == Spec => []LogHasNoHoles
<1>1. IInv => LogHasNoHoles
  <2> SUFFICES ASSUME IInv, NEW r \in Runs
               PROVE  LET read == Ids(Rebuild(ReadRunEvents(r)))
                      IN  /\ read \subseteq said[r]
                          /\ \A i \in said[r], j \in read : i < j => i \in read
    BY DEF LogHasNoHoles
  <2>1. PICK es : es = ReadRunEvents(r)
    OBVIOUS
  <2>2. es \in Seq(Events) /\ Telling(es, said[r]) /\ InOrder(es) /\ NoHoles(es, said[r])
    <3>1. CASE log[r].torn
      <4>1. es = <<>>
        BY <2>1, <3>1 DEF ReadRunEvents
      <4> QED
        BY <4>1 DEF Telling, InOrder, NoHoles, Carried
    <3>2. CASE ~ log[r].torn
      <4>1. es = log[r].lines
        BY <2>1, <3>2 DEF ReadRunEvents
      <4> QED
        BY <4>1 DEF IInv, LogsRight, Beginning
    <3> QED
      BY <3>1, <3>2
  <2>3. Ids(Rebuild(es)) = Carried(es) \ {0}
    <3>1. Rebuilding(Rebuild(es), es)
      BY <2>2, RebuildIs
    <3> QED
      BY <3>1 DEF Rebuilding
  <2>4. Carried(es) \subseteq said[r] /\ said[r] \subseteq 1 .. last
    BY <2>2 DEF Carried, Telling, Tells, IInv, SaidRight
  <2>5. Carried(es) \ {0} = Carried(es)
    BY <2>4
  <2> QED
    BY <2>1, <2>2, <2>3, <2>4, <2>5 DEF NoHoles
<1> QED
  BY <1>1, Invariance, PTL

\* A window, grown or restored from the files of any runs, is in the order of
\* saying (loadSessionConversationEvents, rebuildConversationFromEvents).
THEOREM WindowsAreInOrder == Spec => []WindowIsInOrder
<1>1. IInv => WindowIsInOrder
  BY DEF IInv, WindowRight, Sorted, WindowIsInOrder
<1> QED
  BY <1>1, Invariance, PTL

\* No step of a run that lasts loses a message: what a compaction cuts is in
\* the summary it saved (buildCompactionSummarizeInput, applyCompaction).
THEOREM RunsForgetNothing == Spec => RunForgetsNothing
<1>1. ASSUME IInv, [Next]_vars, at # "down", at' # "down" PROVE Known \subseteq Known'
  <2>0. messages \in Seq(Messages) /\ TypeOK
    BY <1>1 DEF IInv, TypeOK
  <2>1. ASSUME UNCHANGED <<messages, memo>> PROVE Known \subseteq Known'
    BY <2>1 DEF Known
  <2>2. ASSUME NEW m, Making(m, last + 1), Say(m), UNCHANGED memo PROVE Known \subseteq Known'
    <3>1. messages' = Append(messages, m)
      BY <2>2 DEF Say
    <3>2. Ids(Append(messages, m)) = Ids(messages) \cup ({m.id} \ {0})
      BY <2>0, <2>2, MessageTaken DEF Making
    <3> QED
      BY <2>2, <3>1, <3>2 DEF Known
  <2>a. last < MaxMessages =>
          /\ Making(UserMessage(last + 1), last + 1)
          /\ \A calls \in SUBSET Calls : Making(AssistantMessage(last + 1, calls), last + 1)
          /\ \A call \in Calls : Making(ToolMessage(last + 1, call), last + 1)
    BY <2>0, SaidMade
  <2>3. CASE SayTask \/ SayClarification \/ SayReview \/ SayVerification \/ SayRecovery
    <3>1. last < MaxMessages /\ Say(UserMessage(last + 1)) /\ UNCHANGED memo
      BY <2>3 DEF SayTask, SayClarification, SayReview, SayVerification, SayRecovery, Say
    <3> QED
      BY <2>2, <2>a, <3>1
  <2>4. ASSUME NEW n \in 1 .. MaxCalls, RespondWithCalls(n) PROVE Known \subseteq Known'
    <3> DEFINE calls == [k \in 1 .. n |-> <<last + 1, k>>]
               m == AssistantMessage(last + 1, Range(calls))
    <3>1. last < MaxMessages /\ Say(m) /\ UNCHANGED memo
      BY <2>4 DEF RespondWithCalls, Say
    <3>2. Range(calls) \in SUBSET Calls
      <4>1. PICK c : c = calls
        OBVIOUS
      <4>2. c \in Seq(Calls) /\ c # <<>> /\ Range(c) \in SUBSET Calls
        BY <2>0, <3>1, <4>1, ResponseCalls
      <4> QED
        BY <4>1, <4>2
    <3>3. Making(m, last + 1)
      <4> HIDE DEF calls
      <4> QED
        BY <2>a, <3>1, <3>2
    <3> HIDE DEF m, calls
    <3> QED
      BY <2>2, <3>1, <3>3
  <2>5. CASE RespondFinally
    <3>1. /\ last < MaxMessages /\ Say(AssistantMessage(last + 1, {})) /\ UNCHANGED memo
      BY <2>5 DEF RespondFinally, Say
    <3> QED
      BY <2>2, <2>a, <3>1
  <2>6. CASE PersistResult
    <3>1. last < MaxMessages /\ Say(ToolMessage(last + 1, Head(todo))) /\ UNCHANGED memo
      BY <2>6 DEF PersistResult, Say
    <3>2. Head(todo) \in Calls
      BY <1>1, <2>6, CallsLeft DEF PersistResult, IInv
    <3> QED
      BY <2>2, <2>a, <3>1, <3>2
  <2>7. CASE ApplyCompaction
    <3>1. Ids(messages) \subseteq Evicted \cup Ids(Window(messages, Retained))
      BY <2>0, EvictedIs
    <3>2. messages' = Window(messages, Retained) /\ memo'.summary = memo.summary \cup Evicted
      BY <2>7 DEF ApplyCompaction
    <3> QED
      BY <3>1, <3>2 DEF Known
  <2>8. CASE SummaryFails
    <3>1. messages' = messages /\ memo'.summary = memo.summary
      BY <2>0, <2>8 DEF SummaryFails, TypeOK
    <3> QED
      BY <3>1 DEF Known
  <2>9. CASE \/ AppendToIndex \/ Stop \/ AnnounceCall \/ SkipCompaction \/ StartCompaction
             \/ SummaryArrives \/ SaveFails \/ Flush \/ FlushFails
    BY <2>1, <2>9 DEF AppendToIndex, Stop, AnnounceCall, SkipCompaction, StartCompaction,
       SummaryArrives, SaveFails, Flush, FlushFails
  <2>10. CASE Begin \/ Revert \/ Crash \/ CrashInIndex \/ CrashInSummary \/ CrashInFlush
    BY <1>1, <2>10 DEF Begin, Revert, Crash, CrashInIndex, CrashInSummary, CrashInFlush,
       CrashLosesMemory
  <2>11. CASE UNCHANGED vars
    BY <2>1, <2>11 DEF vars
  <2>12. CASE EchoPlan
    <3>1. PICK ms \in Seq(Messages) : ms = messages
      BY <2>0
    <3>2. messages' = Append(ms, UserMessage(0)) /\ memo' = memo
      BY <2>12, <3>1 DEF EchoPlan
    <3>3. \A i \in DOMAIN ms :
            i \in DOMAIN Append(ms, UserMessage(0)) /\ Append(ms, UserMessage(0))[i] = ms[i]
      BY <3>1
    <3>4. Ids(ms) \subseteq Ids(Append(ms, UserMessage(0)))
      BY <3>3 DEF Ids
    <3> QED
      BY <3>1, <3>2, <3>4 DEF Known
  <2> QED
    BY <1>1, <2>3, <2>4, <2>5, <2>6, <2>7, <2>8, <2>9, <2>10, <2>11, <2>12 DEF Next
<1>2. IInv /\ [Next]_vars => [at # "down" /\ at' # "down" => Known \subseteq Known']_vars
  BY <1>1
<1> QED
  BY <1>2, Invariance, PTL DEF Spec, RunForgetsNothing

-----------------------------------------------------------------------------
(* ModelCalls.  The inductive invariant.                                   *)

\* What stands in a window or goes out on the wire: only a response has calls, and only a
\* result names one.
WireRoles == {"user", "assistant", "tool", "system"}
WireMessages == [role: WireRoles, calls: SUBSET ToolCallIds, id: ToolCallIds \cup {NoId},
                 text: BOOLEAN]
Plain(m) == (m.role # "assistant" => m.calls = {}) /\ (m.role # "tool" => m.id = NoId)
Wire == {m \in WireMessages : Plain(m)}

WindowIsPlain == \A i \in DOMAIN window : Plain(window[i])

\* An answer that is read is the next one, and a delay is followed by another attempt.
CallsRight ==
  /\ waitsFor \in {"streaming", "reading"} => answers < MaxRequests
  /\ waitsFor = "backoff" => attempt < MaxAttempts
  /\ acc \in [text: BOOLEAN, parts: Seq(Nat)]

CallsInv == CallsTypeOK /\ WindowIsPlain /\ CallsRight

-----------------------------------------------------------------------------
(* The folds of ModelCalls.                                                *)

KeepClosed(seq, n, U) == \A k \in 1..n : \A x \in U : KeepResult(x, seq[k]) \in U
KeepPasses(seq, n, U, c) ==
  c \in [0..n -> U] /\ \A k \in 1..n : c[k] = KeepResult(c[k-1], seq[k])

\* The first pass looks at one message after the other.
LEMMA KeepRuns ==
  ASSUME NEW seq, NEW n \in Nat, DOMAIN seq = 1..n,
         NEW U, NEW base \in U, KeepClosed(seq, n, U)
  PROVE  \E c : KeepPasses(seq, n, U, c) /\ c[0] = base /\ c[n] = FoldLeft(KeepResult, base, seq)
<1> DEFINE Op(x, y) == KeepResult(x, y)
           step == [k \in 1..n |-> [x \in U |-> Op(x, seq[k])]]
           h == CHOOSE g : g = [s \in SUBSET (1..n) |->
                  IF s = {} THEN base ELSE Op(g[s \ {Max(s)}], seq[Max(s)])]
<1>1. FoldLeft(KeepResult, base, seq) = h[1..n]
  BY DEF FoldLeft, MapThenFoldSet
<1>2. \A k \in 1..n : \A x \in U : Op(x, seq[k]) \in U
  BY DEF KeepClosed
<1> HIDE DEF Op
<1>3. step \in [1..n -> [U -> U]]
  BY <1>2
<1>4. PICK g : Folds(g, n, U, base, step)
  <2> HIDE DEF step
  <2> QED
    BY <1>3, FoldExists
<1>5. ASSUME NEW s \in SUBSET (1..n), s # {}
      PROVE  Max(s) \in 1..n /\ s \ {Max(s)} \in SUBSET (1..n)
  BY <1>5, HasLargest
<1>6. g = [s \in SUBSET (1..n) |-> IF s = {} THEN base ELSE Op(g[s \ {Max(s)}], seq[Max(s)])]
  BY <1>4, <1>5 DEF Folds
<1>7. h = [s \in SUBSET (1..n) |-> IF s = {} THEN base ELSE Op(h[s \ {Max(s)}], seq[Max(s)])]
  BY <1>6
<1> HIDE DEF h
<1>8. FoldsWithin(h, n, U, base, step)
  BY <1>5, <1>7 DEF FoldsWithin
<1>9. PICK c : Passes(c, n, U, base, step) /\ c[n] = h[1..n]
  <2>1. Steps(step, n, U)
    BY <1>3 DEF Steps
  <2> HIDE DEF step
  <2>2. Passed(h, n, U, base, step)
    BY <1>8, <2>1, FoldPasses
  <2> QED
    BY <2>2 DEF Passed
<1>10. c \in [0..n -> U] /\ c[0] = base /\ \A k \in 1..n : c[k] = step[k][c[k-1]]
  BY <1>9 DEF Passes
<1>11. \A k \in 1..n : c[k-1] \in U /\ step[k][c[k-1]] = Op(c[k-1], seq[k])
  BY <1>10
<1>12. \A k \in 1..n : c[k] = Op(c[k-1], seq[k])
  BY <1>10, <1>11
<1> QED
  BY <1>1, <1>9, <1>10, <1>12 DEF Op, KeepPasses

VisitAll(ms, base, seq) == FoldLeft(LAMBDA state, i : Visit(ms, state, i), base, seq)
VisitClosed(ms, seq, n, U) == \A k \in 1..n : \A x \in U : Visit(ms, x, seq[k]) \in U
VisitPasses(ms, seq, n, U, c) ==
  c \in [0..n -> U] /\ \A k \in 1..n : c[k] = Visit(ms, c[k-1], seq[k])

\* The second pass looks at one place after the other.
LEMMA VisitRuns ==
  ASSUME NEW ms, NEW seq, NEW n \in Nat, DOMAIN seq = 1..n,
         NEW U, NEW base \in U, VisitClosed(ms, seq, n, U)
  PROVE  \E c : VisitPasses(ms, seq, n, U, c) /\ c[0] = base /\ c[n] = VisitAll(ms, base, seq)
<1> DEFINE Op(x, y) == Visit(ms, x, y)
           step == [k \in 1..n |-> [x \in U |-> Op(x, seq[k])]]
           h == CHOOSE g : g = [s \in SUBSET (1..n) |->
                  IF s = {} THEN base ELSE Op(g[s \ {Max(s)}], seq[Max(s)])]
<1>1. VisitAll(ms, base, seq) = h[1..n]
  BY DEF VisitAll, FoldLeft, MapThenFoldSet
<1>2. \A k \in 1..n : \A x \in U : Op(x, seq[k]) \in U
  BY DEF VisitClosed
<1> HIDE DEF Op
<1>3. step \in [1..n -> [U -> U]]
  BY <1>2
<1>4. PICK g : Folds(g, n, U, base, step)
  <2> HIDE DEF step
  <2> QED
    BY <1>3, FoldExists
<1>5. ASSUME NEW s \in SUBSET (1..n), s # {}
      PROVE  Max(s) \in 1..n /\ s \ {Max(s)} \in SUBSET (1..n)
  BY <1>5, HasLargest
<1>6. g = [s \in SUBSET (1..n) |-> IF s = {} THEN base ELSE Op(g[s \ {Max(s)}], seq[Max(s)])]
  BY <1>4, <1>5 DEF Folds
<1>7. h = [s \in SUBSET (1..n) |-> IF s = {} THEN base ELSE Op(h[s \ {Max(s)}], seq[Max(s)])]
  BY <1>6
<1> HIDE DEF h
<1>8. FoldsWithin(h, n, U, base, step)
  BY <1>5, <1>7 DEF FoldsWithin
<1>9. PICK c : Passes(c, n, U, base, step) /\ c[n] = h[1..n]
  <2>1. Steps(step, n, U)
    BY <1>3 DEF Steps
  <2> HIDE DEF step
  <2>2. Passed(h, n, U, base, step)
    BY <1>8, <2>1, FoldPasses
  <2> QED
    BY <2>2 DEF Passed
<1>10. c \in [0..n -> U] /\ c[0] = base /\ \A k \in 1..n : c[k] = step[k][c[k-1]]
  BY <1>9 DEF Passes
<1>11. \A k \in 1..n : c[k-1] \in U /\ step[k][c[k-1]] = Op(c[k-1], seq[k])
  BY <1>10
<1>12. \A k \in 1..n : c[k] = Op(c[k-1], seq[k])
  BY <1>10, <1>11
<1> QED
  BY <1>1, <1>9, <1>10, <1>12 DEF Op, VisitPasses

PlaceAll(S, base, seq) ==
  FoldLeft(LAMBDA places, i : IF i \in S THEN Append(places, i) ELSE places, base, seq)
PlacesClosed(S, seq, n, U) ==
  \A k \in 1..n : \A x \in U : (IF seq[k] \in S THEN Append(x, seq[k]) ELSE x) \in U
PlacesPasses(S, seq, n, U, c) ==
  /\ c \in [0..n -> U]
  /\ \A k \in 1..n : c[k] = (IF seq[k] \in S THEN Append(c[k-1], seq[k]) ELSE c[k-1])

\* Numbers are put in order one after the other.
LEMMA PlacesRuns ==
  ASSUME NEW S, NEW seq, NEW n \in Nat, DOMAIN seq = 1..n,
         NEW U, NEW base \in U, PlacesClosed(S, seq, n, U)
  PROVE  \E c : PlacesPasses(S, seq, n, U, c) /\ c[0] = base /\ c[n] = PlaceAll(S, base, seq)
<1> DEFINE Op(x, y) == (IF y \in S THEN Append(x, y) ELSE x)
           step == [k \in 1..n |-> [x \in U |-> Op(x, seq[k])]]
           h == CHOOSE g : g = [s \in SUBSET (1..n) |->
                  IF s = {} THEN base ELSE Op(g[s \ {Max(s)}], seq[Max(s)])]
<1>1. PlaceAll(S, base, seq) = h[1..n]
  BY DEF PlaceAll, FoldLeft, MapThenFoldSet
<1>2. \A k \in 1..n : \A x \in U : Op(x, seq[k]) \in U
  BY DEF PlacesClosed
<1> HIDE DEF Op
<1>3. step \in [1..n -> [U -> U]]
  BY <1>2
<1>4. PICK g : Folds(g, n, U, base, step)
  <2> HIDE DEF step
  <2> QED
    BY <1>3, FoldExists
<1>5. ASSUME NEW s \in SUBSET (1..n), s # {}
      PROVE  Max(s) \in 1..n /\ s \ {Max(s)} \in SUBSET (1..n)
  BY <1>5, HasLargest
<1>6. g = [s \in SUBSET (1..n) |-> IF s = {} THEN base ELSE Op(g[s \ {Max(s)}], seq[Max(s)])]
  BY <1>4, <1>5 DEF Folds
<1>7. h = [s \in SUBSET (1..n) |-> IF s = {} THEN base ELSE Op(h[s \ {Max(s)}], seq[Max(s)])]
  BY <1>6
<1> HIDE DEF h
<1>8. FoldsWithin(h, n, U, base, step)
  BY <1>5, <1>7 DEF FoldsWithin
<1>9. PICK c : Passes(c, n, U, base, step) /\ c[n] = h[1..n]
  <2>1. Steps(step, n, U)
    BY <1>3 DEF Steps
  <2> HIDE DEF step
  <2>2. Passed(h, n, U, base, step)
    BY <1>8, <2>1, FoldPasses
  <2> QED
    BY <2>2 DEF Passed
<1>10. c \in [0..n -> U] /\ c[0] = base /\ \A k \in 1..n : c[k] = step[k][c[k-1]]
  BY <1>9 DEF Passes
<1>11. \A k \in 1..n : c[k-1] \in U /\ step[k][c[k-1]] = Op(c[k-1], seq[k])
  BY <1>10
<1>12. \A k \in 1..n : c[k] = Op(c[k-1], seq[k])
  BY <1>10, <1>11
<1> QED
  BY <1>1, <1>9, <1>10, <1>12 DEF Op, PlacesPasses

-----------------------------------------------------------------------------
(* The first pass: every result that is kept answers the response before   *)
(* it, and none answers a call twice.                                      *)

\* The results right after a place, and whether nothing else follows it.
Block(o, i) == {j \in i + 1 .. Len(o) : \A k \in i + 1 .. j : o[k].role = "tool"}
ToTheEnd(o, i) == \A k \in i + 1 .. Len(o) : o[k].role = "tool"

Answers(o, i, j) == o[i].role # "tool" /\ j \in Block(o, i) /\ o[j].id \in o[i].calls
Asked(o) == \A j \in DOMAIN o : o[j].role = "tool" => \E i \in DOMAIN o : Answers(o, i, j)
Once(o) == \A i \in DOMAIN o : \A j, k \in Block(o, i) : o[j].id = o[k].id => j = k

\* The calls that wait for a result are those of the last message that is no result, without
\* those that were answered since.
Awaited(o, waiting) ==
  /\ waiting # {} => \E i \in DOMAIN o : o[i].role # "tool" /\ ToTheEnd(o, i)
  /\ \A i \in DOMAIN o : ToTheEnd(o, i) =>
       /\ \A k \in i + 1 .. Len(o) : o[k].id \notin waiting
       /\ o[i].role # "tool" => waiting \subseteq o[i].calls

KeepStates == [out: Seq(Wire), pending: SUBSET ToolCallIds]
Kept(state) == state \in KeepStates /\ Asked(state.out) /\ Once(state.out)
                 /\ Awaited(state.out, state.pending)

\* What a message more does to the blocks before it.
Grown(o, m, all) ==
  /\ all \in Seq(Wire) /\ Len(all) = Len(o) + 1 /\ Len(o) \in Nat
  /\ DOMAIN o = 1 .. Len(o) /\ DOMAIN all = 1 .. Len(o) + 1
  /\ \A i \in 1 .. Len(o) : all[i] = o[i]
  /\ all[Len(o) + 1] = m
  /\ Block(all, Len(o) + 1) = {} /\ ToTheEnd(all, Len(o) + 1)
  /\ \A i \in 1 .. Len(o) :
       /\ ToTheEnd(all, i) <=> ToTheEnd(o, i) /\ m.role = "tool"
       /\ Block(all, i) = Block(o, i) \cup (IF ToTheEnd(all, i) THEN {Len(o) + 1} ELSE {})
       /\ ToTheEnd(o, i) => Block(o, i) = i + 1 .. Len(o)

\* A message more.
LEMMA BlocksGrow ==
  ASSUME NEW o \in Seq(Wire), NEW m \in Wire
  PROVE  Grown(o, m, Append(o, m))
<1> DEFINE all == Append(o, m)
           n == Len(o)
<1>1. /\ all \in Seq(Wire) /\ Len(all) = n + 1 /\ n \in Nat
      /\ DOMAIN o = 1 .. n /\ DOMAIN all = 1 .. n + 1
      /\ \A i \in 1 .. n : all[i] = o[i]
      /\ all[n + 1] = m
  OBVIOUS
<1> HIDE DEF all, n
<1>2. Block(all, n + 1) = {} /\ ToTheEnd(all, n + 1)
  BY <1>1 DEF Block, ToTheEnd
<1>3. ASSUME NEW i \in 1 .. n
      PROVE  /\ ToTheEnd(all, i) <=> ToTheEnd(o, i) /\ m.role = "tool"
             /\ Block(all, i) = Block(o, i) \cup (IF ToTheEnd(all, i) THEN {n + 1} ELSE {})
             /\ ToTheEnd(o, i) => Block(o, i) = i + 1 .. n
  <2>1. ToTheEnd(all, i) <=> \A k \in i + 1 .. n + 1 : all[k].role = "tool"
    BY <1>1 DEF ToTheEnd
  <2>2. ToTheEnd(o, i) <=> \A k \in i + 1 .. n : all[k].role = "tool"
    BY <1>1 DEF ToTheEnd, n
  <2>3. \A k \in i + 1 .. n + 1 : k \in i + 1 .. n \/ k = n + 1
    BY <1>1
  <2>4. ToTheEnd(all, i) <=> ToTheEnd(o, i) /\ m.role = "tool"
    BY <1>1, <2>1, <2>2, <2>3
  <2>5. ASSUME NEW j \in i + 1 .. n PROVE j \in Block(all, i) <=> j \in Block(o, i)
    <3>1. \A k \in i + 1 .. j : all[k] = o[k]
      BY <1>1
    <3> QED
      BY <1>1, <3>1 DEF Block, n
  <2>6. n + 1 \in Block(all, i) <=> ToTheEnd(all, i)
    BY <1>1, <2>1 DEF Block
  <2>7. Block(o, i) \subseteq i + 1 .. n /\ Block(all, i) \subseteq i + 1 .. n + 1
    BY <1>1 DEF Block, n
  <2>8. Block(all, i) = Block(o, i) \cup (IF ToTheEnd(all, i) THEN {n + 1} ELSE {})
    BY <1>1, <2>3, <2>5, <2>6, <2>7
  <2>9. ToTheEnd(o, i) => Block(o, i) = i + 1 .. n
    BY <1>1 DEF ToTheEnd, Block, n
  <2> QED
    BY <2>4, <2>8, <2>9
<1> QED
  BY <1>1, <1>2, <1>3 DEF all, n, Grown

\* A message that is no result, with its calls to come.
LEMMA AsksKept ==
  ASSUME NEW o, Asked(o), Once(o), NEW m \in Wire, m.role # "tool",
         NEW all, Grown(o, m, all)
  PROVE  Asked(all) /\ Once(all) /\ Awaited(all, m.calls)
<1> DEFINE n == Len(o)
<1>1. Asked(all)
  <2> SUFFICES ASSUME NEW j \in DOMAIN all, all[j].role = "tool"
               PROVE  \E i \in DOMAIN all : Answers(all, i, j)
    BY DEF Asked
  <2>1. j \in 1 .. n
    <3>1. n \in Nat /\ j \in 1 .. n + 1 /\ all[n + 1] = m
      BY DEF Grown
    <3>2. j # n + 1
      BY <3>1
    <3> QED
      BY <3>1, <3>2
  <2>2. PICK i \in DOMAIN o : Answers(o, i, j)
    BY <2>1 DEF Asked, Grown
  <2>3. i \in DOMAIN all /\ Answers(all, i, j)
    BY <2>1, <2>2 DEF Grown, Answers
  <2> QED
    BY <2>3
<1>2. Once(all)
  <2>1. ASSUME NEW i \in DOMAIN all
        PROVE  Block(all, i) = {} \/ (i \in 1 .. n /\ Block(all, i) = Block(o, i))
    <3>1. n \in Nat /\ i \in 1 .. n + 1 /\ Block(all, n + 1) = {}
      BY DEF Grown
    <3>2. i \in 1 .. n => Block(all, i) = Block(o, i)
      BY DEF Grown
    <3> QED
      BY <3>1, <3>2
  <2>2. \A i \in 1 .. n : Block(o, i) \subseteq 1 .. n
    BY DEF Grown, Block
  <2> QED
    BY <2>1, <2>2 DEF Once, Grown
<1>3. Awaited(all, m.calls)
  <2>1. /\ n + 1 \in DOMAIN all /\ all[n + 1] = m /\ ToTheEnd(all, n + 1)
        /\ Len(all) = n + 1 /\ n \in Nat
    BY DEF Grown
  <2>2. ASSUME NEW i \in DOMAIN all, ToTheEnd(all, i) PROVE i = n + 1
    BY <2>2 DEF Grown
  <2> QED
    BY <2>1, <2>2 DEF Awaited
<1> QED
  BY <1>1, <1>2, <1>3

\* A result somebody waits for.
LEMMA AnswerKept ==
  ASSUME NEW o, Asked(o), Once(o), NEW waiting, Awaited(o, waiting),
         NEW m \in Wire, m.role = "tool", m.id \in waiting,
         NEW all, Grown(o, m, all)
  PROVE  Asked(all) /\ Once(all) /\ Awaited(all, waiting \ {m.id})
<1> DEFINE n == Len(o)
<1>0. n \in Nat /\ DOMAIN o = 1 .. n /\ DOMAIN all = 1 .. n + 1 /\ Len(all) = n + 1
      /\ all[n + 1] = m /\ \A i \in 1 .. n : all[i] = o[i]
  BY DEF Grown
<1>1. PICK asker \in DOMAIN o : o[asker].role # "tool" /\ ToTheEnd(o, asker)
  BY DEF Awaited
<1>2. /\ asker \in 1 .. n /\ ToTheEnd(all, asker)
      /\ n + 1 \in Block(all, asker) /\ m.id \in o[asker].calls
  BY <1>0, <1>1 DEF Awaited, Grown
<1>3. Asked(all)
  <2> SUFFICES ASSUME NEW j \in DOMAIN all, all[j].role = "tool"
               PROVE  \E i \in DOMAIN all : Answers(all, i, j)
    BY DEF Asked
  <2>1. CASE j = n + 1
    <3>1. asker \in DOMAIN all /\ Answers(all, asker, j)
      BY <1>0, <1>1, <1>2, <2>1 DEF Answers
    <3> QED
      BY <3>1
  <2>2. CASE j # n + 1
    <3>1. j \in 1 .. n
      BY <1>0, <2>2
    <3>2. PICK i \in DOMAIN o : Answers(o, i, j)
      BY <1>0, <3>1 DEF Asked
    <3>3. i \in DOMAIN all /\ Answers(all, i, j)
      BY <1>0, <3>1, <3>2 DEF Grown, Answers
    <3> QED
      BY <3>3
  <2> QED
    BY <2>1, <2>2
<1>4. Once(all)
  <2> SUFFICES ASSUME NEW i \in DOMAIN all, NEW j \in Block(all, i), NEW k \in Block(all, i),
                      all[j].id = all[k].id
               PROVE  j = k
    BY DEF Once
  <2>1. i \in 1 .. n
    BY <1>0 DEF Grown
  <2>2. Block(o, i) \subseteq 1 .. n
    BY <2>1, <1>0 DEF Block
  <2>3. ASSUME NEW l \in Block(o, i), n + 1 \in Block(all, i) PROVE all[l].id # m.id
    <3>1. ToTheEnd(o, i) /\ Block(o, i) = i + 1 .. n
      BY <1>0, <2>1, <2>2, <2>3 DEF Grown
    <3>2. o[l].id \notin waiting
      BY <1>0, <2>1, <2>3, <3>1 DEF Awaited
    <3> QED
      BY <1>0, <2>2, <2>3, <3>2
  <2>4. \A l \in Block(all, i) : l \in Block(o, i) \/ l = n + 1
    BY <2>1 DEF Grown
  <2>5. CASE j \in Block(o, i) /\ k \in Block(o, i)
    BY <1>0, <2>1, <2>2, <2>5 DEF Once
  <2> QED
    BY <1>0, <2>3, <2>4, <2>5
<1>5. Awaited(all, waiting \ {m.id})
  <2>1. ASSUME NEW i \in DOMAIN all, ToTheEnd(all, i)
        PROVE  /\ \A k \in i + 1 .. n + 1 : all[k].id \notin waiting \ {m.id}
               /\ all[i].role # "tool" => waiting \ {m.id} \subseteq all[i].calls
    <3>1. CASE i = n + 1
      BY <1>0, <3>1
    <3>2. CASE i # n + 1
      <4>1. i \in 1 .. n /\ ToTheEnd(o, i)
        BY <1>0, <2>1, <3>2 DEF Grown
      <4>2. \A k \in i + 1 .. n : o[k].id \notin waiting
        BY <1>0, <4>1 DEF Awaited
      <4>3. o[i].role # "tool" => waiting \subseteq o[i].calls
        BY <1>0, <4>1 DEF Awaited
      <4>4. \A k \in i + 1 .. n + 1 : k = n + 1 \/ (k \in i + 1 .. n /\ k \in 1 .. n)
        BY <1>0, <4>1
      <4> QED
        BY <1>0, <4>1, <4>2, <4>3, <4>4
    <3> QED
      BY <3>1, <3>2
  <2>2. asker \in DOMAIN all /\ all[asker].role # "tool" /\ ToTheEnd(all, asker)
    BY <1>0, <1>1, <1>2
  <2> QED
    BY <1>0, <2>1, <2>2 DEF Awaited
<1> QED
  BY <1>3, <1>4, <1>5

\* One message of the window.
LEMMA KeepsOne ==
  ASSUME NEW state, Kept(state), NEW m \in Wire
  PROVE  Kept(KeepResult(state, m))
<1>0. state \in KeepStates /\ Asked(state.out) /\ Once(state.out)
      /\ Awaited(state.out, state.pending)
  BY DEF Kept
<1>1. /\ state.out \in Seq(Wire) /\ state.pending \in SUBSET ToolCallIds
      /\ m.calls \in SUBSET ToolCallIds
  BY <1>0 DEF KeepStates, Wire, WireMessages
<1>2. Grown(state.out, m, Append(state.out, m)) /\ Append(state.out, m) \in Seq(Wire)
  BY <1>1, BlocksGrow
<1>3. CASE m.role # "tool"
  <2>1. KeepResult(state, m) = [out |-> Append(state.out, m), pending |-> m.calls]
    BY <1>3 DEF KeepResult
  <2>2. /\ Asked(Append(state.out, m)) /\ Once(Append(state.out, m))
        /\ Awaited(Append(state.out, m), m.calls)
    BY <1>0, <1>2, <1>3, AsksKept
  <2> QED
    BY <1>1, <1>2, <2>1, <2>2 DEF Kept, KeepStates
<1>4. CASE m.role = "tool" /\ m.id \in state.pending
  <2>1. KeepResult(state, m) = [out |-> Append(state.out, m), pending |-> state.pending \ {m.id}]
    BY <1>4 DEF KeepResult
  <2>2. /\ Asked(Append(state.out, m)) /\ Once(Append(state.out, m))
        /\ Awaited(Append(state.out, m), state.pending \ {m.id})
    BY <1>0, <1>2, <1>4, AnswerKept
  <2> QED
    BY <1>1, <1>2, <2>1, <2>2 DEF Kept, KeepStates
<1>5. CASE m.role = "tool" /\ m.id \notin state.pending
  BY <1>0, <1>5 DEF KeepResult, Kept
<1> QED
  BY <1>3, <1>4, <1>5

Paired(o) == o \in Seq(Wire) /\ Asked(o) /\ Once(o)

\* sanitizeDeepSeekMessages, before it looks for calls without results.
LEMMA StraysGone ==
  ASSUME NEW ms \in Seq(Wire)
  PROVE  Paired(WithoutStrayResults(ms))
<1> DEFINE base == [out |-> <<>>, pending |-> {}]
           n == Len(ms)
           U == {state \in KeepStates : Kept(state)}
<1>1. n \in Nat /\ DOMAIN ms = 1 .. n /\ \A k \in 1 .. n : ms[k] \in Wire
  OBVIOUS
<1>2. base \in U
  <2>1. base \in KeepStates /\ base.out = <<>> /\ base.pending = {}
    BY DEF KeepStates
  <2>2. Asked(<<>>) /\ Once(<<>>) /\ Awaited(<<>>, {})
    BY DEF Asked, Once, Awaited
  <2> QED
    BY <2>1, <2>2 DEF Kept
<1>3. KeepClosed(ms, n, U)
  <2>1. ASSUME NEW k \in 1 .. n, NEW x \in U PROVE KeepResult(x, ms[k]) \in U
    <3>1. Kept(KeepResult(x, ms[k]))
      BY <1>1, KeepsOne
    <3> QED
      BY <3>1 DEF Kept
  <2> HIDE DEF U, n
  <2> QED
    BY <2>1 DEF KeepClosed
<1>4. PICK c : /\ KeepPasses(ms, n, U, c) /\ c[0] = base
               /\ c[n] = FoldLeft(KeepResult, base, ms)
  <2> HIDE DEF U, base, n
  <2> QED
    BY <1>1, <1>2, <1>3, KeepRuns
<1>5. c[n] \in U
  <2> HIDE DEF U
  <2> QED
    BY <1>1, <1>4 DEF KeepPasses
<1>6. WithoutStrayResults(ms) = c[n].out
  BY <1>4 DEF WithoutStrayResults
<1> QED
  BY <1>5, <1>6 DEF Paired, Kept, KeepStates

-----------------------------------------------------------------------------
(* The second pass: a response keeps its calls if each has a result, and   *)
(* no result stays without its call.                                       *)

VisitStates(n) == [bare: SUBSET (1 .. n), gone: SUBSET (1 .. n)]

\* Looked at so far: the responses up to a place.
AllAnswered(o, i, gone) ==
  \A id \in o[i].calls : \E j \in Block(o, i) : o[j].id = id /\ j \notin gone
Visited(o, k, state) ==
  /\ state \in VisitStates(Len(o)) /\ state.bare \subseteq 1 .. k
  /\ \A i \in state.gone : o[i].role # "tool" => i \in state.bare
  /\ \A i \in state.bare : \A j \in i + 1 .. Len(o) : o[j].id \in o[i].calls => j \in state.gone
  /\ \A i \in 1 .. k : i \notin state.bare => AllAnswered(o, i, state.gone)

\* Only responses have calls, and only results their ids.
LEMMA WhoNames ==
  ASSUME NEW o \in Seq(Wire), NEW i \in DOMAIN o, NEW id \in o[i].calls
  PROVE  /\ o[i].role = "assistant"
         /\ \A j \in DOMAIN o : o[j].id = id => o[j].role = "tool"
<1>1. \A j \in DOMAIN o : o[j] \in WireMessages /\ Plain(o[j])
  BY DEF Wire
<1>2. id \in ToolCallIds
  BY <1>1 DEF WireMessages
<1>3. id # NoId
  <2>1. NoId[2] = 0
    BY DEF NoId
  <2>2. id[2] \in 1 .. MaxToolCalls
    BY <1>2 DEF ToolCallIds
  <2> QED
    BY <2>1, <2>2
<1> QED
  BY <1>1, <1>3 DEF Plain

\* What is found is right behind the response, because another response in between would
\* still be there.
LEMMA FoundBehind ==
  ASSUME NEW o, Paired(o), NEW k \in DOMAIN o, NEW gone, k \notin gone,
         \A i \in gone : i > k => o[i].role = "tool",
         o[k].calls \subseteq FoundIds(o, k, gone)
  PROVE  AllAnswered(o, k, gone)
<1> SUFFICES ASSUME NEW id \in o[k].calls
             PROVE  \E j \in Block(o, k) : o[j].id = id /\ j \notin gone
  BY DEF AllAnswered
<1>0. o \in Seq(Wire) /\ Len(o) \in Nat /\ DOMAIN o = 1 .. Len(o)
  BY DEF Paired
<1>1. PICK j \in (k + 1 .. Len(o)) \ gone :
        o[j].id = id /\ \A l \in (k + 1 .. j) \ gone : o[l].role # "assistant"
  BY DEF FoundIds
<1>2. j \in DOMAIN o /\ o[j].role = "tool" /\ o[k].role = "assistant"
  BY <1>0, <1>1, WhoNames
<1>3. PICK i \in DOMAIN o : Answers(o, i, j)
  BY <1>2 DEF Paired, Asked
<1>4. o[i].role = "assistant" /\ i < j /\ \A l \in i + 1 .. j : o[l].role = "tool"
  BY <1>0, <1>3, WhoNames DEF Answers, Block
<1>5. ~(i < k)
  BY <1>0, <1>1, <1>2, <1>4
<1>6. ~(i > k)
  <2> SUFFICES ASSUME i > k PROVE FALSE
    OBVIOUS
  <2>1. i \in k + 1 .. j
    BY <1>0, <1>1, <1>4
  <2>2. i \notin gone
    BY <1>4
  <2> QED
    BY <1>1, <1>4, <2>1, <2>2
<1>7. i = k
  BY <1>0, <1>5, <1>6
<1> QED
  BY <1>1, <1>3, <1>7 DEF Answers

\* One message more.
LEMMA VisitsOne ==
  ASSUME NEW o, Paired(o), NEW k \in DOMAIN o, NEW state, Visited(o, k - 1, state)
  PROVE  Visited(o, k, Visit(o, state, k))
<1> DEFINE n == Len(o)
           next == Visit(o, state, k)
<1>0. o \in Seq(Wire) /\ n \in Nat /\ DOMAIN o = 1 .. n /\ k \in 1 .. n
  BY DEF Paired
<1>1. /\ state \in VisitStates(n) /\ state.bare \subseteq 1 .. k - 1
      /\ state.bare \in SUBSET (1 .. n) /\ state.gone \in SUBSET (1 .. n)
      /\ \A i \in state.gone : o[i].role # "tool" => i \in state.bare
      /\ \A i \in state.bare : \A j \in i + 1 .. n : o[j].id \in o[i].calls => j \in state.gone
      /\ \A i \in 1 .. k - 1 : i \notin state.bare => AllAnswered(o, i, state.gone)
  BY DEF Visited, VisitStates
<1>2. \A i \in state.gone : i >= k => o[i].role = "tool"
  BY <1>0, <1>1
<1>3. \A i \in 1 .. k : i \in 1 .. k - 1 \/ i = k
  BY <1>0
<1>4. state.bare \subseteq 1 .. k
  BY <1>0, <1>1
<1>5. CASE k \in state.gone
  <2>1. next = state
    BY <1>5 DEF Visit
  <2>2. o[k].role = "tool"
    BY <1>0, <1>2, <1>5
  <2>3. o[k].calls = {}
    BY <1>0, <2>2, WhoNames
  <2>4. AllAnswered(o, k, state.gone)
    BY <2>3 DEF AllAnswered
  <2> QED
    BY <1>1, <1>3, <1>4, <2>1, <2>4 DEF Visited
<1>6. CASE k \notin state.gone /\ o[k].calls \subseteq FoundIds(o, k, state.gone)
  <2>1. next = state
    BY <1>6 DEF Visit
  <2>a. \A i \in state.gone : i > k => o[i].role = "tool"
    BY <1>0, <1>1, <1>2
  <2>2. AllAnswered(o, k, state.gone)
    <3> HIDE DEF next, n
    <3> QED
      BY <1>6, <2>a, FoundBehind
  <2> QED
    BY <1>1, <1>3, <1>4, <2>1, <2>2 DEF Visited
<1>7. CASE k \notin state.gone /\ ~(o[k].calls \subseteq FoundIds(o, k, state.gone))
  <2> DEFINE out == {j \in k + 1 .. n : o[j].id \in o[k].calls}
  <2>1. /\ next = [bare |-> state.bare \cup {k},
                   gone |-> state.gone \cup out \cup (IF o[k].text THEN {} ELSE {k})]
    BY <1>7 DEF Visit
  <2>2. /\ next.bare = state.bare \cup {k}
        /\ next.gone = state.gone \cup out \cup (IF o[k].text THEN {} ELSE {k})
    BY <2>1
  <2>3. next \in VisitStates(n) /\ next.bare \subseteq 1 .. k
    <3>1. out \subseteq 1 .. n
      BY <1>0
    <3>2. next.bare \in SUBSET (1 .. n) /\ next.gone \in SUBSET (1 .. n)
      BY <1>0, <1>1, <2>2, <3>1
    <3>3. next \in [bare: SUBSET (1 .. n), gone: SUBSET (1 .. n)]
      BY <2>1, <3>2
    <3> QED
      BY <1>0, <1>4, <2>2, <3>3 DEF VisitStates
  <2>4. PICK id : id \in o[k].calls
    BY <1>7
  <2>5. o[k].role = "assistant"
    BY <1>0, <2>4, WhoNames
  <2>6. \A j \in out : o[j].role = "tool" /\ j \in 1 .. n /\ j > k
    BY <1>0, WhoNames
  <2>7. \A i \in next.gone : o[i].role # "tool" => i \in next.bare
    BY <1>1, <2>2, <2>6
  <2>8. \A i \in next.bare : \A j \in i + 1 .. n : o[j].id \in o[i].calls => j \in next.gone
    <3>1. \A j \in k + 1 .. n : o[j].id \in o[k].calls => j \in next.gone
      BY <2>2
    <3>2. \A i \in state.bare : \A j \in i + 1 .. n : o[j].id \in o[i].calls => j \in next.gone
      BY <1>1, <2>2
    <3> HIDE DEF next, out
    <3> QED
      BY <2>2, <3>1, <3>2
  <2>9. ASSUME NEW i \in 1 .. k, i \notin next.bare PROVE AllAnswered(o, i, next.gone)
    <3>1. i \in 1 .. k - 1 /\ i \notin state.bare
      BY <1>3, <2>2, <2>9
    <3>2. AllAnswered(o, i, state.gone)
      BY <1>1, <3>1
    <3> SUFFICES ASSUME NEW id2 \in o[i].calls
                 PROVE  \E j \in Block(o, i) : o[j].id = id2 /\ j \notin next.gone
      BY DEF AllAnswered
    <3>3. PICK j \in Block(o, i) : o[j].id = id2 /\ j \notin state.gone
      BY <3>2 DEF AllAnswered
    <3>4. j \in i + 1 .. n /\ \A l \in i + 1 .. j : o[l].role = "tool"
      BY <3>3 DEF Block
    <3>5. ~(j >= k)
      BY <1>0, <2>5, <3>1, <3>4
    <3>6. j \notin out /\ j # k
      BY <1>0, <2>6, <3>4, <3>5
    <3>7. j \notin next.gone
      BY <2>2, <3>3, <3>6
    <3> QED
      BY <3>3, <3>7
  <2>10. Visited(o, k, next)
    <3> HIDE DEF next, out
    <3> QED
      BY <2>3, <2>7, <2>8, <2>9 DEF Visited
  <2> QED
    BY <2>10
<1> QED
  BY <1>5, <1>6, <1>7

\* The numbers in order.
UpToIs(n) == DOMAIN UpTo(n) = 1 .. n /\ \A k \in 1 .. n : UpTo(n)[k] = k
LEMMA Counting == ASSUME NEW n \in Nat PROVE UpToIs(n)
BY DEF UpTo, UpToIs

\* What the second pass has found when it has looked at all messages.
Found(o) ==
  VisitAll(o, [bare |-> {}, gone |-> {}], UpTo(Len(o)))
LEMMA AllVisited == ASSUME NEW o, Paired(o) PROVE Visited(o, Len(o), Found(o))
<1> DEFINE n == Len(o)
           base == [bare |-> {}, gone |-> {}]
           seq == UpTo(n)
           U == VisitStates(n)
<1>1. o \in Seq(Wire) /\ n \in Nat /\ DOMAIN o = 1 .. n
  BY DEF Paired
<1>2. DOMAIN seq = 1 .. n /\ \A k \in 1 .. n : seq[k] = k
  BY <1>1, Counting DEF UpToIs
<1>3. base \in U /\ base.bare = {} /\ base.gone = {}
  BY DEF VisitStates
<1>4. VisitClosed(o, seq, n, U)
  <2>1. ASSUME NEW k \in 1 .. n, NEW x \in U PROVE Visit(o, x, k) \in U
    <3>1. x.bare \in SUBSET (1 .. n) /\ x.gone \in SUBSET (1 .. n)
      BY DEF VisitStates
    <3>2. {j \in k + 1 .. n : o[j].id \in o[k].calls} \subseteq 1 .. n
      BY <1>1
    <3>3. CASE k \in x.gone \/ o[k].calls \subseteq FoundIds(o, k, x.gone)
      BY <3>3 DEF Visit
    <3>4. CASE ~(k \in x.gone \/ o[k].calls \subseteq FoundIds(o, k, x.gone))
      BY <3>1, <3>2, <3>4 DEF Visit, VisitStates
    <3> QED
      BY <3>3, <3>4
  <2> HIDE DEF seq, U, n
  <2> QED
    BY <1>2, <2>1 DEF VisitClosed
<1>5. PICK c : /\ VisitPasses(o, seq, n, U, c) /\ c[0] = base
               /\ c[n] = VisitAll(o, base, seq)
  <2> HIDE DEF U, base, n, seq
  <2> QED
    BY <1>1, <1>2, <1>3, <1>4, VisitRuns
<1>6. \A k \in 1 .. n : c[k] = Visit(o, c[k-1], k)
  <2> HIDE DEF U, seq
  <2> QED
    BY <1>2, <1>5 DEF VisitPasses
<1> DEFINE G == {k \in 0 .. n : Visited(o, k, c[k])}
<1>7. 0 \in G
  <2>1. Visited(o, 0, base)
    BY <1>1, <1>3 DEF Visited
  <2>2. Visited(o, 0, c[0])
    <3> HIDE DEF base
    <3> QED
      BY <1>5, <2>1
  <2> QED
    BY <1>1, <2>2
<1>8. ASSUME NEW k \in 1 .. n, k - 1 \in G PROVE k \in G
  <2>1. Visited(o, k - 1, c[k-1])
    BY <1>8
  <2>2. Visited(o, k, Visit(o, c[k-1], k))
    BY <1>1, <2>1, VisitsOne
  <2> QED
    BY <1>1, <1>6, <2>2
<1>9. n \in G
  <2> HIDE DEF G, n
  <2> QED
    BY <1>1, <1>7, <1>8, Reaches
<1> QED
  BY <1>5, <1>9 DEF Found

\* The numbers of a set, in order.
AscendingTo(p, S, k) ==
  /\ p \in Seq(Nat)
  /\ \A x \in DOMAIN p : p[x] \in S /\ p[x] <= k
  /\ \A x, y \in DOMAIN p : x < y => p[x] < p[y]
  /\ \A i \in S : i <= k => \E x \in DOMAIN p : p[x] = i
AscendingIs(p, S) ==
  /\ p \in Seq(Nat) /\ \A x \in DOMAIN p : p[x] \in S
  /\ \A x, y \in DOMAIN p : p[x] < p[y] <=> x < y
  /\ \A i \in S : \E x \in DOMAIN p : p[x] = i

\* One number more.
LEMMA OneMore ==
  ASSUME NEW n \in Nat, NEW S \in SUBSET (1 .. n), NEW k \in 1 .. n, NEW p, AscendingTo(p, S, k - 1)
  PROVE  AscendingTo(IF k \in S THEN Append(p, k) ELSE p, S, k)
<1>0. /\ p \in Seq(Nat) /\ Len(p) \in Nat /\ DOMAIN p = 1 .. Len(p) /\ k \in Nat
      /\ \A x \in DOMAIN p : p[x] \in S /\ p[x] <= k - 1 /\ p[x] \in Nat
      /\ \A x, y \in DOMAIN p : x < y => p[x] < p[y]
      /\ \A i \in S : i <= k - 1 => \E x \in DOMAIN p : p[x] = i
  BY DEF AscendingTo
<1>1. CASE k \in S
  <2> DEFINE q == Append(p, k)
  <2>1. /\ q \in Seq(Nat) /\ DOMAIN q = 1 .. Len(p) + 1
        /\ q[Len(p) + 1] = k /\ \A x \in 1 .. Len(p) : q[x] = p[x] /\ x \in DOMAIN p
    BY <1>0
  <2> HIDE DEF q
  <2>2. \A x \in DOMAIN q : x \in 1 .. Len(p) \/ x = Len(p) + 1
    BY <1>0, <2>1
  <2>3. \A x \in DOMAIN q : q[x] \in S /\ q[x] <= k
    BY <1>0, <1>1, <2>1, <2>2
  <2>4. ASSUME NEW x \in DOMAIN q, NEW y \in DOMAIN q, x < y PROVE q[x] < q[y]
    <3>1. x \in 1 .. Len(p)
      BY <1>0, <2>1, <2>2, <2>4
    <3>2. CASE y \in 1 .. Len(p)
      BY <1>0, <2>1, <2>4, <3>1, <3>2
    <3>3. CASE y = Len(p) + 1
      <4>1. q[x] = p[x] /\ p[x] <= k - 1 /\ p[x] \in Nat /\ q[y] = k
        BY <1>0, <2>1, <3>1, <3>3
      <4> QED
        BY <1>0, <4>1
    <3> QED
      BY <2>2, <3>2, <3>3
  <2>5. ASSUME NEW i \in S, i <= k PROVE \E x \in DOMAIN q : q[x] = i
    <3>1. CASE i = k
      BY <1>0, <2>1, <3>1
    <3>2. CASE i # k
      <4>1. i <= k - 1
        BY <1>0, <2>5, <3>2
      <4>2. PICK x \in DOMAIN p : p[x] = i
        BY <1>0, <4>1
      <4>3. x \in DOMAIN q /\ q[x] = i
        BY <1>0, <2>1, <4>2
      <4> QED
        BY <4>3
    <3> QED
      BY <3>1, <3>2
  <2>6. AscendingTo(q, S, k)
    BY <2>1, <2>3, <2>4, <2>5 DEF AscendingTo
  <2> QED
    BY <1>1, <2>6 DEF q
<1>2. CASE k \notin S
  <2>1. \A i \in S : i <= k => i <= k - 1
    BY <1>2
  <2>2. \A x \in DOMAIN p : p[x] <= k
    BY <1>0
  <2>3. AscendingTo(p, S, k)
    BY <1>0, <2>1, <2>2 DEF AscendingTo
  <2> QED
    BY <1>2, <2>3
<1> QED
  BY <1>1, <1>2

\* Ascending is the one sequence that grows and has these elements.
LEMMA Ascends ==
  ASSUME NEW n \in Nat, NEW S \in SUBSET (1 .. n)
  PROVE  AscendingIs(Ascending(S, n), S)
<1> DEFINE seq == UpTo(n)
           base == <<>>
           U == Seq(Nat)
<1>1. DOMAIN seq = 1 .. n /\ \A k \in 1 .. n : seq[k] = k
  BY Counting DEF UpToIs
<1>2. base \in U
  OBVIOUS
<1>3. PlacesClosed(S, seq, n, U)
  <2>1. ASSUME NEW k \in 1 .. n, NEW x \in Seq(Nat)
        PROVE  (IF k \in S THEN Append(x, k) ELSE x) \in Seq(Nat)
    OBVIOUS
  <2> HIDE DEF seq
  <2> QED
    BY <1>1, <2>1 DEF PlacesClosed
<1>4. PICK c : PlacesPasses(S, seq, n, U, c) /\ c[0] = base /\ c[n] = PlaceAll(S, base, seq)
  <2> HIDE DEF U, base, seq
  <2> QED
    BY <1>1, <1>2, <1>3, PlacesRuns
<1>5. \A k \in 1 .. n : c[k] = IF k \in S THEN Append(c[k-1], k) ELSE c[k-1]
  <2> HIDE DEF U, seq
  <2> QED
    BY <1>1, <1>4 DEF PlacesPasses
<1> DEFINE G == {k \in 0 .. n : AscendingTo(c[k], S, k)}
<1>6. 0 \in G
  <2>1. AscendingTo(<<>>, S, 0)
    BY DEF AscendingTo
  <2> QED
    BY <1>4, <2>1
<1>7. ASSUME NEW k \in 1 .. n, k - 1 \in G PROVE k \in G
  <2>1. AscendingTo(c[k-1], S, k - 1)
    BY <1>7
  <2>2. AscendingTo(IF k \in S THEN Append(c[k-1], k) ELSE c[k-1], S, k)
    BY <2>1, OneMore
  <2> QED
    BY <1>5, <2>2
<1>8. n \in G
  <2> HIDE DEF G
  <2> QED
    BY <1>6, <1>7, Reaches
<1>9. PICK p : p = Ascending(S, n)
  OBVIOUS
<1>10. AscendingTo(p, S, n)
  BY <1>4, <1>8, <1>9 DEF Ascending, PlaceAll
<1>11. AscendingIs(p, S)
  <2>1. \A x \in DOMAIN p : x \in Nat /\ p[x] \in Nat
    BY <1>10 DEF AscendingTo
  <2>2. \A x, y \in DOMAIN p : x < y => p[x] < p[y]
    BY <1>10 DEF AscendingTo
  <2>3. \A x, y \in DOMAIN p : p[x] < p[y] => x < y
    BY <2>1, <2>2
  <2>4. \A i \in S : i <= n
    OBVIOUS
  <2> QED
    BY <1>10, <2>2, <2>3, <2>4 DEF AscendingTo, AscendingIs
<1> QED
  BY <1>9, <1>11

-----------------------------------------------------------------------------
(* What is left is well formed.                                            *)

WellFormed(ms) ==
  /\ \A i \in DOMAIN ms : ms[i].calls \subseteq {ms[j].id : j \in Block(ms, i)}
  /\ \A j \in DOMAIN ms : ms[j].role = "tool" =>
       \E i \in 1 .. j - 1 : j \in Block(ms, i) /\ ms[j].id \in ms[i].calls
  /\ \A i \in DOMAIN ms : \A j, k \in Block(ms, i) : ms[j].id = ms[k].id => j = k

\* The messages at these places, some without their calls.
Left(o, bare, p, r) ==
  /\ Len(r) = Len(p) /\ Len(p) \in Nat /\ DOMAIN r = 1 .. Len(p) /\ DOMAIN p = 1 .. Len(p)
  /\ \A x \in 1 .. Len(p) :
       /\ p[x] \in DOMAIN o /\ r[x].role = o[p[x]].role /\ r[x].id = o[p[x]].id
       /\ r[x].calls = IF p[x] \in bare THEN {} ELSE o[p[x]].calls

\* What stood behind a place, and was not taken out, stands behind it.
LEMMA BlocksLeft ==
  ASSUME NEW o, NEW S \in SUBSET Nat, NEW bare, NEW p, AscendingIs(p, S),
         NEW r, Left(o, bare, p, r),
         NEW x \in DOMAIN p, NEW y \in DOMAIN p, p[y] \in Block(o, p[x])
  PROVE  y \in Block(r, x) /\ x \in 1 .. y - 1
<1>1. p[x] \in Nat /\ p[y] \in Nat /\ p[x] < p[y] /\ p[y] \in p[x] + 1 .. Len(o)
  BY DEF AscendingIs, Block
<1>2. x \in Nat /\ y \in Nat /\ x < y /\ y \in 1 .. Len(p)
  BY <1>1 DEF AscendingIs, Left
<1>3. ASSUME NEW z \in x + 1 .. y PROVE r[z].role = "tool"
  <2>1. z \in DOMAIN p /\ x < z /\ z \in Nat /\ (z = y \/ z < y)
    BY <1>2 DEF Left
  <2>2. p[x] < p[z] /\ (p[z] = p[y] \/ p[z] < p[y]) /\ p[z] \in Nat
    BY <2>1 DEF AscendingIs
  <2>3. p[z] \in p[x] + 1 .. p[y]
    BY <1>1, <2>2
  <2> QED
    BY <2>1, <2>3 DEF Block, Left
<1> QED
  BY <1>2, <1>3 DEF Block, Left

\* A result that is left answers a response that is left with its calls.
LEMMA AnswersLeft ==
  ASSUME NEW o, Paired(o), NEW state, Visited(o, Len(o), state),
         NEW j \in (1 .. Len(o)) \ state.gone, o[j].role = "tool"
  PROVE  \E i \in (1 .. Len(o)) \ (state.gone \cup state.bare) : Answers(o, i, j)
<1>0. Len(o) \in Nat /\ DOMAIN o = 1 .. Len(o)
  BY DEF Paired
<1>1. PICK i \in DOMAIN o : Answers(o, i, j)
  BY <1>0 DEF Paired, Asked
<1>2. j \in i + 1 .. Len(o) /\ o[j].id \in o[i].calls /\ o[i].role # "tool"
  BY <1>1 DEF Block, Answers
<1>3. i \notin state.bare
  BY <1>2 DEF Visited
<1>4. i \notin state.gone
  BY <1>2, <1>3 DEF Visited
<1> QED
  BY <1>0, <1>1, <1>3, <1>4

\* The three things an endpoint insists on.
LEMMA LeftWellFormed ==
  ASSUME NEW o, Paired(o), NEW state, Visited(o, Len(o), state),
         NEW p, AscendingIs(p, (1 .. Len(o)) \ state.gone), NEW r, Left(o, state.bare, p, r)
  PROVE  WellFormed(r)
<1> DEFINE n == Len(o)
           S == (1 .. n) \ state.gone
<1>0. /\ o \in Seq(Wire) /\ n \in Nat /\ DOMAIN o = 1 .. n /\ S \in SUBSET Nat
      /\ \A x \in DOMAIN p : p[x] \in S /\ p[x] \in 1 .. n
      /\ DOMAIN r = DOMAIN p /\ DOMAIN p = 1 .. Len(p) /\ Len(p) \in Nat
  BY DEF Paired, AscendingIs, Left
<1>a. \A i \in S : \E x \in DOMAIN p : p[x] = i
  BY DEF AscendingIs
<1>b. \A x, y \in DOMAIN p : p[y] \in Block(o, p[x]) => y \in Block(r, x) /\ x \in 1 .. y - 1
  <2> HIDE DEF S
  <2> QED
    BY <1>0, BlocksLeft DEF S
<1>c. \A x \in DOMAIN p :
        /\ r[x].role = o[p[x]].role /\ r[x].id = o[p[x]].id
        /\ r[x].calls = IF p[x] \in state.bare THEN {} ELSE o[p[x]].calls
  BY <1>0 DEF Left
<1>1. ASSUME NEW x \in DOMAIN r, NEW id \in r[x].calls PROVE \E y \in Block(r, x) : r[y].id = id
  <2>1. p[x] \notin state.bare /\ id \in o[p[x]].calls /\ p[x] \in 1 .. n
    BY <1>0, <1>1, <1>c
  <2>2. AllAnswered(o, p[x], state.gone)
    BY <2>1 DEF Visited
  <2>3. PICK j \in Block(o, p[x]) : o[j].id = id /\ j \notin state.gone
    BY <2>1, <2>2 DEF AllAnswered
  <2>4. j \in S
    BY <1>0, <2>1, <2>3 DEF Block
  <2>5. PICK y \in DOMAIN p : p[y] = j
    BY <1>a, <2>4
  <2> QED
    BY <1>0, <1>b, <1>c, <2>3, <2>5
<1>2. ASSUME NEW y \in DOMAIN r, r[y].role = "tool"
      PROVE  \E x \in 1 .. y - 1 : /\ x \in DOMAIN p /\ y \in Block(r, x) /\ r[y].id \in r[x].calls
                                   /\ Answers(o, p[x], p[y])
  <2>1. o[p[y]].role = "tool" /\ p[y] \in S /\ y \in DOMAIN p
    BY <1>0, <1>2, <1>c
  <2>2. PICK i \in (1 .. n) \ (state.gone \cup state.bare) : Answers(o, i, p[y])
    BY <2>1, AnswersLeft
  <2>3. PICK x \in DOMAIN p : p[x] = i
    BY <1>a, <2>2
  <2>4. p[y] \in Block(o, p[x]) /\ o[p[y]].id \in o[p[x]].calls /\ p[x] \notin state.bare
    BY <2>2, <2>3 DEF Answers
  <2>5. r[y].id \in r[x].calls
    BY <1>c, <2>1, <2>4
  <2>6. y \in Block(r, x) /\ x \in 1 .. y - 1
    BY <1>b, <2>1, <2>4
  <2> QED
    BY <2>2, <2>3, <2>5, <2>6
<1>3. ASSUME NEW x \in DOMAIN r, NEW y \in Block(r, x), NEW z \in Block(r, x), r[y].id = r[z].id
      PROVE  y = z
  <2>0. /\ y \in x + 1 .. Len(p) /\ \A l \in x + 1 .. y : r[l].role = "tool"
        /\ z \in x + 1 .. Len(p) /\ \A l \in x + 1 .. z : r[l].role = "tool"
        /\ x \in 1 .. Len(p) /\ Len(p) \in Nat
    <3>1. Len(r) = Len(p)
      BY DEF Left
    <3> QED
      BY <1>0, <3>1 DEF Block
  <2>1. y \in DOMAIN r /\ z \in DOMAIN r /\ r[y].role = "tool" /\ r[z].role = "tool"
    BY <1>0, <2>0
  <2>2. PICK u \in 1 .. y - 1 : u \in DOMAIN p /\ Answers(o, p[u], p[y])
    BY <1>2, <2>1
  <2>3. PICK v \in 1 .. z - 1 : v \in DOMAIN p /\ Answers(o, p[v], p[z])
    BY <1>2, <2>1
  <2>4. r[u].role # "tool" /\ r[v].role # "tool"
    BY <1>c, <2>2, <2>3 DEF Answers
  <2>5. u <= x /\ v <= x
    BY <2>0, <2>2, <2>3, <2>4
  <2>6. /\ p[u] \in Nat /\ p[v] \in Nat /\ p[y] \in Nat /\ p[z] \in Nat
        /\ p[y] \in p[u] + 1 .. n /\ p[z] \in p[v] + 1 .. n
        /\ \A l \in p[u] + 1 .. p[y] : o[l].role = "tool"
        /\ \A l \in p[v] + 1 .. p[z] : o[l].role = "tool"
        /\ o[p[u]].role # "tool" /\ o[p[v]].role # "tool"
    BY <1>0, <2>1, <2>2, <2>3 DEF Answers, Block
  <2>7. u < z /\ v < y
    BY <2>0, <2>5
  <2>8. p[u] < p[z] /\ p[v] < p[y]
    BY <1>0, <2>1, <2>2, <2>3, <2>7 DEF AscendingIs
  <2>9. ~(p[u] < p[v]) /\ ~(p[v] < p[u])
    <3>1. ASSUME p[u] < p[v] PROVE FALSE
      <4>1. p[v] \in p[u] + 1 .. p[y]
        BY <2>6, <2>8, <3>1
      <4> QED
        BY <2>6, <4>1
    <3>2. ASSUME p[v] < p[u] PROVE FALSE
      <4>1. p[u] \in p[v] + 1 .. p[z]
        BY <2>6, <2>8, <3>2
      <4> QED
        BY <2>6, <4>1
    <3> QED
      BY <3>1, <3>2
  <2>10. p[u] = p[v]
    BY <2>6, <2>9
  <2>11. p[y] \in Block(o, p[u]) /\ p[z] \in Block(o, p[u]) /\ p[u] \in DOMAIN o
    BY <1>0, <2>2, <2>3, <2>10 DEF Answers
  <2>12. o[p[y]].id = o[p[z]].id
    BY <1>0, <1>3, <1>c, <2>1
  <2>13. p[y] = p[z]
    BY <2>11, <2>12 DEF Paired, Once
  <2> QED
    BY <1>0, <2>0, <2>1, <2>6, <2>13 DEF AscendingIs
<1>4. \A i \in DOMAIN r : r[i].calls \subseteq {r[j].id : j \in Block(r, i)}
  BY <1>1
<1>5. \A j \in DOMAIN r : r[j].role = "tool" =>
        \E i \in 1 .. j - 1 : j \in Block(r, i) /\ r[j].id \in r[i].calls
  BY <1>2
<1>6. \A i \in DOMAIN r : \A j, k \in Block(r, i) : r[j].id = r[k].id => j = k
  BY <1>3
<1> QED
  BY <1>4, <1>5, <1>6 DEF WellFormed

\* stripOrphanedDeepSeekToolRounds after sanitizeDeepSeekMessages.
LEMMA StripIs ==
  ASSUME NEW o, Paired(o)
  PROVE  WellFormed(StripOrphanedToolRounds(o))
<1> DEFINE n == Len(o)
<1>0. o \in Seq(Wire) /\ n \in Nat /\ DOMAIN o = 1 .. n
  BY DEF Paired
<1>1. PICK state : state = Found(o)
  OBVIOUS
<1>2. Visited(o, n, state)
  BY <1>1, AllVisited
<1>3. PICK S \in SUBSET (1 .. n) : S = (1 .. n) \ state.gone
  OBVIOUS
<1>4. PICK p : p = Ascending(S, n)
  OBVIOUS
<1>5. AscendingIs(p, S)
  BY <1>0, <1>4, Ascends
<1> DEFINE r == [k \in DOMAIN p |->
                   IF p[k] \in state.bare THEN [o[p[k]] EXCEPT !.calls = {}] ELSE o[p[k]]]
<1>6. StripOrphanedToolRounds(o) = r
  BY <1>0, <1>1, <1>3, <1>4 DEF StripOrphanedToolRounds, Found, VisitAll
<1>7. Left(o, state.bare, p, r)
  <2>1. p \in Seq(Nat) /\ Len(p) \in Nat /\ DOMAIN p = 1 .. Len(p)
    BY <1>5 DEF AscendingIs
  <2>2. DOMAIN r = 1 .. Len(p) /\ Len(r) = Len(p)
    BY <2>1
  <2>3. ASSUME NEW x \in 1 .. Len(p)
        PROVE  /\ p[x] \in DOMAIN o /\ r[x].role = o[p[x]].role /\ r[x].id = o[p[x]].id
               /\ r[x].calls = IF p[x] \in state.bare THEN {} ELSE o[p[x]].calls
    <3>1. p[x] \in 1 .. n /\ x \in DOMAIN p
      BY <1>3, <1>5, <2>1 DEF AscendingIs
    <3>2. o[p[x]] \in WireMessages
      BY <1>0, <3>1 DEF Wire
    <3>3. r[x] = IF p[x] \in state.bare THEN [o[p[x]] EXCEPT !.calls = {}] ELSE o[p[x]]
      BY <3>1
    <3> QED
      BY <1>0, <3>1, <3>2, <3>3 DEF WireMessages
  <2> HIDE DEF r
  <2> QED
    BY <2>1, <2>2, <2>3 DEF Left
<1>8. WellFormed(r)
  <2> HIDE DEF r
  <2> QED
    BY <1>2, <1>3, <1>5, <1>7, LeftWellFormed
<1> QED
  BY <1>6, <1>8

-----------------------------------------------------------------------------
(* What is said around the window.                                         *)

\* A set of numbers has a smallest one.
LEMMA HasSmallest ==
  ASSUME NEW S \in SUBSET Nat, S # {}
  PROVE  Min(S) \in S /\ \A y \in S : Min(S) <= y
<1>1. PICK m \in S : \A y \in S : ~ (<<y, m>> \in Smaller)
  BY SmallerWellFounded, WFMin, Zenon
<1>2. ASSUME NEW y \in S PROVE m <= y
  <2>1. <<y, m>> \in Nat \X Nat /\ ~ (<<y, m>> \in Smaller)
    BY <1>1
  <2>2. <<y, m>>[1] = y /\ <<y, m>>[2] = m
    OBVIOUS
  <2> QED
    BY <2>1, <2>2 DEF Smaller
<1> QED
  BY <1>2 DEF Min

\* A message inserted between others.
LEMMA Inserts ==
  ASSUME NEW ms \in Seq(Wire), NEW m \in Wire, NEW i \in 1 .. Len(ms) + 1
  PROVE  InsertAt(ms, i, m) \in Seq(Wire)
<1>1. SubSeq(ms, 1, i - 1) \in Seq(Wire)
  OBVIOUS
<1>2. SubSeq(ms, i, Len(ms)) \in Seq(Wire)
  OBVIOUS
<1>3. <<m>> \in Seq(Wire)
  OBVIOUS
<1> QED
  BY <1>1, <1>2, <1>3 DEF InsertAt

\* The prompt, the summary, advice and the blocks of skills.
LEMMA SystemIsWire == FromSystem \in Wire
  BY DEF FromSystem, Wire, WireMessages, WireRoles, Plain

\* injectCapabilityContextBlocks inserts into the messages.
LEMMA TakesSkills ==
  ASSUME NEW ms \in Seq(Wire)
  PROVE  WithCapabilities(ms) \in Seq(Wire)
<1> DEFINE users == {i \in DOMAIN ms : ms[i].role = "user"}
<1>1. users \in SUBSET Nat /\ Len(ms) \in Nat /\ users \subseteq 1 .. Len(ms)
  OBVIOUS
<1>2. PICK i : i = IF users = {} THEN Len(ms) + 1 ELSE Min(users)
  OBVIOUS
<1>3. i \in 1 .. Len(ms) + 1
  <2>1. CASE users = {}
    BY <1>1, <1>2, <2>1
  <2>2. CASE users # {}
    <3>1. Min(users) \in users
      <4> HIDE DEF users
      <4> QED
        BY <1>1, <2>2, HasSmallest
    <3> HIDE DEF users
    <3> QED
      BY <1>1, <1>2, <2>2, <3>1
  <2> QED
    BY <2>1, <2>2
<1>4. InsertAt(ms, i, FromSystem) \in Seq(Wire)
  BY <1>3, Inserts, SystemIsWire
<1> QED
  BY <1>2, <1>4 DEF WithCapabilities

\* What stands in the window may go out on the wire.
LEMMA WindowIsWire == CallsInv => window \in Seq(Wire)
<1> SUFFICES ASSUME CallsInv PROVE window \in Seq(Wire)
  OBVIOUS
<1>1. window \in Seq(WindowMessages) /\ \A i \in DOMAIN window : Plain(window[i])
  BY DEF CallsInv, CallsTypeOK, WindowIsPlain
<1>2. \A m \in WindowMessages : m \in WireMessages
  BY DEF WindowMessages, WireMessages, WireRoles
<1>3. \A i \in DOMAIN window : window[i] \in Wire
  BY <1>1, <1>2 DEF Wire
<1> QED
  BY <1>1, <1>3

\* What is said for one step.
LEMMA AssemblesWire ==
  ASSUME CallsInv, NEW saying \in Said
  PROVE  Assembled(saying) \in Seq(Wire)
<1>1. window \in Seq(Wire) /\ <<FromSystem>> \in Seq(Wire) /\ <<>> \in Seq(Wire)
  BY WindowIsWire, SystemIsWire
<1>2. PICK ms : ms = ContextMessages(saying.summarised)
  OBVIOUS
<1>3. ms \in Seq(Wire)
  BY <1>1, <1>2 DEF ContextMessages
<1>4. PICK advised : advised = Advised(ms, saying.advised)
  OBVIOUS
<1>5. advised \in Seq(Wire)
  BY <1>1, <1>3, <1>4 DEF Advised
<1>6. WithCapabilities(advised) \in Seq(Wire)
  BY <1>5, TakesSkills
<1> QED
  BY <1>2, <1>4, <1>5, <1>6 DEF Assembled

\* Whatever the window holds, it goes out well formed.
LEMMA PayloadRight == CallsInv => PayloadIsWellFormed
<1> SUFFICES ASSUME CallsInv PROVE PayloadIsWellFormed
  OBVIOUS
<1>1. ASSUME request.isDeepSeek, NEW saying \in Said PROVE WellFormed(Payload(saying))
  <2>1. PICK ms : ms = Assembled(saying)
    OBVIOUS
  <2>2. ms \in Seq(Wire)
    BY <2>1, AssemblesWire
  <2>3. Paired(WithoutStrayResults(ms))
    BY <2>2, StraysGone
  <2>4. PICK o : o = WithoutStrayResults(ms)
    OBVIOUS
  <2>5. WellFormed(StripOrphanedToolRounds(o))
    BY <2>3, <2>4, StripIs
  <2> QED
    BY <1>1, <2>1, <2>4, <2>5 DEF Payload
<1> QED
  BY <1>1 DEF PayloadIsWellFormed, WellFormed, Block

-----------------------------------------------------------------------------
(* The invariant holds initially and is kept.                              *)

\* What arrived of a script, as the invariant has it.
Arrived(a, s) ==
  /\ a.text \in {FALSE, s.text # "none"}
  /\ DOMAIN a.parts = DOMAIN s.parts
  /\ \A k \in DOMAIN a.parts : a.parts[k] \in 0 .. s.parts[k]
  /\ a \in [text: BOOLEAN, parts: Seq(Nat)]

\* The calls of a script are numbered from one.
LEMMA PartsOf ==
  ASSUME NEW s \in Scripts
  PROVE  /\ s.parts \in Seq(Nat \ {0}) /\ DOMAIN s.parts = 1 .. Len(s.parts)
         /\ Len(s.parts) \in 0 .. MaxToolCalls
<1>1. PICK n \in 0 .. MaxToolCalls : s.parts \in [1 .. n -> 1 .. MaxParts]
  BY DEF Scripts
<1>2. MaxToolCalls \in Nat /\ MaxParts \in Nat
  BY ModelCallsAssumption
<1>3. n \in Nat /\ s.parts \in Seq(Nat \ {0}) /\ Len(s.parts) = n
  BY <1>1, <1>2
<1> QED
  BY <1>1, <1>2, <1>3

\* A stream starts with nothing.
LEMMA NothingArrived ==
  ASSUME NEW s \in Scripts
  PROVE  Arrived(NothingOf(s), s)
<1>1. s.parts \in Seq(Nat \ {0}) /\ DOMAIN s.parts = 1 .. Len(s.parts) /\ Len(s.parts) \in Nat
  BY PartsOf
<1>2. PICK none : none = [k \in DOMAIN s.parts |-> 0]
  OBVIOUS
<1>3. none \in Seq(Nat) /\ DOMAIN none = DOMAIN s.parts /\ \A k \in DOMAIN none : none[k] = 0
  BY <1>1, <1>2
<1>4. \A k \in DOMAIN s.parts : s.parts[k] \in Nat
  BY <1>1
<1> QED
  BY <1>2, <1>3, <1>4 DEF NothingOf, Arrived

\* Between requests there is no script.
LEMMA NoScriptIsScript == NoScript \in Scripts
<1>1. <<>> \in [1 .. 0 -> 1 .. MaxParts]
  OBVIOUS
<1>2. 0 \in 0 .. MaxToolCalls
  BY ModelCallsAssumption
<1>3. <<>> \in UNION {[1 .. n -> 1 .. MaxParts] : n \in 0 .. MaxToolCalls}
  BY <1>1, <1>2
<1> QED
  BY <1>3 DEF NoScript, Scripts

\* The first task of a session.
LEMMA CallsStart == CallsInit => CallsInv
<1> SUFFICES ASSUME CallsInit PROVE CallsInv
  OBVIOUS
<1>1. FromUser \in WindowMessages /\ Plain(FromUser)
  BY DEF FromUser, WindowMessages, Plain
<1>2. window \in Seq(WindowMessages) /\ WindowIsPlain
  BY <1>1 DEF CallsInit, WindowIsPlain
<1>3. Arrived(acc, script) /\ script \in Scripts
  BY NothingArrived, NoScriptIsScript DEF CallsInit
<1>4. waitsFor \in Waits /\ toHandle \in Seq(ToolCalls) /\ request \in Requests
  BY DEF CallsInit, Waits, Requests, NoRequest
<1>5. attempt \in 0 .. MaxAttempts /\ aborted \in Aborts /\ answers \in 0 .. MaxRequests
  <2>1. MaxAttempts \in Nat /\ MaxRequests \in Nat
    BY ModelCallsAssumption
  <2>2. aborted \in Aborts
    BY DEF CallsInit, Aborts
  <2>3. attempt \in 0 .. MaxAttempts /\ answers \in 0 .. MaxRequests
    BY <2>1 DEF CallsInit
  <2> QED
    BY <2>2, <2>3
<1>6. CallsTypeOK
  BY <1>2, <1>3, <1>4, <1>5 DEF CallsTypeOK, Arrived
<1>7. CallsRight
  BY <1>3 DEF CallsInit, CallsRight, Arrived
<1> QED
  BY <1>2, <1>6, <1>7 DEF CallsInv

\* What a call that is over leaves behind.
LEMMA OverLeaves ==
  ASSUME CallOver
  PROVE  /\ request' \in Requests /\ attempt' \in 0 .. MaxAttempts
         /\ script' \in Scripts /\ Arrived(acc', script')
<1>1. script' = NoScript /\ acc' = NothingOf(NoScript)
  BY DEF CallOver
<1>2. script' \in Scripts /\ Arrived(acc', script')
  BY <1>1, NothingArrived, NoScriptIsScript
<1>3. request' \in Requests /\ attempt' \in 0 .. MaxAttempts
  BY ModelCallsAssumption DEF CallOver, NoRequest, Requests
<1> QED
  BY <1>2, <1>3

\* A message more in the window.
LEMMA WindowGrows ==
  ASSUME CallsInv, NEW m \in WindowMessages, Plain(m), window' = Append(window, m)
  PROVE  window' \in Seq(WindowMessages) /\ WindowIsPlain'
<1>1. window \in Seq(WindowMessages) /\ \A i \in DOMAIN window : Plain(window[i])
  BY DEF CallsInv, CallsTypeOK, WindowIsPlain
<1>2. PICK ms : ms = Append(window, m)
  OBVIOUS
<1>3. ms \in Seq(WindowMessages) /\ \A i \in DOMAIN ms : i \in DOMAIN window \/ ms[i] = m
  BY <1>1, <1>2
<1>4. \A i \in DOMAIN ms : i \in DOMAIN window => ms[i] = window[i]
  BY <1>1, <1>2
<1>5. \A i \in DOMAIN ms : Plain(ms[i])
  BY <1>1, <1>3, <1>4
<1> QED
  BY <1>2, <1>3, <1>5 DEF WindowIsPlain

\* What a user, a tool and a model say.
LEMMA SaidIsPlain ==
  /\ FromUser \in WindowMessages /\ Plain(FromUser)
  /\ \A id \in ToolCallIds : FromTool(id) \in WindowMessages /\ Plain(FromTool(id))
  /\ \A ids \in SUBSET ToolCallIds, text \in BOOLEAN :
       FromModel(ids, text) \in WindowMessages /\ Plain(FromModel(ids, text))
<1>1. FromUser \in WindowMessages /\ Plain(FromUser)
  BY DEF FromUser, WindowMessages, Plain
<1>2. \A id \in ToolCallIds : FromTool(id) \in WindowMessages /\ Plain(FromTool(id))
  BY DEF FromTool, WindowMessages, Plain
<1>3. \A ids \in SUBSET ToolCallIds, text \in BOOLEAN :
        FromModel(ids, text) \in WindowMessages /\ Plain(FromModel(ids, text))
  BY DEF FromModel, WindowMessages, Plain
<1> QED
  BY <1>1, <1>2, <1>3

\* An answer that was read completes its request.
LEMMA CompleteKeeps ==
  ASSUME CallsInv, NEW calls \in Seq(ToolCalls), NEW text \in BOOLEAN, answers < MaxRequests,
         Complete(calls, text)
  PROVE  CallsInv'
<1> DEFINE taken == IF request.tools THEN calls ELSE <<>>
<1>1. /\ window' = Append(window, FromModel(IdsOf(taken), text))
      /\ toHandle' = taken /\ waitsFor' = "handling" /\ answers' = answers + 1
      /\ CallOver /\ aborted' = aborted
  BY DEF Complete
<1>2. taken \in Seq(ToolCalls)
  OBVIOUS
<1> HIDE DEF taken
<1>3. \A k \in DOMAIN taken : taken[k] \in ToolCalls
  BY <1>2
<1>4. IdsOf(taken) \in SUBSET ToolCallIds
  BY <1>3 DEF IdsOf, ToolCalls
<1>5. PICK m : m = FromModel(IdsOf(taken), text)
  OBVIOUS
<1>6. m \in WindowMessages /\ Plain(m)
  BY <1>4, <1>5, SaidIsPlain
<1>7. window' \in Seq(WindowMessages) /\ WindowIsPlain'
  BY <1>1, <1>5, <1>6, WindowGrows
<1>8. /\ request' \in Requests /\ attempt' \in 0 .. MaxAttempts
      /\ script' \in Scripts /\ Arrived(acc', script')
  BY <1>1, OverLeaves
<1>9. answers' \in 0 .. MaxRequests
  BY <1>1, ModelCallsAssumption DEF CallsInv, CallsTypeOK
<1>10. waitsFor' \in Waits /\ toHandle' \in Seq(ToolCalls) /\ aborted' \in Aborts
  BY <1>1, <1>2 DEF Waits, CallsInv, CallsTypeOK
<1>11. CallsTypeOK'
  BY <1>7, <1>8, <1>9, <1>10 DEF CallsTypeOK, Arrived
<1>12. CallsRight'
  BY <1>1, <1>8 DEF CallsRight, Arrived
<1> QED
  BY <1>7, <1>11, <1>12 DEF CallsInv

\* A call that failed for good.
LEMMA GiveUpKeeps ==
  ASSUME CallsInv, GiveUp
  PROVE  CallsInv'
<1>1. /\ waitsFor' = "failed" /\ CallOver /\ window' = window /\ toHandle' = toHandle
      /\ aborted' = aborted /\ answers' = answers
  BY DEF GiveUp
<1>2. /\ request' \in Requests /\ attempt' \in 0 .. MaxAttempts
      /\ script' \in Scripts /\ Arrived(acc', script')
  BY <1>1, OverLeaves
<1>3. CallsTypeOK'
  BY <1>1, <1>2 DEF CallsTypeOK, CallsInv, Arrived, Waits
<1>4. WindowIsPlain' /\ CallsRight'
  BY <1>1, <1>2 DEF WindowIsPlain, CallsRight, CallsInv, Arrived
<1> QED
  BY <1>3, <1>4 DEF CallsInv

\* The calls a whole answer spells.
LEMMA CallsRead ==
  ASSUME CallsInv, waitsFor = "reading"
  PROVE  NormalizedToolCalls \in Seq(ToolCalls)
<1>1. /\ script \in Scripts /\ answers \in Nat /\ answers + 1 \in 1 .. MaxRequests
      /\ MaxRequests \in Nat /\ MaxToolCalls \in Nat /\ MaxToolCalls >= 1
  BY ModelCallsAssumption DEF CallsInv, CallsTypeOK, CallsRight
<1>2. DOMAIN script.parts = 1 .. Len(script.parts) /\ Len(script.parts) \in 0 .. MaxToolCalls
  BY <1>1, PartsOf
<1>3. ASSUME NEW k \in DOMAIN script.parts
      PROVE  ToolCall(k, NamelessToolCall, "given") \in ToolCalls
  BY <1>1, <1>2 DEF ToolCall, ToolCalls, ToolCallIds, NamelessToolCall, JsonAction
<1>4. [id |-> <<JsonAction, 1>>, arguments |-> "given"] \in ToolCalls
  BY <1>1 DEF ToolCalls, ToolCallIds, JsonAction
<1>5. <<[id |-> <<JsonAction, 1>>, arguments |-> "given"]>> \in Seq(ToolCalls)
  BY <1>4
<1>6. [k \in DOMAIN script.parts |-> ToolCall(k, NamelessToolCall, "given")] \in Seq(ToolCalls)
  BY <1>1, <1>2, <1>3
<1> QED
  BY <1>5, <1>6 DEF NormalizedToolCalls

\* The places of a stream at which something arrived, in order.
LEMMA PlacesArrived ==
  ASSUME CallsInv, NEW arrived,
         arrived = Ascending({k \in DOMAIN acc.parts : acc.parts[k] > 0}, Len(acc.parts))
  PROVE  /\ AscendingIs(arrived, {k \in DOMAIN acc.parts : acc.parts[k] > 0})
         /\ arrived \in Seq(Nat) /\ \A i \in DOMAIN arrived : arrived[i] \in DOMAIN script.parts
<1> DEFINE S == {k \in DOMAIN acc.parts : acc.parts[k] > 0}
           n == Len(acc.parts)
<1>1. n \in Nat /\ DOMAIN acc.parts = 1 .. n /\ DOMAIN acc.parts = DOMAIN script.parts
  BY DEF CallsInv, CallsTypeOK, CallsRight
<1>2. S \in SUBSET (1 .. n)
  BY <1>1
<1>3. AscendingIs(Ascending(S, n), S)
  <2> HIDE DEF S, n
  <2> QED
    BY <1>1, <1>2, Ascends
<1> QED
  BY <1>1, <1>3 DEF AscendingIs

\* The calls of a stream, as far as it came.
LEMMA CallsBuilt ==
  ASSUME CallsInv, waitsFor = "streaming"
  PROVE  BuiltToolCalls \in Seq(ToolCalls)
<1>1. /\ script \in Scripts /\ answers \in Nat /\ answers + 1 \in 1 .. MaxRequests
      /\ MaxRequests \in Nat /\ MaxToolCalls \in Nat
  BY ModelCallsAssumption DEF CallsInv, CallsTypeOK, CallsRight
<1>2. DOMAIN script.parts = 1 .. Len(script.parts) /\ Len(script.parts) \in 0 .. MaxToolCalls
  BY <1>1, PartsOf
<1>3. PICK arrived :
        arrived = Ascending({k \in DOMAIN acc.parts : acc.parts[k] > 0}, Len(acc.parts))
  OBVIOUS
<1>4. arrived \in Seq(Nat) /\ \A i \in DOMAIN arrived : arrived[i] \in DOMAIN script.parts
  BY <1>3, PlacesArrived
<1>5. ASSUME NEW i \in DOMAIN arrived, NEW arguments \in {"given", "empty"}
      PROVE  ToolCall(arrived[i], StreamToolCall, arguments) \in ToolCalls
  <2>1. arrived[i] \in 1 .. MaxToolCalls
    BY <1>1, <1>2, <1>4
  <2> QED
    BY <1>1, <2>1 DEF ToolCall, ToolCalls, ToolCallIds, StreamToolCall, JsonAction
<1>6. DOMAIN arrived = 1 .. Len(arrived) /\ Len(arrived) \in Nat
  BY <1>4
<1>7. [i \in DOMAIN arrived |->
         ToolCall(arrived[i], StreamToolCall,
                  IF acc.parts[arrived[i]] = script.parts[arrived[i]]
                  THEN "given" ELSE "empty")] \in Seq(ToolCalls)
  BY <1>5, <1>6
<1> QED
  BY <1>3, <1>7 DEF BuiltToolCalls

\* Every step keeps the invariant.
LEMMA CallsKeep == CallsInv /\ [CallsNext]_callVars => CallsInv'
<1> SUFFICES ASSUME CallsInv, [CallsNext]_callVars PROVE CallsInv'
  OBVIOUS
<1>a. /\ waitsFor \in Waits /\ window \in Seq(WindowMessages) /\ toHandle \in Seq(ToolCalls)
      /\ request \in Requests /\ attempt \in 0 .. MaxAttempts /\ aborted \in Aborts
      /\ script \in Scripts /\ answers \in 0 .. MaxRequests
      /\ Arrived(acc, script) /\ WindowIsPlain
  BY DEF CallsInv, CallsTypeOK, CallsRight, Arrived
<1>b. {MaxAttempts, MaxRequests} \subseteq Nat \ {0}
  BY ModelCallsAssumption
\* Steps of the attempts leave the window and the answers alone.
<1>0. ASSUME window' = window, toHandle' = toHandle, waitsFor' \in Waits, request' \in Requests,
             attempt' \in 0 .. MaxAttempts, aborted' \in Aborts, script' \in Scripts,
             Arrived(acc', script'), answers' = answers,
             waitsFor' \in {"streaming", "reading"} => answers < MaxRequests,
             waitsFor' = "backoff" => attempt' < MaxAttempts
      PROVE  CallsInv'
  <2>1. CallsTypeOK'
    BY <1>0, <1>a DEF CallsTypeOK, Arrived
  <2>2. WindowIsPlain'
    BY <1>0, <1>a DEF WindowIsPlain
  <2>3. CallsRight'
    BY <1>0 DEF CallsRight, Arrived
  <2> QED
    BY <2>1, <2>2, <2>3 DEF CallsInv
\* Steps of the session leave the requests and their answers alone.
<1>00. ASSUME request' = request, attempt' = attempt, script' = script, acc' = acc,
              answers' = answers, window' \in Seq(WindowMessages), WindowIsPlain',
              toHandle' \in Seq(ToolCalls), waitsFor' \in {"idle", "handling", "failed"},
              aborted' \in Aborts
       PROVE  CallsInv'
  <2>1. CallsTypeOK'
    BY <1>00, <1>a DEF CallsTypeOK, Arrived, Waits
  <2>2. CallsRight'
    BY <1>00, <1>a DEF CallsRight, Arrived
  <2> QED
    BY <1>00, <2>1, <2>2 DEF CallsInv
<1>1. ASSUME NEW kind \in RequestKinds, Send(kind) PROVE CallsInv'
  BY <1>0, <1>1, <1>a, <1>b, ModelCallsAssumption DEF Send, Waits
<1>2. ASSUME NEW s \in Scripts, Answered(s) PROVE CallsInv'
  <2>1. Arrived(acc', script') /\ script' \in Scripts
    BY <1>2, NothingArrived DEF Answered
  <2>2. waitsFor' \in Waits /\ waitsFor' # "backoff"
    BY <1>2 DEF Answered, Waits
  <2> QED
    BY <1>0, <1>2, <1>a, <2>1, <2>2 DEF Answered
<1>3. ASSUME RetryOrGiveUp PROVE CallsInv'
  <2>1. CASE attempt < MaxAttempts /\ waitsFor' = "backoff"
             /\ UNCHANGED <<window, toHandle, request, attempt, aborted, script, acc, answers>>
    BY <1>0, <1>a, <2>1 DEF Waits
  <2> QED
    BY <1>3, <2>1, GiveUpKeeps DEF RetryOrGiveUp
<1>4. CASE FailsForNow \/ Refused \/ TimesOut \/ AbortedFetch \/ AbortSeen \/ BreaksOff
  BY <1>3, <1>4, GiveUpKeeps DEF FailsForNow, Refused, TimesOut, AbortedFetch, AbortSeen, BreaksOff
<1>5. CASE RetryAfterDelay
  <2>1. attempt < MaxAttempts /\ attempt + 1 \in 0 .. MaxAttempts
    BY <1>5, <1>a, <1>b DEF RetryAfterDelay, CallsInv, CallsRight
  <2> QED
    BY <1>0, <1>5, <1>a, <2>1 DEF RetryAfterDelay, Waits
<1>6. CASE ReadAnswer
  <2>1. answers < MaxRequests
    BY <1>6 DEF ReadAnswer, CallsInv, CallsRight
  <2>2. NormalizedToolCalls \in Seq(ToolCalls)
    BY <1>6, CallsRead DEF ReadAnswer
  <2>3. Complete(NormalizedToolCalls, script.text = "plain") /\ (script.text = "plain") \in BOOLEAN
    BY <1>6 DEF ReadAnswer
  <2> QED
    BY <2>1, <2>2, <2>3, CompleteKeeps
<1>7. CASE ApplyChunk
  <2>0. /\ script' = script /\ answers' = answers /\ waitsFor = "streaming"
        /\ UNCHANGED <<waitsFor, window, toHandle, request, attempt, aborted, answers>>
    BY <1>7 DEF ApplyChunk
  <2>1. Arrived(acc', script)
    <3>0. acc \in [text: BOOLEAN, parts: Seq(Nat)] /\ DOMAIN acc.parts = DOMAIN script.parts
      BY <1>a DEF Arrived
    <3>1. CASE acc.text # (script.text # "none") /\ acc' = [acc EXCEPT !.text = TRUE]
      <4>1. script.text # "none"
        BY <1>a, <3>1 DEF Arrived
      <4>2. acc'.text = TRUE /\ acc'.parts = acc.parts /\ acc' \in [text: BOOLEAN, parts: Seq(Nat)]
        BY <3>0, <3>1
      <4> QED
        BY <1>a, <4>1, <4>2 DEF Arrived
    <3>2. ASSUME NEW k \in DOMAIN script.parts, acc.parts[k] < script.parts[k],
                 acc' = [acc EXCEPT !.parts[k] = @ + 1]
          PROVE  Arrived(acc', script)
      <4>1. /\ acc'.text = acc.text
            /\ acc'.parts = [acc.parts EXCEPT ![k] = acc.parts[k] + 1]
            /\ acc' = [text |-> acc.text, parts |-> [acc.parts EXCEPT ![k] = acc.parts[k] + 1]]
        BY <3>0, <3>2
      <4>2. acc.parts[k] \in Nat /\ k \in DOMAIN acc.parts
        BY <3>0, <3>2
      <4>3. [acc.parts EXCEPT ![k] = acc.parts[k] + 1] \in Seq(Nat)
        BY <3>0, <4>2
      <4>4. acc' \in [text: BOOLEAN, parts: Seq(Nat)]
        BY <3>0, <4>1, <4>3
      <4>5. script.parts \in Seq(Nat \ {0})
        BY <1>a, PartsOf
      <4>6. script.parts[k] \in Nat
        BY <3>2, <4>5
      <4>7. \A i \in DOMAIN acc.parts : acc.parts[i] \in 0 .. script.parts[i]
        BY <1>a DEF Arrived
      <4>8. ASSUME NEW i \in DOMAIN acc'.parts PROVE acc'.parts[i] \in 0 .. script.parts[i]
        <5>1. CASE i = k
          BY <3>0, <3>2, <4>1, <4>2, <4>6, <5>1
        <5>2. CASE i # k
          BY <3>0, <4>1, <4>7, <4>8, <5>2
        <5> QED
          BY <5>1, <5>2
      <4>9. acc'.text \in {FALSE, script.text # "none"} /\ DOMAIN acc'.parts = DOMAIN script.parts
        BY <1>a, <3>0, <4>1 DEF Arrived
      <4> QED
        BY <4>4, <4>8, <4>9 DEF Arrived
    <3> QED
      BY <1>7, <3>1, <3>2 DEF ApplyChunk
  <2>2. waitsFor' = "streaming" /\ answers < MaxRequests
    BY <2>0 DEF CallsInv, CallsRight
  <2> QED
    BY <1>0, <1>a, <2>0, <2>1, <2>2
<1>8. CASE Done \/ EndsEarly
  <2>1. answers < MaxRequests
    BY <1>8 DEF Done, EndsEarly, CallsInv, CallsRight
  <2>2. BuiltToolCalls \in Seq(ToolCalls)
    BY <1>8, CallsBuilt DEF Done, EndsEarly
  <2>3. Complete(BuiltToolCalls, acc.text /\ script.text = "plain")
    BY <1>8 DEF Done, EndsEarly, BuildResponse
  <2>4. (acc.text /\ script.text = "plain") \in BOOLEAN
    OBVIOUS
  <2> QED
    BY <2>1, <2>2, <2>3, <2>4, CompleteKeeps
<1>9. ASSUME NEW n \in 0 .. 2, HandleCall(n) PROVE CallsInv'
  <2>1. /\ toHandle # <<>> /\ toHandle' = Tail(toHandle) /\ waitsFor = "handling"
        /\ window' = Append(window, FromTool(Head(toHandle).id))
                       \o [i \in 1 .. n |-> FromUser]
        /\ UNCHANGED <<waitsFor, request, attempt, aborted, script, acc, answers>>
    BY <1>9 DEF HandleCall
  <2>2. Head(toHandle) \in ToolCalls /\ toHandle' \in Seq(ToolCalls)
    BY <1>a, <2>1
  <2>3. PICK m : m = FromTool(Head(toHandle).id)
    OBVIOUS
  <2>4. m \in WindowMessages /\ Plain(m) /\ FromUser \in WindowMessages /\ Plain(FromUser)
    BY <2>2, <2>3, SaidIsPlain DEF ToolCalls
  <2>5. PICK ms : ms = Append(window, m)
    OBVIOUS
  <2>6. PICK more : more = [i \in 1 .. n |-> FromUser]
    OBVIOUS
  <2>7. more \in Seq(WindowMessages) /\ \A i \in DOMAIN more : Plain(more[i])
    BY <2>4, <2>6
  <2>8. ms \in Seq(WindowMessages) /\ \A i \in DOMAIN ms : Plain(ms[i])
    <3>1. \A i \in DOMAIN ms : ms[i] = IF i \in DOMAIN window THEN window[i] ELSE m
      BY <1>a, <2>4, <2>5
    <3>2. \A i \in DOMAIN window : Plain(window[i])
      BY <1>a DEF WindowIsPlain
    <3>3. ms \in Seq(WindowMessages)
      BY <1>a, <2>4, <2>5
    <3> QED
      BY <2>4, <3>1, <3>2, <3>3
  <2>9. ms \o more \in Seq(WindowMessages)
        /\ \A i \in DOMAIN (ms \o more) :
             \/ i \in DOMAIN ms /\ (ms \o more)[i] = ms[i]
             \/ i - Len(ms) \in DOMAIN more /\ (ms \o more)[i] = more[i - Len(ms)]
    BY <2>7, <2>8
  <2>10. \A i \in DOMAIN (ms \o more) : Plain((ms \o more)[i])
    BY <2>7, <2>8, <2>9
  <2>11. window' = ms \o more
    BY <2>1, <2>3, <2>5, <2>6
  <2>12. window' \in Seq(WindowMessages) /\ WindowIsPlain'
    BY <2>9, <2>10, <2>11 DEF WindowIsPlain
  <2> QED
    BY <1>00, <1>a, <2>1, <2>2, <2>12
<1>10. CASE AbandonCalls
  <2>1. WindowIsPlain'
    BY <1>10, <1>a DEF AbandonCalls, WindowIsPlain
  <2>2. toHandle' \in Seq(ToolCalls)
    BY <1>10 DEF AbandonCalls
  <2> QED
    BY <1>00, <1>10, <1>a, <2>1, <2>2 DEF AbandonCalls
<1>11. CASE NextStep
  <2>1. WindowIsPlain'
    BY <1>11, <1>a DEF NextStep, WindowIsPlain
  <2> QED
    BY <1>00, <1>11, <1>a, <2>1 DEF NextStep
<1>12. CASE BeginTask
  <2>1. window' \in Seq(WindowMessages) /\ WindowIsPlain'
    BY <1>12, SaidIsPlain, WindowGrows DEF BeginTask
  <2> QED
    BY <1>00, <1>12, <1>a, <2>1 DEF BeginTask, Aborts
<1>13. ASSUME NEW reason \in {"error", "AbortError"}, Abort(reason) PROVE CallsInv'
  <2>1. waitsFor' = waitsFor /\ aborted' \in Aborts
        /\ UNCHANGED <<window, toHandle, request, attempt, script, acc, answers>>
    BY <1>13 DEF Abort, Aborts
  <2>2. waitsFor \in {"streaming", "reading"} => answers < MaxRequests
    BY DEF CallsInv, CallsRight
  <2>3. waitsFor = "backoff" => attempt < MaxAttempts
    BY DEF CallsInv, CallsRight
  <2> QED
    BY <1>0, <1>a, <2>1, <2>2, <2>3
<1>14. ASSUME NEW n \in 1 .. Len(window) - 1, Forget(n) PROVE CallsInv'
  <2>1. waitsFor = "idle" /\ window' = SubSeq(window, n + 1, Len(window))
        /\ UNCHANGED <<waitsFor, toHandle, request, attempt, aborted, script, acc, answers>>
    BY <1>14 DEF Forget
  <2>2. PICK ms : ms = SubSeq(window, n + 1, Len(window))
    OBVIOUS
  <2>3. /\ ms \in Seq(WindowMessages)
        /\ \A i \in DOMAIN ms : i + n \in DOMAIN window /\ ms[i] = window[i + n]
    BY <1>a, <1>14, <2>2
  <2>4. \A i \in DOMAIN ms : Plain(ms[i])
    BY <1>a, <2>3 DEF WindowIsPlain
  <2>5. window' \in Seq(WindowMessages) /\ WindowIsPlain'
    BY <2>1, <2>2, <2>3, <2>4 DEF WindowIsPlain
  <2> QED
    BY <1>00, <1>a, <2>1, <2>5
<1>15. CASE UNCHANGED callVars
  <2>1. CallsTypeOK' /\ WindowIsPlain' /\ CallsRight'
    BY <1>15 DEF callVars, CallsInv, CallsTypeOK, WindowIsPlain, CallsRight
  <2> QED
    BY <2>1 DEF CallsInv
<1> QED
  BY <1>1, <1>2, <1>3, <1>4, <1>5, <1>6, <1>7, <1>8, <1>9, <1>10, <1>11, <1>12, <1>13, <1>14,
     <1>15 DEF CallsNext

-----------------------------------------------------------------------------
(* What a stream becomes.                                                  *)

\* The numbers up to n, in order, are the numbers up to n.
LEMMA AllInOrder ==
  ASSUME NEW n \in Nat, NEW p, AscendingIs(p, 1 .. n)
  PROVE  Len(p) = n /\ \A k \in 1 .. n : p[k] = k
<1>0. /\ p \in Seq(Nat) /\ Len(p) \in Nat /\ DOMAIN p = 1 .. Len(p)
      /\ \A x \in DOMAIN p : p[x] \in 1 .. n
      /\ \A x, y \in DOMAIN p : p[x] < p[y] <=> x < y
      /\ \A i \in 1 .. n : \E x \in DOMAIN p : p[x] = i
  BY DEF AscendingIs
<1> DEFINE G == {k \in 0 .. n : k <= Len(p) /\ \A i \in 1 .. k : p[i] = i}
<1>1. 0 \in G
  BY <1>0
<1>2. ASSUME NEW k \in 1 .. n, k - 1 \in G PROVE k \in G
  <2>1. k - 1 <= Len(p) /\ \A i \in 1 .. k - 1 : p[i] = i
    BY <1>2
  <2>2. PICK x \in DOMAIN p : p[x] = k
    BY <1>0
  <2>3. x >= k
    <3> SUFFICES ASSUME x < k PROVE FALSE
      BY <1>0
    <3>1. x \in 1 .. k - 1
      BY <1>0
    <3> QED
      BY <2>1, <2>2, <3>1
  <2>4. k \in DOMAIN p
    BY <1>0, <2>3
  <2>5. p[k] = k
    <3>1. p[k] <= k
      <4> SUFFICES ASSUME p[k] > k PROVE FALSE
        BY <1>0, <2>4
      <4>1. p[x] < p[k]
        BY <1>0, <2>2, <2>4
      <4>2. x < k
        BY <1>0, <2>4, <4>1
      <4> QED
        BY <1>0, <2>3, <4>2
    <3>2. p[k] >= k
      <4> SUFFICES ASSUME p[k] < k PROVE FALSE
        BY <1>0, <2>4
      <4>1. p[k] \in 1 .. k - 1
        BY <1>0, <2>4
      <4>2. p[p[k]] = p[k] /\ p[k] \in DOMAIN p
        BY <1>0, <2>1, <4>1
      <4>3. ~(p[p[k]] < p[k])
        BY <1>0, <2>4, <4>2
      <4>4. ~(p[k] < k)
        BY <1>0, <2>4, <4>2, <4>3
      <4> QED
        BY <4>4
    <3> QED
      BY <1>0, <2>4, <3>1, <3>2
  <2>6. \A i \in 1 .. k : p[i] = i
    BY <2>1, <2>5
  <2>7. k <= Len(p)
    BY <1>0, <2>4
  <2> QED
    BY <2>6, <2>7
<1>3. n \in G
  <2> HIDE DEF G
  <2> QED
    BY <1>1, <1>2, Reaches
<1>4. n <= Len(p) /\ \A k \in 1 .. n : p[k] = k
  BY <1>3
<1>5. ~(n < Len(p))
  <2> SUFFICES ASSUME n < Len(p) PROVE FALSE
    OBVIOUS
  <2>1. n + 1 \in DOMAIN p /\ n + 1 \in Nat
    BY <1>0
  <2>2. p[n + 1] \in 1 .. n
    BY <1>0, <2>1
  <2>3. p[p[n + 1]] = p[n + 1] /\ p[n + 1] \in DOMAIN p
    BY <1>0, <1>4, <2>2
  <2>4. p[p[n + 1]] < p[n + 1]
    BY <1>0, <2>1, <2>2, <2>3
  <2> QED
    BY <2>2, <2>3, <2>4
<1>6. Len(p) = n
  <2>1. Len(p) \in Nat /\ n <= Len(p)
    BY <1>0, <1>4
  <2> QED
    BY <1>5, <2>1
<1> QED
  BY <1>4, <1>6

\* A stream that came to its end is built into every call, in the server's order.
LEMMA AllBuilt ==
  ASSUME CallsInv, acc = AllOf(script)
  PROVE  /\ Len(BuiltToolCalls) = Len(script.parts)
         /\ DOMAIN BuiltToolCalls = 1 .. Len(script.parts)
         /\ \A k \in DOMAIN BuiltToolCalls : BuiltToolCalls[k] = ToolCall(k, StreamToolCall, "given")
<1> DEFINE S == {k \in DOMAIN acc.parts : acc.parts[k] > 0}
<1>1. acc.parts = script.parts
  BY DEF AllOf
<1>2. PICK n : n = Len(script.parts)
  OBVIOUS
<1>3. /\ n \in Nat /\ DOMAIN acc.parts = 1 .. n /\ Len(acc.parts) = n
      /\ \A k \in 1 .. n : acc.parts[k] \in Nat \ {0}
  <2>1. script \in Scripts /\ MaxToolCalls \in Nat
    BY ModelCallsAssumption DEF CallsInv, CallsTypeOK
  <2>2. script.parts \in Seq(Nat \ {0}) /\ DOMAIN script.parts = 1 .. n /\ n \in 0 .. MaxToolCalls
    BY <1>2, <2>1, PartsOf
  <2> QED
    BY <1>1, <1>2, <2>1, <2>2
<1>4. S = 1 .. n
  BY <1>3
<1>5. PICK arrived : arrived = Ascending(S, Len(acc.parts))
  OBVIOUS
<1>6. AscendingIs(arrived, S)
  BY <1>5, PlacesArrived
<1>7. AscendingIs(arrived, 1 .. n)
  BY <1>4, <1>6
<1>8. Len(arrived) = n /\ \A k \in 1 .. n : arrived[k] = k
  BY <1>3, <1>7, AllInOrder
<1>9. DOMAIN arrived = 1 .. n
  BY <1>3, <1>7, <1>8 DEF AscendingIs
<1> DEFINE built == [i \in DOMAIN arrived |->
                       ToolCall(arrived[i], StreamToolCall,
                                IF acc.parts[arrived[i]] = script.parts[arrived[i]]
                                THEN "given" ELSE "empty")]
<1>10. BuiltToolCalls = built
  BY <1>5 DEF BuiltToolCalls
<1>11. DOMAIN built = 1 .. n /\ Len(built) = n
  BY <1>3, <1>9
<1>12. \A k \in 1 .. n : built[k] = ToolCall(k, StreamToolCall, "given")
  BY <1>1, <1>8, <1>9
<1> HIDE DEF built
<1> QED
  BY <1>2, <1>10, <1>11, <1>12

\* The step that ends a stream.
LEMMA StreamEnds ==
  ASSUME CallsInv, [CallsNext]_callVars, waitsFor = "streaming", waitsFor' = "handling"
  PROVE  Complete(BuiltToolCalls, acc.text /\ script.text = "plain")
<1>1. CASE Done \/ EndsEarly
  BY <1>1 DEF Done, EndsEarly, BuildResponse
<1>2. CASE FailsForNow \/ Refused \/ TimesOut \/ AbortedFetch \/ RetryAfterDelay \/ ReadAnswer
           \/ ApplyChunk \/ AbortSeen \/ BreaksOff
  BY <1>2 DEF FailsForNow, Refused, TimesOut, AbortedFetch, RetryAfterDelay, ReadAnswer, ApplyChunk,
     AbortSeen, BreaksOff, GiveUp, RetryOrGiveUp
<1>3. CASE AbandonCalls \/ NextStep \/ BeginTask \/ \E reason \in {"error", "AbortError"} : Abort(reason)
  BY <1>3 DEF AbandonCalls, NextStep, BeginTask, Abort
<1>4. CASE \/ \E kind \in RequestKinds : Send(kind)
           \/ \E s \in Scripts : Answered(s)
           \/ \E n \in 0 .. 2 : HandleCall(n)
           \/ \E n \in 1 .. Len(window) - 1 : Forget(n)
  BY <1>4 DEF Send, Answered, HandleCall, Forget
<1>5. CASE UNCHANGED callVars
  BY <1>5 DEF callVars
<1> QED
  BY <1>1, <1>2, <1>3, <1>4, <1>5 DEF CallsNext

\* The invariant of the calls holds throughout.
THEOREM CallsInvariance == CallsSpec => []CallsInv
<1>1. CallsInit => CallsInv
  BY CallsStart
<1>2. CallsInv /\ [CallsNext]_callVars => CallsInv'
  BY CallsKeep
<1> QED
  BY <1>1, <1>2, PTL DEF CallsSpec

\* The window, the request and what arrives of an answer are what the other definitions take
\* them for.
THEOREM CallTypesRight == CallsSpec => []CallsTypeOK
<1>1. CallsInv => CallsTypeOK
  BY DEF CallsInv
<1> QED
  BY <1>1, CallsInvariance, PTL

\* buildPayload: whatever compaction, aborts and verifications made of the window, what goes out
\* to an endpoint of DeepSeek has every result right behind its call and every call answered once.
THEOREM PayloadsAreWellFormed == CallsSpec => []PayloadIsWellFormed
<1>1. CallsInv => PayloadIsWellFormed
  BY PayloadRight
<1> QED
  BY <1>1, CallsInvariance, PTL

\* OpenAIStreamAccumulator: a stream that came to its end gives back the calls of the server,
\* each under its index with its own arguments.
THEOREM StreamsGiveTheCallsBack == CallsSpec => StreamsAreReassembled
<1>1. ASSUME CallsInv, [CallsNext]_callVars, waitsFor = "streaming", waitsFor' = "handling",
             acc = AllOf(script), request.tools
      PROVE  /\ Len(toHandle') = Len(script.parts)
             /\ \A k \in DOMAIN toHandle' : /\ toHandle'[k].id[2] = k
                                            /\ toHandle'[k].arguments = "given"
  <2>1. toHandle' = BuiltToolCalls
    BY <1>1, StreamEnds DEF Complete
  <2>2. /\ Len(BuiltToolCalls) = Len(script.parts)
        /\ \A k \in DOMAIN BuiltToolCalls :
             BuiltToolCalls[k] = ToolCall(k, StreamToolCall, "given")
    BY <1>1, AllBuilt
  <2>3. ASSUME NEW k PROVE /\ ToolCall(k, StreamToolCall, "given").id[2] = k
                           /\ ToolCall(k, StreamToolCall, "given").arguments = "given"
    BY DEF ToolCall
  <2> QED
    BY <2>1, <2>2, <2>3
<1>2. CallsInv /\ [CallsNext]_callVars =>
        [waitsFor = "streaming" /\ waitsFor' = "handling" /\ acc = AllOf(script) /\ request.tools
         => /\ Len(toHandle') = Len(script.parts)
            /\ \A k \in DOMAIN toHandle' : /\ toHandle'[k].id[2] = k
                                           /\ toHandle'[k].arguments = "given"]_callVars
  BY <1>1
<1> QED
  BY <1>2, CallsInvariance, PTL DEF CallsSpec, StreamsAreReassembled

\* How much of a fetch is left: the attempts, the one under way, and the abort.
FetchUnderWay == waitsFor \in {"fetching", "backoff"}
Trying == IF waitsFor = "fetching" THEN 1 ELSE 0
Unaborted == IF aborted = "no" THEN 1 ELSE 0
StepsLeft(a, t, u) == 4 * (MaxAttempts - a) + 2 * t + u
Remaining == StepsLeft(attempt, Trying, Unaborted)
FetchRunsOut == [][FetchUnderWay /\ FetchUnderWay' =>
                     Remaining' \in Nat /\ Remaining' < Remaining]_callVars

\* An attempt more, the end of one, or an abort leaves fewer.
LEMMA FewerLeft ==
  ASSUME NEW a \in 0 .. MaxAttempts, NEW b \in 0 .. MaxAttempts,
         NEW t \in {0, 1}, NEW s \in {0, 1}, NEW u \in {0, 1}, NEW v \in {0, 1},
         \/ b = a + 1 /\ v = u
         \/ b = a /\ t = 1 /\ s = 0 /\ v = u
         \/ b = a /\ s = t /\ u = 1 /\ v = 0
  PROVE  StepsLeft(b, s, v) \in Nat /\ StepsLeft(b, s, v) < StepsLeft(a, t, u)
<1>1. PICK m \in Nat : m = MaxAttempts
  BY ModelCallsAssumption
<1>2. PICK rest \in Nat : rest = m - b
  BY <1>1
<1>3. StepsLeft(b, s, v) = 4 * rest + 2 * s + v
  BY <1>1, <1>2 DEF StepsLeft
<1>4. m - a = rest \/ (m - a = rest + 1 /\ v = u)
  BY <1>1, <1>2
<1>5. CASE m - a = rest + 1 /\ v = u
  <2>1. StepsLeft(a, t, u) = 4 * (rest + 1) + 2 * t + u
    BY <1>1, <1>5 DEF StepsLeft
  <2> QED
    BY <1>3, <1>5, <2>1
<1>6. CASE m - a = rest
  <2>1. StepsLeft(a, t, u) = 4 * rest + 2 * t + u
    BY <1>1, <1>6 DEF StepsLeft
  <2>2. b = a
    BY <1>1, <1>2, <1>6
  <2> QED
    BY <1>3, <2>1, <2>2
<1> QED
  BY <1>4, <1>5, <1>6

\* fetchWithRetry: every step during a fetch that does not end it brings its end nearer,
\* whatever the server, the timer and the signal do; there are only so many.
THEOREM FetchesRunOut == CallsSpec => FetchRunsOut
<1>1. ASSUME CallsInv, [CallsNext]_callVars, callVars' # callVars, FetchUnderWay, FetchUnderWay'
      PROVE  Remaining' \in Nat /\ Remaining' < Remaining
  <2>1. CallsInv'
    BY <1>1, CallsKeep
  <2>2. MaxAttempts \in Nat /\ attempt \in 0 .. MaxAttempts /\ attempt' \in 0 .. MaxAttempts
    BY <1>1, <2>1, ModelCallsAssumption DEF CallsInv, CallsTypeOK
  <2>a. Unaborted \in {0, 1} /\ Unaborted' \in {0, 1} /\ Trying \in {0, 1} /\ Trying' \in {0, 1}
    BY DEF Unaborted, Trying
  <2>b. aborted' = aborted => Unaborted' = Unaborted
    BY DEF Unaborted
  <2>c. aborted' # "no" /\ aborted = "no" => Unaborted' = 0 /\ Unaborted = 1
    BY DEF Unaborted
  <2>3. ASSUME \/ attempt' = attempt + 1 /\ Unaborted' = Unaborted
               \/ attempt' = attempt /\ Trying = 1 /\ Trying' = 0 /\ Unaborted' = Unaborted
               \/ attempt' = attempt /\ Trying' = Trying /\ Unaborted = 1 /\ Unaborted' = 0
        PROVE  Remaining' \in Nat /\ Remaining' < Remaining
    <3>1. PICK a, t, u : a = attempt /\ t = Trying /\ u = Unaborted
      OBVIOUS
    <3>2. PICK b, s, v : b = attempt' /\ s = Trying' /\ v = Unaborted'
      OBVIOUS
    <3>3. StepsLeft(b, s, v) \in Nat /\ StepsLeft(b, s, v) < StepsLeft(a, t, u)
      BY <2>2, <2>3, <2>a, <3>1, <3>2, FewerLeft
    <3>4. Remaining = StepsLeft(a, t, u) /\ Remaining' = StepsLeft(b, s, v)
      BY <3>1, <3>2 DEF Remaining, StepsLeft
    <3> QED
      BY <3>3, <3>4
  <2>4. CASE FailsForNow \/ AbortedFetch
    <3>0. waitsFor = "fetching" /\ (GiveUp \/ RetryOrGiveUp)
      BY <2>4 DEF FailsForNow, AbortedFetch
    <3>1. waitsFor = "fetching" /\ waitsFor' = "backoff" /\ attempt' = attempt /\ aborted' = aborted
      BY <1>1, <3>0 DEF RetryOrGiveUp, GiveUp, FetchUnderWay
    <3>2. Trying = 1 /\ Trying' = 0
      BY <3>1 DEF Trying
    <3> QED
      BY <2>3, <2>b, <3>1, <3>2
  <2>5. CASE RetryAfterDelay
    <3>1. attempt' = attempt + 1 /\ aborted' = aborted
      BY <2>5 DEF RetryAfterDelay
    <3> QED
      BY <2>3, <2>b, <3>1
  <2>6. CASE \E reason \in {"error", "AbortError"} : Abort(reason)
    <3>1. waitsFor' = waitsFor /\ attempt' = attempt /\ aborted = "no" /\ aborted' # "no"
      BY <2>6 DEF Abort
    <3>2. Trying' = Trying
      BY <3>1 DEF Trying
    <3> QED
      BY <2>3, <2>c, <3>1, <3>2
  <2>7. CASE Refused \/ TimesOut \/ AbortSeen \/ BreaksOff
    BY <1>1, <2>7 DEF Refused, TimesOut, AbortSeen, BreaksOff, GiveUp, FetchUnderWay
  <2>8. CASE ReadAnswer \/ ApplyChunk \/ Done \/ EndsEarly \/ AbandonCalls \/ NextStep \/ BeginTask
    BY <1>1, <2>8 DEF ReadAnswer, ApplyChunk, Done, EndsEarly, AbandonCalls, NextStep, BeginTask,
       FetchUnderWay
  <2>9. CASE \/ \E kind \in RequestKinds : Send(kind)
             \/ \E s \in Scripts : Answered(s)
             \/ \E n \in 0 .. 2 : HandleCall(n)
             \/ \E n \in 1 .. Len(window) - 1 : Forget(n)
    BY <1>1, <2>9 DEF Send, Answered, HandleCall, Forget, FetchUnderWay
  <2> QED
    BY <1>1, <2>4, <2>5, <2>6, <2>7, <2>8, <2>9 DEF CallsNext
<1>2. CallsInv /\ [CallsNext]_callVars =>
        [FetchUnderWay /\ FetchUnderWay' => Remaining' \in Nat /\ Remaining' < Remaining]_callVars
  BY <1>1
<1> QED
  BY <1>2, CallsInvariance, PTL DEF CallsSpec, FetchRunsOut
=============================================================================

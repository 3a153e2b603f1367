--------------------------- MODULE TurnLoopProofs ---------------------------
(***************************************************************************)
(* The safety properties of TurnLoop, for every number of prompts, steers, *)
(* tool calls, windows, faults and compactions.                            *)
(*                                                                         *)
(* The first part proves facts about FlattenSeq, of which the repair of a  *)
(* history and its compaction are built, by induction over the naturals:   *)
(* the set of the numbers a statement holds for is a set like any other,   *)
(* and a set of naturals without a least element is empty.  The second     *)
(* part is about histories: which ones a request can be made from, and     *)
(* that appending to them, repairing them and compacting them keep them    *)
(* so.  The third has the inductive invariant LoopInv, one part per        *)
(* concern, the proof of each part step by step, and the theorems.         *)
(***************************************************************************)
EXTENDS TurnLoop, FiniteSetTheorems, WellFoundedInduction, TLAPS

-----------------------------------------------------------------------------
(* Induction, and the concatenation of a sequence of sequences             *)

\* The order of the naturals is well founded.
LEMMA LessIsWellFounded == IsWellFoundedOn({p \in Nat \X Nat : p[1] < p[2]}, Nat)
PROOF BY NatLessThanWellFounded DEF OpToRel

\* A set that has 0 and the successor of each of its numbers has every number.
LEMMA SetInduction ==
  ASSUME NEW T, 0 \in T, \A n \in Nat : n \in T => n + 1 \in T
  PROVE  Nat \subseteq T
PROOF
<1> SUFFICES ASSUME NEW m \in Nat, m \notin T PROVE FALSE
  OBVIOUS
<1> DEFINE U == {n \in Nat : n \notin T}
           Less == {p \in Nat \X Nat : p[1] < p[2]}
<1>1. PICK x \in U : \A y \in U : <<y, x>> \notin Less
  <2>1. U \subseteq Nat /\ U # {} /\ IsWellFoundedOn(Less, Nat)
    BY LessIsWellFounded
  <2> HIDE DEF U, Less
  <2> QED  BY <2>1, WFMin
<1>2. x \in Nat /\ x # 0 /\ x - 1 \in Nat
  BY <1>1
<1>3. x - 1 \in U /\ <<x - 1, x>> \in Less
  BY <1>1, <1>2
<1> QED  BY <1>1, <1>3

\* f is the sequence of the concatenations of the first parts of ss.
Joins(f, ss) ==
  /\ DOMAIN f = 1..Len(ss)
  /\ \A i \in 1..Len(ss) : f[i] = IF i = 1 THEN ss[i] ELSE f[i - 1] \o ss[i]

\* The recursive function that FlattenSeq chooses exists.
LEMMA JoinExists ==
  ASSUME NEW ss, Len(ss) \in Nat
  PROVE  \E f : f = [i \in 1..Len(ss) |-> IF i = 1 THEN ss[i] ELSE f[i - 1] \o ss[i]]
PROOF
<1> DEFINE Part(n, g) == g = [i \in 1..n |-> IF i = 1 THEN ss[i] ELSE g[i - 1] \o ss[i]]
           T == {n \in Nat : \E g : Part(n, g)}
<1>1. 0 \in T
  <2>1. Part(0, [i \in 1..0 |-> ss[i]])
    OBVIOUS
  <2> HIDE DEF Part
  <2> QED  BY <2>1
<1>2. ASSUME NEW n \in Nat, n \in T PROVE n + 1 \in T
  <2>1. PICK g : Part(n, g)
    BY <1>2
  <2> DEFINE h == [i \in 1..n+1 |-> IF i = 1 THEN ss[i] ELSE g[i - 1] \o ss[i]]
  <2>2. ASSUME NEW i \in 1..n PROVE h[i] = g[i]
    <3>1. g[i] = [j \in 1..n |-> IF j = 1 THEN ss[j] ELSE g[j - 1] \o ss[j]][i]
      BY <2>1
    <3>2. g[i] = IF i = 1 THEN ss[i] ELSE g[i - 1] \o ss[i]
      BY <3>1
    <3>3. i \in 1..n+1
      OBVIOUS
    <3> QED  BY <3>2, <3>3
  <2>3. \A i \in 1..n+1 : i # 1 => i - 1 \in 1..n
    OBVIOUS
  <2>4. h = [i \in 1..n+1 |-> IF i = 1 THEN ss[i] ELSE h[i - 1] \o ss[i]]
    <3>1. \A i \in 1..n+1 : i # 1 => g[i - 1] = h[i - 1]
      BY <2>2, <2>3
    <3> QED BY <3>1
  <2>5. Part(n + 1, h)
    BY <2>4
  <2> HIDE DEF Part, h
  <2> QED  BY <2>5
<1>3. Nat \subseteq T
  <2> HIDE DEF T
  <2> QED  BY <1>1, <1>2, SetInduction
<1> QED  BY <1>3

\* FlattenSeq is the last of the concatenations of the first parts.
LEMMA FlattenIsJoin ==
  ASSUME NEW ss, Len(ss) \in Nat \ {0}
  PROVE  \E f : Joins(f, ss) /\ FlattenSeq(ss) = f[Len(ss)]
PROOF
<1> DEFINE F(f) == f = [i \in 1..Len(ss) |-> IF i = 1 THEN ss[i] ELSE f[i - 1] \o ss[i]]
           c == CHOOSE f : F(f)
<1>1. FlattenSeq(ss) = c[Len(ss)]
  BY DEF FlattenSeq
<1>2. \E f : F(f)
  BY JoinExists
<1>3. F(c)
  <2> HIDE DEF F
  <2> QED  BY <1>2
<1> HIDE DEF c
<1>4. Joins(c, ss)
  BY <1>3 DEF Joins
<1> QED  BY <1>1, <1>4

\* Induction over the indices of a sequence
LEMMA IntervalInduction ==
  ASSUME NEW N \in Nat \ {0}, NEW T, 1 \in T,
         \A i \in 1..N-1 : i \in T => i + 1 \in T
  PROVE  1..N \subseteq T
PROOF
<1> DEFINE U == {n \in Nat : n + 1 \in 1..N => n + 1 \in T}
<1>1. 0 \in U
  OBVIOUS
<1>2. ASSUME NEW n \in Nat, n \in U PROVE n + 1 \in U
  <2>1. CASE n + 2 \in 1..N
    <3>1. n + 1 \in 1..N-1 /\ n + 1 \in T
      BY <1>2, <2>1
    <3> QED  BY <3>1
  <2> QED  BY <2>1
<1>3. Nat \subseteq U
  <2> HIDE DEF U
  <2> QED  BY <1>1, <1>2, SetInduction
<1>4. ASSUME NEW i \in 1..N PROVE i \in T
  <2>1. i - 1 \in U
    BY <1>3
  <2> QED  BY <2>1
<1> QED  BY <1>4

\* A concatenation of two sequences has the elements of both.
LEMMA ToSetConcat ==
  ASSUME NEW M, NEW a \in Seq(M), NEW b \in Seq(M)
  PROVE  ToSet(a \o b) = ToSet(a) \cup ToSet(b)
PROOF
<1>1. ASSUME NEW x \in ToSet(a \o b) PROVE x \in ToSet(a) \cup ToSet(b)
  BY DEF ToSet
<1>2. ASSUME NEW x \in ToSet(a) PROVE x \in ToSet(a \o b)
  BY DEF ToSet
<1>3. ASSUME NEW x \in ToSet(b) PROVE x \in ToSet(a \o b)
  <2>1. PICK i \in 1..Len(b) : x = b[i]
    BY DEF ToSet
  <2>2. Len(a) + i \in 1..Len(a \o b) /\ (a \o b)[Len(a) + i] = b[i]
    OBVIOUS
  <2> QED  BY <2>1, <2>2 DEF ToSet
<1> QED  BY <1>1, <1>2, <1>3

\* Each concatenation is the one before and one part more.
LEMMA JoinSteps ==
  ASSUME NEW ss, Len(ss) \in Nat \ {0}, NEW f, Joins(f, ss)
  PROVE  /\ f[1] = ss[1]
         /\ \A i \in 1..Len(ss)-1 : f[i + 1] = f[i] \o ss[i + 1]
PROOF
<1>1. 1 \in 1..Len(ss)
  OBVIOUS
<1>2. ASSUME NEW i \in 1..Len(ss)-1 PROVE f[i + 1] = f[i] \o ss[i + 1]
  <2>1. i + 1 \in 1..Len(ss) /\ i + 1 # 1 /\ (i + 1) - 1 = i
    OBVIOUS
  <2>2. f[i + 1] = f[(i + 1) - 1] \o ss[i + 1]
    BY <2>1 DEF Joins
  <2> QED  BY <2>1, <2>2
<1> QED  BY <1>1, <1>2 DEF Joins

\* The concatenations of sequences over a set are sequences over that set.
LEMMA JoinType ==
  ASSUME NEW M, NEW ss \in Seq(Seq(M)), NEW f, Joins(f, ss), Len(ss) # 0
  PROVE  \A i \in 1..Len(ss) : f[i] \in Seq(M)
PROOF
<1> DEFINE T == {i \in Nat : f[i] \in Seq(M)}
<1> Len(ss) \in Nat \ {0}
  OBVIOUS
<1>1. 1 \in T
  <2>1. f[1] = ss[1]
    BY JoinSteps, Zenon
  <2> QED  BY <2>1
<1>2. ASSUME NEW i \in 1..Len(ss)-1, i \in T PROVE i + 1 \in T
  <2>1. f[i + 1] = f[i] \o ss[i + 1]
    BY JoinSteps, Zenon
  <2>2. f[i] \in Seq(M)
    BY <1>2
  <2>3. i + 1 \in 1..Len(ss) /\ i + 1 \in Nat
    OBVIOUS
  <2>4. ss[i + 1] \in Seq(M)
    BY <2>3
  <2>5. f[i] \o ss[i + 1] \in Seq(M)
    BY <2>2, <2>4
  <2>6. f[i + 1] \in Seq(M)
    BY <2>1, <2>5, Zenon
  <2> QED  BY <2>3, <2>6
<1> HIDE DEF T
<1>3. 1..Len(ss) \subseteq T
  BY <1>1, <1>2, IntervalInduction
<1> QED  BY <1>3 DEF T

\* A concatenation has the elements of its parts.
LEMMA FlattenElements ==
  ASSUME NEW M, NEW ss \in Seq(Seq(M))
  PROVE  /\ FlattenSeq(ss) \in Seq(M)
         /\ ToSet(FlattenSeq(ss)) = UNION {ToSet(ss[k]) : k \in 1..Len(ss)}
PROOF
<1>1. CASE Len(ss) = 0
  BY <1>1 DEF FlattenSeq, ToSet
<1>2. CASE Len(ss) # 0
  <2>1. PICK f : Joins(f, ss) /\ FlattenSeq(ss) = f[Len(ss)]
    BY <1>2, FlattenIsJoin
  <2>2. \A i \in 1..Len(ss) : f[i] \in Seq(M)
    BY <1>2, <2>1, JoinType
  <2> DEFINE E(i) == UNION {ToSet(ss[k]) : k \in 1..i}
             T == {i \in Nat : ToSet(f[i]) = E(i)}
  <2>3. 1 \in T
    <3> Len(ss) \in Nat \ {0}
      BY <1>2
    <3>1. f[1] = ss[1]
      BY <2>1, JoinSteps, Zenon
    <3>2. 1..1 = {1}
      OBVIOUS
    <3>3. E(1) = ToSet(ss[1])
      BY <3>2
    <3> QED  BY <3>1, <3>3
  <2>4. ASSUME NEW i \in 1..Len(ss)-1, i \in T PROVE i + 1 \in T
    <3> Len(ss) \in Nat \ {0}
      BY <1>2
    <3>0. f[i + 1] = f[i] \o ss[i + 1]
      BY <2>1, JoinSteps, Zenon
    <3>1. f[i + 1] = f[i] \o ss[i + 1] /\ f[i] \in Seq(M) /\ ss[i + 1] \in Seq(M)
      BY <3>0, <2>2
    <3>2. ToSet(f[i + 1]) = ToSet(f[i]) \cup ToSet(ss[i + 1])
      BY <3>1, ToSetConcat
    <3>3. 1..i+1 = 1..i \cup {i + 1}
      OBVIOUS
    <3>4. E(i + 1) = E(i) \cup ToSet(ss[i + 1])
      BY <3>3, Zenon
    <3>5. i + 1 \in Nat /\ ToSet(f[i]) = E(i)
      BY <2>4
    <3>6. ToSet(f[i + 1]) = E(i + 1)
      BY <3>2, <3>4, <3>5, Zenon
    <3> QED  BY <3>5, <3>6
  <2>5. 1..Len(ss) \subseteq T
    <3> Len(ss) \in Nat \ {0}
      BY <1>2
    <3> HIDE DEF T
    <3> QED  BY <2>3, <2>4, IntervalInduction
  <2>6. Len(ss) \in 1..Len(ss)
    BY <1>2
  <2> QED  BY <2>1, <2>2, <2>5, <2>6
<1> QED  BY <1>1, <1>2

\* Every two neighbours of s are related.
Chained(s, R) == \A i \in 1..Len(s)-1 : <<s[i], s[i + 1]>> \in R

\* Two chained sequences that fit each other make a chained sequence.
LEMMA ChainedConcat ==
  ASSUME NEW M, NEW R, NEW a \in Seq(M), NEW b \in Seq(M), a # <<>>, b # <<>>,
         Chained(a, R), Chained(b, R), <<a[Len(a)], b[1]>> \in R
  PROVE  /\ Chained(a \o b, R) /\ a \o b # <<>>
         /\ (a \o b)[1] = a[1] /\ (a \o b)[Len(a \o b)] = b[Len(b)]
PROOF
<1>1. Len(a) \in Nat \ {0} /\ Len(b) \in Nat \ {0} /\ Len(a \o b) = Len(a) + Len(b)
  OBVIOUS
<1>2. \A i \in 1..Len(a) : (a \o b)[i] = a[i]
  OBVIOUS
<1>3. \A i \in 1..Len(b) : (a \o b)[Len(a) + i] = b[i]
  OBVIOUS
<1>4. ASSUME NEW i \in 1..Len(a \o b)-1
      PROVE  <<(a \o b)[i], (a \o b)[i + 1]>> \in R
  <2>1. CASE i < Len(a)
    BY <1>1, <1>2, <2>1 DEF Chained
  <2>2. CASE i = Len(a)
    <3>1. Len(a) \in 1..Len(a) /\ 1 \in 1..Len(b)
      BY <1>1
    <3> QED  BY <1>2, <1>3, <2>2, <3>1
  <2>3. CASE i > Len(a)
    <3>1. PICK j \in 1..Len(b)-1 : i = Len(a) + j
      <4>1. i - Len(a) \in 1..Len(b)-1 /\ i = Len(a) + (i - Len(a))
        BY <1>1, <2>3
      <4> QED  BY <4>1
    <3>2. j \in 1..Len(b) /\ j + 1 \in 1..Len(b) /\ i + 1 = Len(a) + (j + 1)
      BY <1>1, <3>1
    <3>3. <<b[j], b[j + 1]>> \in R
      BY DEF Chained
    <3>4. (a \o b)[i] = b[j] /\ (a \o b)[i + 1] = b[j + 1]
      BY <1>3, <3>1, <3>2
    <3> QED  BY <3>3, <3>4
  <2>4. i < Len(a) \/ i = Len(a) \/ i > Len(a)
    BY <1>1
  <2> QED  BY <2>1, <2>2, <2>3, <2>4, Zenon
<1> QED  BY <1>1, <1>2, <1>3, <1>4 DEF Chained

\* Chained parts that fit each other make a chained sequence, which starts as the
\* first part does and ends as the last does.
LEMMA FlattenChained ==
  ASSUME NEW M, NEW R, NEW ss \in Seq(Seq(M)), Len(ss) # 0,
         \A i \in 1..Len(ss) : ss[i] # <<>> /\ Chained(ss[i], R),
         \A i \in 1..Len(ss)-1 : <<ss[i][Len(ss[i])], ss[i + 1][1]>> \in R
  PROVE  LET s == FlattenSeq(ss) IN
         /\ s # <<>> /\ Chained(s, R) /\ s[1] = ss[1][1]
         /\ s[Len(s)] = ss[Len(ss)][Len(ss[Len(ss)])]
PROOF
<1> Len(ss) \in Nat \ {0}
  OBVIOUS
<1>1. PICK f : Joins(f, ss) /\ FlattenSeq(ss) = f[Len(ss)]
  BY FlattenIsJoin
<1>2. \A i \in 1..Len(ss) : f[i] \in Seq(M)
  BY <1>1, JoinType
<1> DEFINE P(i) == /\ f[i] # <<>> /\ Chained(f[i], R) /\ f[i][1] = ss[1][1]
                   /\ f[i][Len(f[i])] = ss[i][Len(ss[i])]
           T == {i \in Nat : P(i)}
<1>3. 1 \in T
  <2>1. f[1] = ss[1]
    BY <1>1, JoinSteps, Zenon
  <2> QED  BY <2>1
<1>4. ASSUME NEW i \in 1..Len(ss)-1, i \in T PROVE i + 1 \in T
  <2>0. f[i + 1] = f[i] \o ss[i + 1]
    BY <1>1, JoinSteps, Zenon
  <2>1. f[i + 1] = f[i] \o ss[i + 1] /\ f[i] \in Seq(M) /\ ss[i + 1] \in Seq(M)
    BY <1>2, <2>0
  <2>2. i \in 1..Len(ss) /\ i + 1 \in 1..Len(ss)
    OBVIOUS
  <2>3. ss[i + 1] # <<>> /\ Chained(ss[i + 1], R) /\ P(i)
    BY <1>4, <2>2
  <2>4. <<f[i][Len(f[i])], ss[i + 1][1]>> \in R
    BY <2>3
  <2>5. P(i + 1)
    <3> DEFINE a == f[i]  b == ss[i + 1]
    <3>1. /\ Chained(a \o b, R) /\ a \o b # <<>>
          /\ (a \o b)[1] = a[1] /\ (a \o b)[Len(a \o b)] = b[Len(b)]
      <4>1. /\ a \in Seq(M) /\ b \in Seq(M) /\ a # <<>> /\ b # <<>>
            /\ Chained(a, R) /\ Chained(b, R) /\ <<a[Len(a)], b[1]>> \in R
        BY <2>1, <2>3, <2>4
      <4> HIDE DEF a, b
      <4> QED  BY <4>1, ChainedConcat
    <3> QED  BY <2>1, <2>3, <3>1
  <2> QED  BY <2>5
<1>5. 1..Len(ss) \subseteq T
  <2> HIDE DEF T
  <2> QED  BY <1>3, <1>4, IntervalInduction
<1>6. Len(ss) \in 1..Len(ss)
  OBVIOUS
<1> QED  BY <1>1, <1>5, <1>6

-----------------------------------------------------------------------------
(* Messages and histories                                                  *)

\* The messages a turn makes are messages.
LEMMA MessageTypes ==
  /\ \A texts \in SUBSET Text :
       UserSays(texts) \in Message /\ Summary(texts) \in Message
  /\ \A ids \in SUBSET Call :
       ToolResults(ids) \in Message /\ Assistant(ids) \in Message
PROOF BY DEF UserSays, Summary, ToolResults, Assistant, Message, Text

\* A history any later request can be made from: the user starts it, makes no
\* tool use, and answers at most the tool uses of the message before.
Orderly(ms) ==
  \A i \in 1..Len(ms) :
    /\ i = 1 => ms[i].role = "user" /\ ms[i].results = {}
    /\ ms[i].role = "user" =>
         /\ ms[i].uses = {}
         /\ i > 1 => ms[i].results \subseteq ms[i - 1].uses

Latest(ms) == ms[Len(ms)]

\* What may follow a message in a request
Answers ==
  {p \in Message \X Message :
     /\ p[1].uses # {} => p[2].role = "user"
     /\ p[2].role = "user" => p[2].results = p[1].uses}

\* The first message of Repaired(ms, i), and whether there is a second one
Here(ms, i) ==
  IF i > 1 /\ ms[i].role = "user"
  THEN [ms[i] EXCEPT !.results = @ \cup Missing(ms, i - 1)] ELSE ms[i]

Dangles(ms, i) ==
  Missing(ms, i) # {} /\ (i = Len(ms) \/ ms[i + 1].role # "user")

\* A repaired message, by its parts
LEMMA RepairedIs ==
  ASSUME NEW ms, NEW i
  PROVE  Repaired(ms, i) = IF Dangles(ms, i)
                           THEN <<Here(ms, i), ToolResults(Missing(ms, i))>>
                           ELSE <<Here(ms, i)>>
PROOF BY DEF Repaired, Dangles, Here

\* Only what a message asked for can be missing.
LEMMA MissingType ==
  ASSUME NEW ms \in Seq(Message), NEW i \in 1..Len(ms)
  PROVE  Missing(ms, i) \subseteq ms[i].uses /\ ms[i].uses \subseteq Call
PROOF
<1>1. ms[i] \in Message
  OBVIOUS
<1>2. ms[i].uses \subseteq Call
  BY <1>1 DEF Message
<1> QED  BY <1>2 DEF Missing

\* A repair adds tool results to a user message and changes nothing else.
LEMMA HereType ==
  ASSUME NEW ms \in Seq(Message), NEW i \in 1..Len(ms)
  PROVE  /\ Here(ms, i) \in Message
         /\ Here(ms, i).role = ms[i].role /\ Here(ms, i).uses = ms[i].uses
         /\ Here(ms, i).says = ms[i].says /\ Here(ms, i).gist = ms[i].gist
         /\ i > 1 /\ ms[i].role = "user" =>
              Here(ms, i).results = ms[i].results \cup Missing(ms, i - 1)
         /\ ~(i > 1 /\ ms[i].role = "user") => Here(ms, i) = ms[i]
PROOF
<1>1. ms[i] \in Message
  OBVIOUS
<1>2. CASE i > 1 /\ ms[i].role = "user"
  <2>1. Missing(ms, i - 1) \subseteq Call
    <3>1. i - 1 \in 1..Len(ms)
      BY <1>2
    <3> QED  BY <3>1, MissingType
  <2> QED  BY <1>1, <1>2, <2>1 DEF Here, Message
<1>3. CASE ~(i > 1 /\ ms[i].role = "user")
  BY <1>1, <1>3 DEF Here
<1> QED  BY <1>2, <1>3

\* The repaired copy of a message starts with that message and answers it.
LEMMA RepairedType ==
  ASSUME NEW ms \in Seq(Message), Orderly(ms), NEW i \in 1..Len(ms)
  PROVE  /\ Repaired(ms, i) \in Seq(Message) /\ Repaired(ms, i) # <<>>
         /\ Repaired(ms, i)[1] = Here(ms, i)
         /\ Chained(Repaired(ms, i), Answers)
         /\ \A m \in ToSet(Repaired(ms, i)) : m.role = "user" => m.uses = {}
         /\ Here(ms, i) \in ToSet(Repaired(ms, i))
PROOF
<1> DEFINE h == Here(ms, i)  r == ToolResults(Missing(ms, i))
<1>1. /\ h \in Message /\ h.role = ms[i].role /\ h.uses = ms[i].uses
  BY HereType
<1>2. ms[i].role = "user" => ms[i].uses = {}
  BY DEF Orderly
<1>3. Missing(ms, i) \subseteq ms[i].uses /\ Missing(ms, i) \subseteq Call
  BY MissingType
<1>4. r \in Message /\ r.role = "user" /\ r.uses = {} /\ r.results = Missing(ms, i)
  BY <1>3, MessageTypes DEF ToolResults
<1>5. CASE Dangles(ms, i)
  <2>1. Repaired(ms, i) = <<h, r>>
    BY <1>5, RepairedIs
  <2>2. ms[i].role = "assistant" /\ Missing(ms, i) = ms[i].uses
    <3>1. ~(i < Len(ms) /\ ms[i + 1].role = "user") /\ Missing(ms, i) # {}
      BY <1>5 DEF Dangles
    <3> QED  BY <3>1 DEF Missing
  <2>3. <<h, r>> \in Answers
    BY <1>1, <1>4, <2>2 DEF Answers
  <2> HIDE DEF h, r
  <2>4. Chained(<<h, r>>, Answers)
    BY <2>3 DEF Chained
  <2>5. ToSet(<<h, r>>) = {h, r}
    BY DEF ToSet
  <2>6. h.role = "user" => h.uses = {}
    BY <1>1, <1>2
  <2>7. /\ <<h, r>> \in Seq(Message) /\ <<h, r>> # <<>> /\ <<h, r>>[1] = h
    BY <1>1, <1>4
  <2>8. /\ \A m \in ToSet(<<h, r>>) : m.role = "user" => m.uses = {}
        /\ h \in ToSet(<<h, r>>)
    BY <1>4, <2>5, <2>6
  <2> QED  BY <2>1, <2>4, <2>7, <2>8 DEF h
<1>6. CASE ~Dangles(ms, i)
  <2>1. Repaired(ms, i) = <<h>>
    BY <1>6, RepairedIs
  <2>2. h.role = "user" => h.uses = {}
    BY <1>1, <1>2
  <2> HIDE DEF h, r
  <2>3. ToSet(<<h>>) = {h}
    BY DEF ToSet
  <2>4. /\ <<h>> \in Seq(Message) /\ <<h>> # <<>> /\ <<h>>[1] = h
        /\ Chained(<<h>>, Answers)
    BY <1>1 DEF Chained
  <2>5. /\ \A m \in ToSet(<<h>>) : m.role = "user" => m.uses = {}
        /\ h \in ToSet(<<h>>)
    BY <2>2, <2>3
  <2> QED  BY <2>1, <2>4, <2>5 DEF h
<1> QED  BY <1>5, <1>6

\* The repaired copy of a message fits the repaired copy of the one before.
LEMMA RepairedFits ==
  ASSUME NEW ms \in Seq(Message), Orderly(ms), NEW i \in 1..Len(ms)-1
  PROVE  <<Repaired(ms, i)[Len(Repaired(ms, i))], Repaired(ms, i + 1)[1]>>
           \in Answers
PROOF
<1>1. i \in 1..Len(ms) /\ i + 1 \in 1..Len(ms) /\ i + 1 > 1 /\ (i + 1) - 1 = i
      /\ i # Len(ms)
  OBVIOUS
<1> DEFINE h == Here(ms, i)  n == Here(ms, i + 1)  r == ToolResults(Missing(ms, i))
<1>2. h \in Message /\ h.role = ms[i].role /\ h.uses = ms[i].uses
  BY <1>1, HereType
<1>3. /\ n \in Message /\ n.role = ms[i + 1].role
      /\ ms[i + 1].role = "user" =>
           n.results = ms[i + 1].results \cup Missing(ms, i)
  BY <1>1, HereType
<1>4. Repaired(ms, i + 1)[1] = n
  BY <1>1, RepairedType
<1>5. /\ ms[i].role = "user" => ms[i].uses = {}
      /\ ms[i + 1].role = "user" => ms[i + 1].results \subseteq ms[i].uses
  BY <1>1 DEF Orderly
<1>6. Missing(ms, i) \subseteq ms[i].uses /\ Missing(ms, i) \subseteq Call
  BY <1>1, MissingType
<1>7. CASE Dangles(ms, i)
  <2>1. Repaired(ms, i) = <<h, r>>
    BY <1>7, RepairedIs
  <2>2. n.role # "user"
    BY <1>1, <1>3, <1>7 DEF Dangles
  <2>3. r \in Message /\ r.uses = {}
    BY <1>6, MessageTypes DEF ToolResults
  <2>4. <<r, n>> \in Answers
    BY <1>3, <2>2, <2>3 DEF Answers
  <2>5. <<h, r>>[Len(<<h, r>>)] = r
    OBVIOUS
  <2> QED  BY <1>4, <2>1, <2>4, <2>5
<1>8. CASE ~Dangles(ms, i)
  <2>1. Repaired(ms, i) = <<h>>
    BY <1>8, RepairedIs
  <2>4. <<h, n>> \in Answers
    <3>1. CASE ms[i + 1].role = "user"
      <4>1. n.results = ms[i].uses
        <5>1. CASE ms[i].role = "assistant"
          <6>1. Missing(ms, i) = ms[i].uses \ ms[i + 1].results
            BY <1>1, <3>1, <5>1 DEF Missing
          <6> QED  BY <1>3, <1>5, <3>1, <6>1
        <5>2. CASE ms[i].role # "assistant"
          <6>1. ms[i] \in Message
            BY <1>1
          <6>2. ms[i].role = "user"
            BY <5>2, <6>1 DEF Message
          <6> QED  BY <1>3, <1>5, <1>6, <3>1, <6>2
        <5> QED  BY <5>1, <5>2
      <4> HIDE DEF h, n
      <4> QED  BY <1>2, <1>3, <3>1, <4>1 DEF Answers
    <3>2. CASE ms[i + 1].role # "user"
      <4>1. Missing(ms, i) = {}
        BY <1>8, <3>2 DEF Dangles
      <4>2. ms[i].uses = {}
        <5>1. ms[i] \in Message
          BY <1>1
        <5>2. CASE ms[i].role = "assistant"
          BY <3>2, <4>1, <5>2 DEF Missing
        <5> QED  BY <1>5, <5>1, <5>2 DEF Message
      <4> HIDE DEF h, n
      <4> QED  BY <1>2, <1>3, <3>2, <4>2 DEF Answers
    <3> QED  BY <3>1, <3>2
  <2>5. <<h>>[Len(<<h>>)] = h
    OBVIOUS
  <2> QED  BY <1>4, <2>1, <2>4, <2>5
<1> QED  BY <1>7, <1>8

Chunks(ms) == [i \in 1..Len(ms) |-> Repaired(ms, i)]

\* The parts a sanitized history is made of
LEMMA ChunksType ==
  ASSUME NEW ms \in Seq(Message), Orderly(ms)
  PROVE  /\ Chunks(ms) \in Seq(Seq(Message)) /\ Len(Chunks(ms)) = Len(ms)
         /\ \A i \in 1..Len(ms) : Chunks(ms)[i] = Repaired(ms, i)
         /\ Sanitized(ms) = FlattenSeq(Chunks(ms))
PROOF
<1>1. \A i \in 1..Len(ms) : Repaired(ms, i) \in Seq(Message)
  BY RepairedType
<1>2. Len(ms) \in Nat
  OBVIOUS
<1> QED  BY <1>1, <1>2 DEF Chunks, Sanitized

\* A repaired history holds all the texts of the history.
LEMMA SanitizedKeeps ==
  ASSUME NEW ms \in Seq(Message), Orderly(ms)
  PROVE  /\ Sanitized(ms) \in Seq(Message)
         /\ \A m \in ToSet(Sanitized(ms)) : m.role = "user" => m.uses = {}
         /\ Holds(ms) \subseteq Holds(Sanitized(ms))
PROOF
<1> DEFINE s == Sanitized(ms)
<1>1. /\ s \in Seq(Message)
      /\ ToSet(s) = UNION {ToSet(Chunks(ms)[k]) : k \in 1..Len(Chunks(ms))}
  BY ChunksType, FlattenElements
<1>2. /\ \A m \in ToSet(s) : \E k \in 1..Len(ms) : m \in ToSet(Repaired(ms, k))
      /\ \A k \in 1..Len(ms) : ToSet(Repaired(ms, k)) \subseteq ToSet(s)
  <2>1. /\ Len(Chunks(ms)) = Len(ms)
        /\ \A k \in 1..Len(ms) : Chunks(ms)[k] = Repaired(ms, k)
    BY ChunksType
  <2> HIDE DEF s
  <2> QED  BY <1>1, <2>1
<1>3. \A m \in ToSet(s) : m.role = "user" => m.uses = {}
  BY <1>2, RepairedType
<1>4. ASSUME NEW x \in Holds(ms) PROVE x \in Holds(s)
  <2>1. PICK i \in 1..Len(ms) : x \in ms[i].says \cup ms[i].gist
    BY <1>4 DEF Holds
  <2>2. Here(ms, i) \in ToSet(s)
    BY <1>2, RepairedType
  <2>3. PICK j \in DOMAIN s : s[j] = Here(ms, i)
    BY <2>2 DEF ToSet
  <2>4. x \in s[j].says \cup s[j].gist
    BY <2>1, <2>3, HereType
  <2> HIDE DEF s
  <2> QED  BY <2>4 DEF Holds
<1> QED  BY <1>1, <1>3, <1>4

\* Whatever a history leaves unanswered, the request made from it is accepted.
LEMMA SanitizedIsWellFormed ==
  ASSUME NEW ms \in Seq(Message), Orderly(ms), ms # <<>>,
         Latest(ms).role = "user"
  PROVE  WellFormed(Sanitized(ms))
PROOF
<1> DEFINE ss == Chunks(ms)  s == Sanitized(ms)  n == Len(ms)
<1>1. n \in Nat \ {0} /\ 1 \in 1..n /\ n \in 1..n
  OBVIOUS
<1>2. /\ ss \in Seq(Seq(Message)) /\ Len(ss) = n /\ s = FlattenSeq(ss)
      /\ \A i \in 1..n : ss[i] = Repaired(ms, i)
  BY ChunksType
<1>3. \A i \in 1..Len(ss) : ss[i] # <<>> /\ Chained(ss[i], Answers)
  BY <1>2, RepairedType
<1>4. \A i \in 1..Len(ss)-1 : <<ss[i][Len(ss[i])], ss[i + 1][1]>> \in Answers
  <2>1. ASSUME NEW i \in 1..n-1
        PROVE <<ss[i][Len(ss[i])], ss[i + 1][1]>> \in Answers
    <3>1. i \in 1..n /\ i + 1 \in 1..n
      BY <1>1
    <3>2. ss[i] = Repaired(ms, i) /\ ss[i + 1] = Repaired(ms, i + 1)
      BY <1>2, <3>1
    <3> HIDE DEF ss
    <3> QED  BY <3>2, RepairedFits
  <2> QED  BY <1>2, <2>1
<1>5. /\ s # <<>> /\ Chained(s, Answers) /\ s[1] = ss[1][1]
      /\ s[Len(s)] = ss[n][Len(ss[n])]
  <2> HIDE DEF ss
  <2>1. Len(ss) # 0
    BY <1>1, <1>2
  <2> QED  BY <1>2, <1>3, <1>4, <2>1, FlattenChained
<1>6. s[1] = ms[1] /\ ms[1].role = "user" /\ ms[1].results = {}
  <2>1. s[1] = Here(ms, 1)
    BY <1>1, <1>2, <1>5, RepairedType
  <2> QED  BY <1>1, <2>1 DEF Here, Orderly
<1>7. s[Len(s)].role = "user"
  <2>1. ms[n].role = "user" /\ Missing(ms, n) = {}
    BY DEF Missing, Latest
  <2>2. Repaired(ms, n) = <<Here(ms, n)>>
    BY <2>1, RepairedIs DEF Dangles
  <2>3. s[Len(s)] = Here(ms, n)
    <3>1. ss[n] = <<Here(ms, n)>>
      BY <1>1, <1>2, <2>2
    <3>2. <<Here(ms, n)>>[Len(<<Here(ms, n)>>)] = Here(ms, n)
      OBVIOUS
    <3> HIDE DEF ss, s
    <3> QED  BY <1>5, <3>1, <3>2
  <2> QED  BY <1>1, <2>1, <2>3, HereType
<1>8. s \in Seq(Message)
  BY SanitizedKeeps
<1> HIDE DEF s
<1>9. ASSUME NEW i \in 2..Len(s)
      PROVE  /\ s[i - 1].uses # {} => s[i].role = "user"
             /\ s[i].role = "user" => s[i].results = s[i - 1].uses
  <2>1. i - 1 \in 1..Len(s)-1 /\ (i - 1) + 1 = i
    BY <1>8
  <2>2. <<s[i - 1], s[i]>> \in Answers
    BY <1>5, <2>1 DEF Chained
  <2> QED  BY <2>2 DEF Answers
<1>10. WellFormed(s)
  BY <1>5, <1>6, <1>7, <1>9 DEF WellFormed
<1> QED  BY <1>10 DEF s

\* The user of a history makes no tool use.
Plain(ms) == \A m \in ToSet(ms) : m.role = "user" => m.uses = {}

\* What is kept beside a summary are user messages without tools.
LEMMA RetainableType ==
  ASSUME NEW ms \in Seq(Message), Plain(ms)
  PROVE  /\ Retainable(ms) \in Seq(Message)
         /\ \A m \in ToSet(Retainable(ms)) :
              m.role = "user" /\ m.uses = {} /\ m.results = {}
PROOF
<1> DEFINE P(i) == IF Retains(ms[i]) THEN <<[ms[i] EXCEPT !.results = {}]>>
                   ELSE <<>>
           ss == [i \in 1..Len(ms) |-> P(i)]
<1>1. ASSUME NEW i \in 1..Len(ms)
      PROVE  /\ P(i) \in Seq(Message)
             /\ \A m \in ToSet(P(i)) :
                  m.role = "user" /\ m.uses = {} /\ m.results = {}
  <2>1. ms[i] \in Message /\ ms[i] \in ToSet(ms)
    BY DEF ToSet
  <2>2. CASE Retains(ms[i])
    <3> DEFINE m == [ms[i] EXCEPT !.results = {}]
    <3>1. ms[i].role = "user" /\ ms[i].uses = {}
      BY <2>1, <2>2 DEF Retains, Plain
    <3>2. m \in Message /\ m.role = "user" /\ m.uses = {} /\ m.results = {}
      BY <2>1, <3>1 DEF Message
    <3>3. P(i) = <<m>>
      BY <2>2
    <3> HIDE DEF m, P
    <3>4. ToSet(<<m>>) = {m} /\ <<m>> \in Seq(Message)
      BY <3>2 DEF ToSet
    <3> QED  BY <3>2, <3>3, <3>4
  <2>3. CASE ~Retains(ms[i])
    BY <2>3 DEF ToSet
  <2> QED  BY <2>2, <2>3
<1>2. Retainable(ms) = FlattenSeq(ss)
  BY DEF Retainable
<1>3. /\ ss \in Seq(Seq(Message)) /\ Len(ss) = Len(ms)
      /\ \A i \in 1..Len(ms) : ss[i] = P(i)
  <2> HIDE DEF P
  <2> QED  BY <1>1
<1> HIDE DEF P, ss
<1>4. /\ FlattenSeq(ss) \in Seq(Message)
      /\ ToSet(FlattenSeq(ss)) = UNION {ToSet(ss[k]) : k \in 1..Len(ss)}
  BY <1>3, FlattenElements
<1>5. ASSUME NEW m \in ToSet(FlattenSeq(ss))
      PROVE  m.role = "user" /\ m.uses = {} /\ m.results = {}
  <2>1. PICK k \in 1..Len(ms) : m \in ToSet(ss[k])
    BY <1>3, <1>4
  <2> QED  BY <1>1, <1>3, <2>1
<1> QED  BY <1>2, <1>4, <1>5

\* A history holds texts.
LEMMA HoldsType ==
  ASSUME NEW ms \in Seq(Message)
  PROVE  Holds(ms) \in SUBSET Text
PROOF
<1>1. ASSUME NEW i \in DOMAIN ms PROVE ms[i].says \cup ms[i].gist \subseteq Text
  <2>1. ms[i] \in Message
    OBVIOUS
  <2> QED  BY <2>1 DEF Message
<1> QED  BY <1>1 DEF Holds

\* The replacement history of a compaction is orderly, its last message is the
\* user's, and it holds whatever was shown to the summarising model.
LEMMA ReplacementIsOrderly ==
  ASSUME NEW ms \in Seq(Message), Plain(ms), NEW k \in Keeps(ms)
  PROVE  LET r == Replacement(ms, k) IN
         /\ r \in Seq(Message) /\ r # <<>> /\ Orderly(r)
         /\ Latest(r).role = "user"
         /\ Holds(ms) \subseteq Holds(r)
PROOF
<1> DEFINE kept == Retainable(ms)  a == Len(kept) - k + 1
           old == SubSeq(kept, a, Len(kept))
           sum == Summary(Holds(ms))  r == Append(old, sum)
<1>1. /\ kept \in Seq(Message)
      /\ \A m \in ToSet(kept) : m.role = "user" /\ m.uses = {} /\ m.results = {}
  BY RetainableType
<1>2. k \in 0..Len(kept) /\ Len(kept) \in Nat
  BY <1>1 DEF Keeps
<1>3. Replacement(ms, k) = r
  BY DEF Replacement
<1> HIDE DEF kept
<1>4. a \in 1..Len(kept)+1
  BY <1>2
<1>5. /\ old \in Seq(Message) /\ Len(old) = k
      /\ \A i \in 1..k : old[i] = kept[a + i - 1] /\ a + i - 1 \in 1..Len(kept)
  BY <1>1, <1>2, <1>4
<1>6. \A i \in 1..k : /\ old[i].role = "user" /\ old[i].uses = {}
                      /\ old[i].results = {}
  BY <1>1, <1>5 DEF ToSet
<1> HIDE DEF old
<1>7. sum \in Message /\ sum.role = "user" /\ sum.uses = {} /\ sum.results = {}
      /\ sum.gist = Holds(ms)
  BY HoldsType, MessageTypes DEF Summary
<1> HIDE DEF sum
<1>8. /\ r \in Seq(Message) /\ Len(r) = k + 1 /\ r[k + 1] = sum
      /\ \A i \in 1..k : r[i] = old[i]
  BY <1>2, <1>5, <1>7
<1> HIDE DEF r
<1>9. \A i \in 1..Len(r) : /\ r[i].role = "user" /\ r[i].uses = {}
                           /\ r[i].results = {}
  <2> TAKE i \in 1..Len(r)
  <2>1. i \in 1..k \/ i = k + 1
    BY <1>2, <1>8
  <2> QED  BY <1>6, <1>7, <1>8, <2>1
<1>10. Orderly(r)
  BY <1>9 DEF Orderly
<1>11. r # <<>> /\ Latest(r) = sum
  BY <1>2, <1>8 DEF Latest
<1>12. Holds(ms) \subseteq Holds(r)
  <2>1. k + 1 \in DOMAIN r
    BY <1>2, <1>8
  <2> QED  BY <1>7, <1>8, <2>1 DEF Holds
<1> QED  BY <1>3, <1>7, <1>8, <1>10, <1>11, <1>12

\* What is left of a history after dropping the oldest messages
LEMMA SurvivorsType ==
  ASSUME NEW ms \in Seq(Message), Plain(ms), NEW w \in Survivors(ms)
  PROVE  w \in Seq(Message) /\ Plain(w)
PROOF
<1>1. CASE w = <<>>
  BY <1>1 DEF Plain, ToSet
<1>2. CASE w # <<>>
  <2>1. PICK i \in Starts(ms) \cup {1} : w = SubSeq(ms, i, Len(ms))
    BY <1>2 DEF Survivors
  <2>2. i \in Nat \ {0} /\ Len(ms) \in Nat
    BY <2>1 DEF Starts
  <2>3. /\ w \in Seq(Message)
        /\ \A j \in DOMAIN w : i + j - 1 \in DOMAIN ms /\ w[j] = ms[i + j - 1]
    BY <2>1, <2>2
  <2>4. ToSet(w) \subseteq ToSet(ms)
    BY <2>3 DEF ToSet
  <2> QED  BY <2>3, <2>4 DEF Plain
<1> QED  BY <1>1, <1>2

\* What HistoryInv says of the history itself
SoundHistory(ms) == ms \in Seq(Message) /\ Orderly(ms)

\* A compaction installs an orderly history that ends with the user's message
\* and, unless it had to drop something, holds all that was said.
LEMMA CompactedInstalls ==
  ASSUME NEW ms, SoundHistory(ms), Compacted(ms), lossy \in BOOLEAN
  PROVE  \E r : /\ ckpt' = r /\ turns' = <<>> /\ ledger' = r
                /\ SoundHistory(r) /\ r # <<>> /\ Latest(r).role = "user"
                /\ lossy' \in BOOLEAN
                /\ ~lossy' => ~lossy /\ Holds(ms) \subseteq Holds(r)
PROOF
<1> DEFINE s == Sanitized(ms)
<1>1. /\ s \in Seq(Message) /\ Plain(s) /\ Holds(ms) \subseteq Holds(s)
  BY SanitizedKeeps DEF SoundHistory, Plain
<1>2. PICK w \in Survivors(s) : \E k \in Keeps(w) :
        /\ InstallReplacement(Replacement(w, k))
        /\ lossy' = (lossy \/ w # s)
  BY DEF Compacted
<1>3. PICK k \in Keeps(w) :
        /\ InstallReplacement(Replacement(w, k))
        /\ lossy' = (lossy \/ w # s)
  BY <1>2
<1> HIDE DEF s
<1>4. w \in Seq(Message) /\ Plain(w)
  BY <1>1, SurvivorsType
<1> DEFINE r == Replacement(w, k)
<1>5. /\ r \in Seq(Message) /\ r # <<>> /\ Orderly(r)
      /\ Latest(r).role = "user" /\ Holds(w) \subseteq Holds(r)
  BY <1>4, ReplacementIsOrderly
<1>6. ckpt' = r /\ turns' = <<>> /\ ledger' = r
  BY <1>3 DEF InstallReplacement
<1> HIDE DEF r
<1>7. lossy' \in BOOLEAN /\ (~lossy' => ~lossy /\ w = s)
  BY <1>3
<1> QED  BY <1>1, <1>5, <1>6, <1>7 DEF SoundHistory

\* Messages that may be appended to a history
Appendable(ms, m) ==
  /\ m \in Message
  /\ m.role = "user" =>
       /\ m.uses = {}
       /\ m.results = {} \/ (ms # <<>> /\ m.results \subseteq Latest(ms).uses)
  /\ m.role # "user" => ms # <<>>

\* Such a message leaves a sound history, which holds what it did and what the
\* message says.
LEMMA AppendIsSound ==
  ASSUME NEW ms, SoundHistory(ms), NEW m, Appendable(ms, m)
  PROVE  /\ SoundHistory(Append(ms, m)) /\ Append(ms, m) # <<>>
         /\ Latest(Append(ms, m)) = m
         /\ Holds(ms) \cup m.says \subseteq Holds(Append(ms, m))
PROOF
<1> DEFINE r == Append(ms, m)  n == Len(ms)
<1>1. /\ n \in Nat /\ r \in Seq(Message) /\ Len(r) = n + 1 /\ r[n + 1] = m
      /\ \A i \in 1..n : r[i] = ms[i]
  BY DEF SoundHistory, Appendable
<1>2. n = 0 <=> ms = <<>>
  BY DEF SoundHistory
<1> HIDE DEF r
<1>3. ASSUME NEW i \in 1..Len(r)
      PROVE  /\ i = 1 => r[i].role = "user" /\ r[i].results = {}
             /\ r[i].role = "user" =>
                  /\ r[i].uses = {}
                  /\ i > 1 => r[i].results \subseteq r[i - 1].uses
  <2>1. CASE i \in 1..n
    <3>1. r[i] = ms[i] /\ (i > 1 => r[i - 1] = ms[i - 1])
      BY <1>1, <2>1
    <3>2. /\ i = 1 => ms[i].role = "user" /\ ms[i].results = {}
          /\ ms[i].role = "user" =>
               /\ ms[i].uses = {}
               /\ i > 1 => ms[i].results \subseteq ms[i - 1].uses
      BY <2>1 DEF SoundHistory, Orderly
    <3> QED  BY <3>1, <3>2
  <2>2. CASE i = n + 1
    <3>1. r[i] = m
      BY <1>1, <2>2
    <3>2. i = 1 => ms = <<>>
      BY <1>1, <1>2, <2>2
    <3>3. i > 1 => ms # <<>> /\ r[i - 1] = Latest(ms)
      BY <1>1, <1>2, <2>2 DEF Latest
    <3>4. m.role = "user" =>
            /\ m.uses = {}
            /\ m.results = {} \/ (ms # <<>> /\ m.results \subseteq Latest(ms).uses)
      BY DEF Appendable
    <3>5. m.role # "user" => ms # <<>>
      BY DEF Appendable
    <3> QED  BY <3>1, <3>2, <3>3, <3>4, <3>5
  <2> QED  BY <1>1, <2>1, <2>2
<1>4. Orderly(r)
  BY <1>3 DEF Orderly
<1>5. r # <<>> /\ Latest(r) = m
  BY <1>1 DEF Latest
<1>6. Holds(ms) \cup m.says \subseteq Holds(r)
  <2>1. ASSUME NEW x \in Holds(ms) PROVE x \in Holds(r)
    <3>1. PICK i \in 1..n : x \in ms[i].says \cup ms[i].gist
      BY <2>1 DEF Holds, SoundHistory
    <3>2. i \in DOMAIN r /\ r[i] = ms[i]
      BY <1>1
    <3> QED  BY <3>1, <3>2 DEF Holds
  <2>2. n + 1 \in DOMAIN r
    BY <1>1
  <2> QED  BY <1>1, <2>1, <2>2 DEF Holds
<1> QED  BY <1>1, <1>4, <1>5, <1>6 DEF SoundHistory, r

-----------------------------------------------------------------------------
(* The inductive invariant                                                 *)

\* The pcs of a call that has been taken from the batch and not been answered
Tooling == {"gate", "ask", "parked", "forget", "exec"}

\* The pcs at which the conversation is the provider's to continue
Continuing == {"top", "request", "stream", "record", "drain", "spent", "tail", "summary",
               "closing"}

\* Where the turn is, and who was stopped.
LifeInv ==
  /\ up \in BOOLEAN /\ turn \in Prompt \cup {NoTurn} /\ pc \in Label
  /\ asked \subseteq Prompt /\ (pc = "idle") = (turn = NoTurn)
  /\ cancel \in BOOLEAN /\ stopping \in BOOLEAN

\* The iterations of the first window and of n more
Granted(n) == (n + 1) * Window

\* Windows granted so far pay for every request made and for the one about to
\* be made; the final summary is the only one on top.
BudgetInv ==
  /\ budget \in Nat /\ auto \in 0..AutoBudget /\ reqs \in Nat
  /\ pc = "idle" => reqs = 0
  /\ pc \in {"summary", "closing"} => reqs <= Granted(auto) + 1
  /\ pc = "request" => reqs + budget + 1 <= Granted(auto)
  /\ pc \notin {"idle", "request", "summary", "closing"}
       => reqs + budget <= Granted(auto)

\* An overflow that can be known is on record until it is compacted: in the
\* store, and in the turn that found it or is on its way to the compaction check.
OverflowInv ==
  /\ full \in BOOLEAN /\ saved \in BOOLEAN /\ over \in BOOLEAN /\ forgot \in BOOLEAN
  /\ pc = "record" => over
  /\ over /\ ~forgot =>
       /\ pc \in {"idle", "prompt", "top", "request", "record"}
       /\ pc # "record" => saved
       /\ pc # "idle" => full
       /\ pc \in {"prompt", "top"} => budget > 0

\* A call that is being dealt with is still the batch's first; after a stop
\* one of them may run, and then none.
ToolInv ==
  /\ batch \in Seq(Call) /\ results \subseteq Call /\ late \in Nat
  /\ pc \in Tooling => batch # <<>> /\ late = 0
  /\ pc \notin Tooling \cup {"batch"} => results = {}
  /\ late <= 1 /\ (late > 0 => cancel)

\* An approval lives as long as its wait, and it is answered at most once.
ApprovalInv ==
  /\ hub \subseteq Key /\ rows \subseteq Key /\ stale \subseteq Key
  /\ cards \in Seq(Key) /\ reply \in [allow : BOOLEAN, card : -1..Len(cards)]
  /\ NoOrphanedApproval
  /\ reply # NoReply \/ pc = "forget" => hub = {}

\* What the store holds is orderly and complete, and the running turn's ledger
\* is the same; its last message is where the turn is.
HistoryInv ==
  /\ turns \in Seq(Message) /\ ledger \in Seq(Message) /\ ckpt \in Seq(Message)
  /\ said \subseteq Text /\ lossy \in BOOLEAN
  /\ LedgerIsDurable
  /\ Orderly(Load)
  /\ NothingSaidIsLost
  /\ pc \notin {"idle", "prompt"} => Load # <<>>
  /\ pc \in Continuing => Latest(Load).role = "user"
  /\ pc \in Tooling \cup {"batch"} =>
       ToSet(batch) \cup results \subseteq Latest(Load).uses

\* A steer that was accepted is accounted for.
SteerInv ==
  /\ buf \subseteq Steer /\ pushed \subseteq Steer /\ gone \subseteq Steer
  /\ SteerIsKept

CountInv == faults \in 0..MaxFaults /\ compactions \in 0..MaxCompactions

LoopInv ==
  /\ LifeInv /\ BudgetInv /\ OverflowInv /\ ToolInv /\ ApprovalInv
  /\ HistoryInv /\ SteerInv /\ CountInv

\* Every further window adds its iterations to what was granted.
LEMMA GrantedGrows ==
  /\ \A n \in Nat : Granted(n) \in Nat /\ Granted(n + 1) = Granted(n) + Window
  /\ \A m, n \in Nat : m <= n => Granted(m) <= Granted(n)
  /\ Granted(0) = Window /\ Window \in Nat \ {0}
PROOF
<1>1. \A n \in Nat : (n + 1) * Window \in Nat
  BY WindowAssumption
<1>2. \A n \in Nat : (n + 1 + 1) * Window = (n + 1) * Window + Window
  BY WindowAssumption
<1>3. \A m, n \in Nat : m <= n => (m + 1) * Window <= (n + 1) * Window
  BY WindowAssumption
<1> QED  BY <1>1, <1>2, <1>3, WindowAssumption DEF Granted

-----------------------------------------------------------------------------
(* Every step keeps it                                                     *)

\* Every step leaves the turn lock with the turn in progress.
LEMMA LifeStep == LifeInv /\ [Next]_vars => LifeInv'
PROOF
<1> SUFFICES ASSUME LifeInv, [Next]_vars PROVE LifeInv'
  OBVIOUS
<1> USE DEF LifeInv, Label, life, ctl
<1>1. CASE UNCHANGED vars
  BY <1>1 DEF vars
<1>2. CASE TurnStep
  <2>1. CASE AppendPrompt
    BY <2>1 DEF AppendPrompt, Returns
  <2>2. CASE Iterate
    BY <2>2 DEF Iterate, Returns
  <2>3. CASE Request
    BY <2>3 DEF Request, Returns
  <2>4. CASE Respond
    BY <2>4 DEF Respond, Returns
  <2>5. CASE StreamEnds
    BY <2>5 DEF StreamEnds, Returns
  <2>6. CASE Overflow
    BY <2>6 DEF Overflow, Returns
  <2>7. CASE EndTurn
    BY <2>7 DEF EndTurn, Returns, DrainInto, GoesTo
  <2>8. CASE NextCall
    BY <2>8 DEF NextCall, Answered
  <2>9. CASE Gate
    BY <2>9 DEF Gate, Answered
  <2>10. CASE Ask
    BY <2>10 DEF Ask
  <2>11. CASE Wake
    BY <2>11 DEF Wake
  <2>12. CASE Forget
    BY <2>12 DEF Forget, Answered
  <2>13. CASE Execute
    BY <2>13 DEF Execute, Answered
  <2>14. CASE AppendResults
    BY <2>14 DEF AppendResults, Returns
  <2>15. CASE AfterResults
    BY <2>15 DEF AfterResults, Returns, DrainInto, GoesTo
  <2>16. CASE Spent
    BY <2>16 DEF Spent, Returns, GoesTo
  <2>17. CASE SummaryRequest
    BY <2>17 DEF SummaryRequest, Returns, DrainInto
  <2>18. CASE SummaryAnswer
    BY <2>18 DEF SummaryAnswer, Returns, GoesTo
  <2>19. CASE Close
    BY <2>19 DEF Close, Returns
  <2>20. CASE RecordFull
    BY <2>20 DEF RecordFull, Returns
  <2> QED  BY <1>2, <2>1, <2>2, <2>3, <2>4, <2>5, <2>6, <2>7, <2>8, <2>9, <2>10,
      <2>11, <2>12, <2>13, <2>14, <2>15, <2>16, <2>17, <2>18, <2>19, <2>20
      DEF TurnStep
<1>3. CASE SendPrompt
  BY <1>3, NoTurnAssumption DEF SendPrompt
<1>4. CASE ManualCompact
  BY <1>4 DEF ManualCompact
<1>5. CASE StopCancel
  BY <1>5 DEF StopCancel
<1>6. CASE StopDeny
  BY <1>6 DEF StopDeny
<1>7. CASE Crash
  BY <1>7 DEF Crash, Returns
<1>8. CASE Boot
  BY <1>8 DEF Boot
<1>9. ASSUME NEW s \in Steer, PushSteer(s) PROVE LifeInv'
  BY <1>9 DEF PushSteer
<1>10. ASSUME NEW n \in DOMAIN cards, NEW allow \in BOOLEAN, Answer(n, allow)
      PROVE  LifeInv'
  BY <1>10 DEF Answer
<1> QED  BY <1>1, <1>2, <1>3, <1>4, <1>5, <1>6, <1>7, <1>8, <1>9, <1>10
      DEF Next

\* The counters of a bounded instance stay within their bounds.
LEMMA CountStep == CountInv /\ [Next]_vars => CountInv'
PROOF
<1> SUFFICES ASSUME CountInv, [Next]_vars PROVE CountInv'
  OBVIOUS
<1> USE DEF CountInv, counts
<1>1. CASE UNCHANGED vars
  BY <1>1 DEF vars
<1>2. CASE TurnStep
  <2>1. CASE AppendPrompt
    BY <2>1, BoundsAssumption DEF AppendPrompt, Returns, Append1, AppendFails,
        NoAppend, Fault
  <2>2. CASE Iterate
    BY <2>2, BoundsAssumption DEF Iterate, Returns
  <2>3. CASE Request
    BY <2>3, BoundsAssumption DEF Request, Returns, Compacted
  <2>4. CASE Respond
    <3>1. compactions' = compactions /\ (faults' = faults \/ Fault)
      BY <2>4 DEF Respond, SaveCount, AppendFails
    <3> QED  BY <3>1, BoundsAssumption DEF Fault
  <2>5. CASE StreamEnds
    BY <2>5, BoundsAssumption DEF StreamEnds, Returns
  <2>6. CASE Overflow
    BY <2>6, BoundsAssumption DEF Overflow, Returns
  <2>7. CASE EndTurn
    BY <2>7, BoundsAssumption DEF EndTurn, Returns, DrainInto, GoesTo, Append1,
        AppendFails, NoAppend, Fault
  <2>8. CASE NextCall
    BY <2>8, BoundsAssumption DEF NextCall, Answered
  <2>9. CASE Gate
    BY <2>9, BoundsAssumption DEF Gate, Answered
  <2>10. CASE Ask
    BY <2>10, BoundsAssumption DEF Ask, Fault
  <2>11. CASE Wake
    BY <2>11, BoundsAssumption DEF Wake
  <2>12. CASE Forget
    BY <2>12, BoundsAssumption DEF Forget, Answered, Fault
  <2>13. CASE Execute
    BY <2>13, BoundsAssumption DEF Execute, Answered
  <2>14. CASE AppendResults
    BY <2>14, BoundsAssumption DEF AppendResults, Returns, Append1, AppendFails,
        NoAppend, Fault
  <2>15. CASE AfterResults
    BY <2>15, BoundsAssumption DEF AfterResults, Returns, DrainInto, GoesTo,
        Append1, AppendFails, NoAppend, Fault
  <2>16. CASE Spent
    BY <2>16, BoundsAssumption DEF Spent, Returns, GoesTo, Append1, AppendFails,
        NoAppend, Fault
  <2>17. CASE SummaryRequest
    BY <2>17, BoundsAssumption DEF SummaryRequest, Returns, DrainInto, Append1,
        AppendFails, NoAppend, Fault
  <2>18. CASE SummaryAnswer
    BY <2>18, BoundsAssumption DEF SummaryAnswer, Returns, GoesTo, Append1,
        AppendFails, NoAppend, Fault
  <2>19. CASE Close
    BY <2>19, BoundsAssumption DEF Close, Returns, Append1, AppendFails, NoAppend,
        Fault
  <2>20. CASE RecordFull
    BY <2>20, BoundsAssumption DEF RecordFull, Returns, Fault
  <2> QED  BY <1>2, <2>1, <2>2, <2>3, <2>4, <2>5, <2>6, <2>7, <2>8, <2>9, <2>10,
      <2>11, <2>12, <2>13, <2>14, <2>15, <2>16, <2>17, <2>18, <2>19, <2>20
      DEF TurnStep
<1>3. CASE SendPrompt
  <2>1. compactions' = compactions /\ (faults' = faults \/ Fault)
    BY <1>3 DEF SendPrompt
  <2> QED  BY <2>1, BoundsAssumption DEF Fault
<1>4. CASE ManualCompact
  BY <1>4, BoundsAssumption DEF ManualCompact, Compacted, SaveCount, Fault
<1>5. CASE StopCancel
  BY <1>5 DEF StopCancel
<1>6. CASE StopDeny
  BY <1>6 DEF StopDeny
<1>7. CASE Crash
  BY <1>7, BoundsAssumption DEF Crash, Returns, Fault
<1>8. CASE Boot
  BY <1>8, BoundsAssumption DEF Boot, Fault
<1>9. ASSUME NEW s \in Steer, PushSteer(s) PROVE CountInv'
  BY <1>9 DEF PushSteer
<1>10. ASSUME NEW n \in DOMAIN cards, NEW allow \in BOOLEAN, Answer(n, allow)
      PROVE  CountInv'
  BY <1>10 DEF Answer
<1> QED  BY <1>1, <1>2, <1>3, <1>4, <1>5, <1>6, <1>7, <1>8, <1>9, <1>10
      DEF Next

\* Every step that takes a steer from the buffer puts it in the ledger, unless
\* the write fails or the daemon dies.
LEMMA SteerStep == SteerInv /\ [Next]_vars => SteerInv'
PROOF
<1> SUFFICES ASSUME SteerInv, [Next]_vars PROVE SteerInv'
  OBVIOUS
<1> USE DEF SteerInv, SteerIsKept, steers, conv
<1>1. CASE UNCHANGED vars
  BY <1>1 DEF vars
<1>2. CASE TurnStep
  <2>1. CASE AppendPrompt
    BY <2>1 DEF AppendPrompt, Returns, Append1, Appends, AppendFails, NoAppend
  <2>2. CASE Iterate
    BY <2>2 DEF Iterate, Returns
  <2>3. CASE Request
    BY <2>3 DEF Request, Returns
  <2>4. CASE Respond
    BY <2>4 DEF Respond, Returns, Append1, Appends, AppendFails, NoAppend
  <2>5. CASE StreamEnds
    BY <2>5 DEF StreamEnds, Returns
  <2>6. CASE Overflow
    BY <2>6 DEF Overflow, Returns
  <2>7. CASE EndTurn
    BY <2>7 DEF EndTurn, Returns, DrainInto, GoesTo, Append1, Appends, AppendFails,
        NoAppend, UserSays
  <2>8. CASE NextCall
    BY <2>8 DEF NextCall, Answered
  <2>9. CASE Gate
    BY <2>9 DEF Gate, Answered
  <2>10. CASE Ask
    BY <2>10 DEF Ask
  <2>11. CASE Wake
    BY <2>11 DEF Wake
  <2>12. CASE Forget
    BY <2>12 DEF Forget, Answered
  <2>13. CASE Execute
    BY <2>13 DEF Execute, Answered
  <2>14. CASE AppendResults
    BY <2>14 DEF AppendResults, Returns, Append1, Appends, AppendFails, NoAppend
  <2>15. CASE AfterResults
    BY <2>15 DEF AfterResults, Returns, DrainInto, GoesTo, Append1, Appends, AppendFails,
        NoAppend, UserSays
  <2>16. CASE Spent
    BY <2>16 DEF Spent, Returns, GoesTo, Append1, Appends, AppendFails, NoAppend
  <2>17. CASE SummaryRequest
    BY <2>17 DEF SummaryRequest, Returns, DrainInto, Append1, Appends, AppendFails,
        NoAppend, UserSays
  <2>18. CASE SummaryAnswer
    BY <2>18 DEF SummaryAnswer, Returns, GoesTo, Append1, Appends, AppendFails, NoAppend
  <2>19. CASE Close
    BY <2>19 DEF Close, Returns, Append1, Appends, AppendFails, NoAppend
  <2>20. CASE RecordFull
    BY <2>20 DEF RecordFull, Returns
  <2> QED  BY <1>2, <2>1, <2>2, <2>3, <2>4, <2>5, <2>6, <2>7, <2>8, <2>9, <2>10,
      <2>11, <2>12, <2>13, <2>14, <2>15, <2>16, <2>17, <2>18, <2>19, <2>20
      DEF TurnStep
<1>3. CASE SendPrompt
  BY <1>3 DEF SendPrompt
<1>4. CASE ManualCompact
  BY <1>4 DEF ManualCompact
<1>5. CASE StopCancel
  BY <1>5 DEF StopCancel
<1>6. CASE StopDeny
  BY <1>6 DEF StopDeny
<1>7. CASE Crash
  BY <1>7 DEF Crash, Returns
<1>8. CASE Boot
  BY <1>8 DEF Boot
<1>9. ASSUME NEW s \in Steer, PushSteer(s) PROVE SteerInv'
  BY <1>9 DEF PushSteer
<1>10. ASSUME NEW n \in DOMAIN cards, NEW allow \in BOOLEAN, Answer(n, allow)
      PROVE  SteerInv'
  BY <1>10 DEF Answer
<1> QED  BY <1>1, <1>2, <1>3, <1>4, <1>5, <1>6, <1>7, <1>8, <1>9, <1>10
      DEF Next

\* Every step keeps the record of an overflow until a compaction removes it.
LEMMA OverflowStep ==
  LifeInv /\ BudgetInv /\ OverflowInv /\ [Next]_vars => OverflowInv'
PROOF
<1> SUFFICES ASSUME LifeInv, BudgetInv, OverflowInv, [Next]_vars
             PROVE  OverflowInv'
  OBVIOUS
<1> USE DEF LifeInv, BudgetInv, OverflowInv, Label, life, win, record, meter
<1>1. CASE UNCHANGED vars
  BY <1>1 DEF vars
<1>2. CASE TurnStep
  <2>1. CASE AppendPrompt
    BY <2>1 DEF AppendPrompt, Returns
  <2>2. CASE Iterate
    <3>1. UNCHANGED <<saved, over, forgot>> /\ pc = "top"
      BY <2>2 DEF Iterate
    <3>2. \/ budget = 0 /\ pc' = "spent" /\ full' = full
          \/ pc' = "idle" /\ full' = FALSE
          \/ pc' = "request" /\ full' = full
      BY <2>2 DEF Iterate, Returns
    <3>3. CASE budget = 0 /\ pc' = "spent" /\ full' = full
      BY <3>1, <3>3
    <3>4. CASE pc' = "idle" /\ full' = FALSE
      BY <3>1, <3>4
    <3>5. CASE pc' = "request" /\ full' = full
      BY <3>1, <3>5
    <3> QED  BY <3>2, <3>3, <3>4, <3>5
  <2>3. CASE Request
    BY <2>3 DEF Request, Returns, Settles
  <2>4. CASE Respond
    BY <2>4 DEF Respond, Returns, Settles, SaveCount
  <2>5. CASE StreamEnds
    BY <2>5 DEF StreamEnds, Returns
  <2>6. CASE Overflow
    BY <2>6 DEF Overflow, Returns
  <2>7. CASE EndTurn
    BY <2>7 DEF EndTurn, Returns, DrainInto, GoesTo
  <2>8. CASE NextCall
    BY <2>8 DEF NextCall, Answered
  <2>9. CASE Gate
    BY <2>9 DEF Gate, Answered
  <2>10. CASE Ask
    BY <2>10 DEF Ask
  <2>11. CASE Wake
    BY <2>11 DEF Wake
  <2>12. CASE Forget
    BY <2>12 DEF Forget, Answered
  <2>13. CASE Execute
    BY <2>13 DEF Execute, Answered
  <2>14. CASE AppendResults
    BY <2>14 DEF AppendResults, Returns
  <2>15. CASE AfterResults
    BY <2>15 DEF AfterResults, Returns, DrainInto, GoesTo
  <2>16. CASE Spent
    BY <2>16 DEF Spent, Returns, GoesTo
  <2>17. CASE SummaryRequest
    BY <2>17 DEF SummaryRequest, Returns, DrainInto
  <2>18. CASE SummaryAnswer
    BY <2>18 DEF SummaryAnswer, Returns, GoesTo
  <2>19. CASE Close
    BY <2>19 DEF Close, Returns
  <2>20. CASE RecordFull
    BY <2>20 DEF RecordFull, Returns
  <2> QED  BY <1>2, <2>1, <2>2, <2>3, <2>4, <2>5, <2>6, <2>7, <2>8, <2>9, <2>10,
      <2>11, <2>12, <2>13, <2>14, <2>15, <2>16, <2>17, <2>18, <2>19, <2>20
      DEF TurnStep
<1>3. CASE SendPrompt
  <2>1. pc = "idle" /\ pc' = "prompt" /\ budget' = Window /\ over' = over
    BY <1>3 DEF SendPrompt
  <2>2. \/ full' = saved /\ UNCHANGED <<saved, forgot>>
        \/ full' = FALSE /\ saved' \in {saved, FALSE} /\ forgot' = (forgot \/ over)
    BY <1>3 DEF SendPrompt
  <2>3. CASE full' = saved /\ UNCHANGED <<saved, forgot>>
    BY <2>1, <2>3, WindowAssumption
  <2>4. CASE full' = FALSE /\ saved' \in {saved, FALSE} /\ forgot' = (forgot \/ over)
    <3>1. saved' \in BOOLEAN /\ forgot' \in BOOLEAN /\ full' \in BOOLEAN
      BY <2>4
    <3>2. ~(over' /\ ~forgot')
      BY <2>1, <2>4
    <3> QED  BY <2>1, <3>1, <3>2
  <2> QED  BY <2>2, <2>3, <2>4
<1>4. CASE ManualCompact
  BY <1>4 DEF ManualCompact, Settles, SaveCount
<1>5. CASE StopCancel
  BY <1>5 DEF StopCancel
<1>6. CASE StopDeny
  BY <1>6 DEF StopDeny
<1>7. CASE Crash
  BY <1>7 DEF Crash, Returns
<1>8. CASE Boot
  BY <1>8 DEF Boot
<1>9. ASSUME NEW s \in Steer, PushSteer(s) PROVE OverflowInv'
  BY <1>9 DEF PushSteer
<1>10. ASSUME NEW n \in DOMAIN cards, NEW allow \in BOOLEAN, Answer(n, allow)
      PROVE  OverflowInv'
  BY <1>10 DEF Answer
<1> QED  BY <1>1, <1>2, <1>3, <1>4, <1>5, <1>6, <1>7, <1>8, <1>9, <1>10
      DEF Next

\* Every step pays for the request it makes.
LEMMA BudgetStep == LifeInv /\ BudgetInv /\ [Next]_vars => BudgetInv'
PROOF
<1> SUFFICES ASSUME LifeInv, BudgetInv, [Next]_vars PROVE BudgetInv'
  OBVIOUS
<1> USE DEF LifeInv, BudgetInv, Label, life, meter
<1>0. /\ Granted(auto) \in Nat /\ Granted(auto + 1) = Granted(auto) + Window
      /\ Window \in Nat \ {0} /\ AutoBudget \in Nat
  <2>1. auto \in Nat /\ AutoBudget \in Nat
    BY AutoAssumption
  <2> QED  BY <2>1, GrantedGrows
<1>1. ASSUME Returns PROVE BudgetInv'
  BY <1>0, <1>1 DEF Returns
<1>2. CASE UNCHANGED vars
  BY <1>2 DEF vars
<1>3. CASE TurnStep
  <2>1. CASE AppendPrompt
    <3>1. pc = "prompt"
      BY <2>1 DEF AppendPrompt
    <3>2. \/ Returns
          \/ pc' = "top" /\ UNCHANGED <<budget, auto, reqs>>
      BY <2>1 DEF AppendPrompt
    <3> QED  BY <1>0, <1>1, <3>1, <3>2
  <2>2. CASE Iterate
    <3>1. pc = "top"
      BY <2>2 DEF Iterate
    <3>2. \/ Returns
          \/ pc' = "spent" /\ UNCHANGED <<budget, auto, reqs>>
          \/ pc' = "request" /\ budget > 0 /\ budget' = budget - 1 /\ UNCHANGED <<auto, reqs>>
      BY <2>2 DEF Iterate
    <3> QED  BY <1>0, <1>1, <3>1, <3>2
  <2>3. CASE Request
    <3>1. pc = "request"
      BY <2>3 DEF Request
    <3>2. \/ Returns
          \/ pc' = "stream" /\ reqs' = reqs + 1 /\ UNCHANGED <<budget, auto>>
      BY <2>3 DEF Request
    <3> QED  BY <1>0, <1>1, <3>1, <3>2
  <2>4. CASE Respond
    <3>1. pc = "stream"
      BY <2>4 DEF Respond
    <3>2. \/ Returns
          \/ pc' \in {"answered", "batch"} /\ UNCHANGED <<budget, auto, reqs>>
      BY <2>4 DEF Respond
    <3> QED  BY <1>0, <1>1, <3>1, <3>2
  <2>5. CASE StreamEnds
    BY <2>5, <1>1 DEF StreamEnds
  <2>6. CASE Overflow
    BY <2>6 DEF Overflow
  <2>7. CASE EndTurn
    <3>1. pc = "answered"
      BY <2>7 DEF EndTurn
    <3>2. \/ Returns
          \/ pc' = "top" /\ UNCHANGED <<budget, auto, reqs>>
      BY <2>7 DEF EndTurn, DrainInto, GoesTo
    <3> QED  BY <1>0, <1>1, <3>1, <3>2
  <2>8. CASE NextCall
    BY <2>8 DEF NextCall, Answered
  <2>9. CASE Gate
    BY <2>9 DEF Gate, Answered
  <2>10. CASE Ask
    BY <2>10 DEF Ask
  <2>11. CASE Wake
    BY <2>11 DEF Wake
  <2>12. CASE Forget
    BY <2>12 DEF Forget, Answered
  <2>13. CASE Execute
    BY <2>13 DEF Execute, Answered
  <2>14. CASE AppendResults
    <3>1. pc = "batch"
      BY <2>14 DEF AppendResults
    <3>2. \/ Returns
          \/ pc' = "drain" /\ UNCHANGED <<budget, auto, reqs>>
      BY <2>14 DEF AppendResults
    <3> QED  BY <1>0, <1>1, <3>1, <3>2
  <2>15. CASE AfterResults
    <3>1. pc = "drain"
      BY <2>15 DEF AfterResults
    <3>2. \/ Returns
          \/ pc' = "top" /\ UNCHANGED <<budget, auto, reqs>>
      BY <2>15 DEF AfterResults, DrainInto, GoesTo
    <3> QED  BY <1>0, <1>1, <3>1, <3>2
  <2>16. CASE Spent
    <3>1. pc = "spent"
      BY <2>16 DEF Spent
    <3>2. \/ Returns
          \/ pc' = "top" /\ auto < AutoBudget /\ auto' = auto + 1 /\ budget' = budget + Window
             /\ UNCHANGED reqs
          \/ pc' = "tail" /\ UNCHANGED <<budget, auto, reqs>>
      BY <2>16 DEF Spent, GoesTo
    <3> QED  BY <1>0, <1>1, <3>1, <3>2
  <2>17. CASE SummaryRequest
    <3>1. pc = "tail"
      BY <2>17 DEF SummaryRequest
    <3>2. \/ Returns
          \/ pc' = "summary" /\ reqs' = reqs + 1 /\ UNCHANGED <<budget, auto>>
      BY <2>17 DEF SummaryRequest, DrainInto
    <3> QED  BY <1>0, <1>1, <3>1, <3>2
  <2>18. CASE SummaryAnswer
    <3>1. pc = "summary"
      BY <2>18 DEF SummaryAnswer
    <3>2. \/ Returns
          \/ pc' = "closing" /\ UNCHANGED <<budget, auto, reqs>>
      BY <2>18 DEF SummaryAnswer, GoesTo
    <3> QED  BY <1>0, <1>1, <3>1, <3>2
  <2>19. CASE Close
    BY <2>19, <1>1 DEF Close
  <2>20. CASE RecordFull
    BY <2>20, <1>1 DEF RecordFull
  <2> QED  BY <1>3, <2>1, <2>2, <2>3, <2>4, <2>5, <2>6, <2>7, <2>8, <2>9, <2>10,
      <2>11, <2>12, <2>13, <2>14, <2>15, <2>16, <2>17, <2>18, <2>19, <2>20
      DEF TurnStep
<1>4. CASE SendPrompt
  BY <1>4, GrantedGrows, AutoAssumption DEF SendPrompt
<1>5. CASE ManualCompact
  BY <1>5 DEF ManualCompact
<1>6. CASE StopCancel
  BY <1>6 DEF StopCancel
<1>7. CASE StopDeny
  BY <1>7 DEF StopDeny
<1>8. CASE Crash
  BY <1>8, <1>1 DEF Crash
<1>9. CASE Boot
  BY <1>9 DEF Boot
<1>10. ASSUME NEW s \in Steer, PushSteer(s) PROVE BudgetInv'
  BY <1>10 DEF PushSteer
<1>11. ASSUME NEW n \in DOMAIN cards, NEW allow \in BOOLEAN, Answer(n, allow)
      PROVE  BudgetInv'
  BY <1>11 DEF Answer
<1> QED  BY <1>2, <1>3, <1>4, <1>5, <1>6, <1>7, <1>8, <1>9, <1>10, <1>11
      DEF Next

\* Where the turn is between two requests, when it runs no tool
Quiet == {"prompt", "top", "request", "stream", "record", "answered", "drain", "spent",
          "tail", "summary", "closing"}

\* A step of the turn that runs no tool ends it or leaves its tools, its token
\* and its cards as they are.
Winds ==
  /\ pc \in Quiet /\ UNCHANGED <<up, asked, stopping, asks>>
  /\ \/ Returns
     \/ /\ pc' \in Quiet
        /\ UNCHANGED <<turn, cancel, card, tools>>

\* The steps that run no tool
LEMMA QuietSteps ==
  ASSUME \/ AppendPrompt \/ Iterate \/ Request \/ Overflow \/ RecordFull \/ EndTurn \/ AfterResults
         \/ Spent \/ SummaryRequest \/ SummaryAnswer
  PROVE  Winds
PROOF
<1> USE DEF Winds, Quiet
<1>1. CASE AppendPrompt
  BY <1>1 DEF AppendPrompt
<1>2. CASE Iterate
  BY <1>2 DEF Iterate
<1>3. CASE Request
  BY <1>3 DEF Request
<1>4. CASE EndTurn
  BY <1>4 DEF EndTurn, DrainInto, GoesTo
<1>5. CASE AfterResults
  BY <1>5 DEF AfterResults, DrainInto, GoesTo
<1>6. CASE Spent
  BY <1>6 DEF Spent, GoesTo
<1>7. CASE SummaryRequest
  BY <1>7 DEF SummaryRequest, DrainInto
<1>8. CASE SummaryAnswer
  BY <1>8 DEF SummaryAnswer, GoesTo
<1>9. CASE Overflow
  BY <1>9 DEF Overflow, life, ctl, perm, tools
<1>10. CASE RecordFull
  BY <1>10 DEF RecordFull
<1> QED  BY <1>1, <1>2, <1>3, <1>4, <1>5, <1>6, <1>7, <1>8, <1>9, <1>10

\* The calls of a response are a sequence of calls.
LEMMA CallsType ==
  ASSUME NEW calls \in SetToAllKPermutations(Call)
  PROVE  calls \in Seq(Call)
PROOF
<1>1. PICK S \in SUBSET Call : calls \in SetToSeqs(S)
  BY DEF SetToAllKPermutations
<1>2. Cardinality(S) \in Nat
  BY CallAssumption, FS_Subset, FS_CardinalityType
<1> QED  BY <1>1, <1>2 DEF SetToSeqs

\* Every step deals with the first call of the batch, and with none after a stop
\* but the one that runs.
LEMMA ToolStep == LifeInv /\ ToolInv /\ [Next]_vars => ToolInv'
PROOF
<1> SUFFICES ASSUME LifeInv, ToolInv, [Next]_vars PROVE ToolInv'
  OBVIOUS
<1> USE DEF LifeInv, ToolInv, Tooling, life, ctl, tools, meter
<1>1. ASSUME Returns PROVE ToolInv'
  <2>1. batch' = <<>> /\ results' = {} /\ late' = 0 /\ pc' = "idle"
    BY <1>1 DEF Returns
  <2> QED  BY <2>1
<1>2. ASSUME Winds PROVE ToolInv'
  BY <1>1, <1>2 DEF Winds, Quiet
<1>3. CASE UNCHANGED vars
  BY <1>3 DEF vars
<1>4. CASE TurnStep
  <2>1. CASE \/ AppendPrompt \/ Iterate \/ Request \/ Overflow \/ RecordFull \/ EndTurn \/ AfterResults
             \/ Spent \/ SummaryRequest \/ SummaryAnswer
    BY <1>2, <2>1, QuietSteps
  <2>2. CASE Respond
    <3>1. CASE Returns
      BY <1>1, <3>1
    <3>2. CASE ~Returns
      <4>1. PICK calls \in SetToAllKPermutations(Call) :
              /\ batch' = calls /\ pc' \in {"answered", "batch"}
              /\ UNCHANGED <<results, late, cancel>>
        BY <2>2, <3>2 DEF Respond
      <4>2. calls \in Seq(Call)
        BY CallsType
      <4>3. pc = "stream"
        BY <2>2 DEF Respond
      <4> QED  BY <4>1, <4>2, <4>3
    <3> QED  BY <3>1, <3>2
  <2>3. CASE StreamEnds
    BY <1>1, <2>3 DEF StreamEnds
  <2>5. CASE NextCall
    <3>1. CASE cancel
      <4>1. ToSet(batch) \subseteq Call
        BY DEF ToSet
      <4> QED  BY <2>5, <3>1, <4>1 DEF NextCall, Answered
    <3>2. CASE ~cancel
      BY <2>5, <3>2 DEF NextCall
    <3> QED  BY <3>1, <3>2
  <2>6. CASE Gate
    BY <2>6 DEF Gate, Answered
  <2>7. CASE Ask
    BY <2>7 DEF Ask
  <2>8. CASE Wake
    BY <2>8 DEF Wake
  <2>9. CASE Forget
    BY <2>9 DEF Forget, Answered
  <2>10. CASE Execute
    BY <2>10 DEF Execute, Answered
  <2>11. CASE AppendResults
    <3>1. CASE Returns
      BY <1>1, <3>1
    <3>2. CASE ~Returns
      <4>1. pc' = "drain" /\ results' = {} /\ UNCHANGED <<batch, late, cancel>>
        BY <2>11, <3>2 DEF AppendResults
      <4> QED  BY <4>1
    <3> QED  BY <3>1, <3>2
  <2>12. CASE Close
    BY <1>1, <2>12 DEF Close
  <2> QED  BY <1>4, <2>1, <2>2, <2>3, <2>5, <2>6, <2>7, <2>8, <2>9, <2>10,
      <2>11, <2>12 DEF TurnStep
<1>5. CASE SendPrompt
  BY <1>5 DEF SendPrompt
<1>6. CASE ManualCompact
  BY <1>6 DEF ManualCompact
<1>7. CASE StopCancel
  BY <1>7 DEF StopCancel
<1>8. CASE StopDeny
  BY <1>8 DEF StopDeny
<1>9. CASE Crash
  BY <1>1, <1>9 DEF Crash
<1>10. CASE Boot
  BY <1>10 DEF Boot
<1>11. ASSUME NEW s \in Steer, PushSteer(s) PROVE ToolInv'
  BY <1>11 DEF PushSteer
<1>12. ASSUME NEW n \in DOMAIN cards, NEW allow \in BOOLEAN, Answer(n, allow)
      PROVE  ToolInv'
  BY <1>12 DEF Answer
<1> QED  BY <1>3, <1>4, <1>5, <1>6, <1>7, <1>8, <1>9, <1>10, <1>11, <1>12
      DEF Next

\* A key is in the hub only while its call waits, and it leaves the hub with the
\* first reply.
LEMMA ApprovalStep ==
  LifeInv /\ ToolInv /\ ApprovalInv /\ [Next]_vars => ApprovalInv'
PROOF
<1> SUFFICES ASSUME LifeInv, ToolInv, ApprovalInv, [Next]_vars
             PROVE  ApprovalInv'
  OBVIOUS
<1> USE DEF ApprovalInv, NoOrphanedApproval, asks, card, life, ctl, tools,
    perm
<1>1. ASSUME Returns, pc \notin {"ask", "parked", "forget"}, UNCHANGED <<up, asks>>
      PROVE  ApprovalInv'
  BY <1>1 DEF Returns, NoReply
<1>2. ASSUME Winds PROVE ApprovalInv'
  <2>1. CASE Returns
    BY <1>1, <1>2, <2>1 DEF Winds, Quiet
  <2>2. CASE ~Returns
    BY <1>2, <2>2 DEF Winds, Quiet
  <2> QED  BY <2>1, <2>2
<1>3. pc \in Tooling => <<turn, Head(batch)>> \in Key
  <2>1. pc \in Tooling => turn \in Prompt /\ batch \in Seq(Call) /\ batch # <<>>
    BY DEF LifeInv, ToolInv, Tooling
  <2>2. batch \in Seq(Call) /\ batch # <<>> => Head(batch) \in Call
    OBVIOUS
  <2> QED  BY <2>1, <2>2 DEF Key
<1>4. CASE UNCHANGED vars
  BY <1>4 DEF vars
<1>5. CASE TurnStep
  <2>1. CASE \/ AppendPrompt \/ Iterate \/ Request \/ Overflow \/ RecordFull \/ EndTurn \/ AfterResults
             \/ Spent \/ SummaryRequest \/ SummaryAnswer
    BY <1>2, <2>1, QuietSteps
  <2>2. CASE Respond
    <3>1. CASE Returns
      BY <1>1, <3>1, <2>2 DEF Respond
    <3>2. CASE ~Returns
      BY <2>2, <3>2 DEF Respond
    <3> QED  BY <3>1, <3>2
  <2>3. CASE StreamEnds
    BY <1>1, <2>3 DEF StreamEnds
  <2>5. CASE NextCall
    BY <2>5 DEF NextCall, Answered
  <2>6. CASE Gate
    <3>1. PICK w \in Key : w = <<turn, Head(batch)>>
      BY <1>3, <2>6 DEF Gate, Tooling
    <3>2. pc = "gate"
      BY <2>6 DEF Gate
    <3>3. UNCHANGED <<up, turn, cards, rows, stale>> /\ hub = {}
      BY <3>2, <2>6 DEF Gate
    <3>4. CASE pc' \in {"exec", "batch"} /\ UNCHANGED <<hub, reply>>
      BY <3>2, <3>3, <3>4
    <3>5. CASE pc' = "ask" /\ hub' = {w} /\ reply' = NoReply /\ UNCHANGED batch
      <4>1. <<turn', Head(batch')>> = w
        BY <3>1, <3>3, <3>5
      <4> QED  BY <3>2, <3>3, <3>5, <4>1 DEF NoReply
    <3> QED  BY <3>1, <3>3, <3>4, <3>5, <2>6 DEF Gate, Answered
  <2>7. CASE Ask
    <3>1. PICK w \in Key : w = <<turn, Head(batch)>>
      BY <1>3, <2>7 DEF Ask, Tooling
    <3>2. pc = "ask"
      BY <2>7 DEF Ask
    <3>3. /\ UNCHANGED <<up, hub, reply, stale>> /\ pc' = "parked"
          /\ cards' = Append(cards, w) /\ (rows' = rows \cup {w} \/ rows' = rows)
      BY <3>1, <2>7 DEF Ask
    <3>4. <<turn', Head(batch')>> = w
      BY <3>1, <2>7 DEF Ask
    <3>5. cards' \in Seq(Key) /\ reply' \in [allow : BOOLEAN, card : -1..Len(cards')]
      BY <3>1, <3>3
    <3>6. NoOrphanedApproval'
      BY <3>1, <3>2, <3>3, <3>4
    <3> QED  BY <3>1, <3>2, <3>3, <3>5, <3>6
  <2>8. CASE Wake
    <3>1. PICK w \in Key : w = <<turn, Head(batch)>>
      BY <1>3, <2>8 DEF Wake, Tooling
    <3>2. pc = "parked"
      BY <2>8 DEF Wake
    <3>3. UNCHANGED <<up, turn, batch, cards, rows, stale>> /\ pc' = "forget"
      BY <2>8 DEF Wake
    <3>4. <<turn', Head(batch')>> = w
      BY <3>1, <3>3
    <3>5. hub' = {} /\ (reply' = NoReply \/ reply' = reply)
      BY <3>1, <3>2, <2>8 DEF Wake
    <3>6. NoOrphanedApproval'
      BY <3>1, <3>2, <3>3, <3>4, <3>5
    <3>7. cards' \in Seq(Key) /\ reply' \in [allow : BOOLEAN, card : -1..Len(cards')]
      <4>1. Len(cards) \in Nat /\ NoReply \in [allow : BOOLEAN, card : -1..Len(cards)]
        BY DEF NoReply
      <4>2. cards' = cards /\ (reply' = NoReply \/ reply' = reply)
        BY <3>3, <3>5
      <4> QED  BY <4>1, <4>2, Zenon
    <3> QED  BY <3>3, <3>5, <3>6, <3>7
  <2>9. CASE Forget
    <3>1. PICK w \in Key : w = <<turn, Head(batch)>>
      BY <1>3, <2>9 DEF Forget, Tooling
    <3>2. pc = "forget"
      BY <2>9 DEF Forget
    <3>3. /\ UNCHANGED <<up, turn, hub, cards>> /\ hub = {}
          /\ pc' \in {"exec", "batch"} /\ (reply' = reply \/ reply' = NoReply)
      BY <3>2, <2>9 DEF Forget, Answered
    <3>4. \/ rows' = rows \ {w} /\ stale' = stale
          \/ rows' = rows /\ stale' = stale \cup (rows \cap {w})
      BY <3>1, <2>9 DEF Forget
    <3>5. up => rows' \subseteq stale'
      BY <3>1, <3>2, <3>4
    <3>6. NoOrphanedApproval'
      BY <3>3, <3>5
    <3>7. cards' \in Seq(Key) /\ reply' \in [allow : BOOLEAN, card : -1..Len(cards')]
      <4>1. Len(cards) \in Nat /\ NoReply \in [allow : BOOLEAN, card : -1..Len(cards)]
        BY DEF NoReply
      <4>2. cards' = cards /\ (reply' = NoReply \/ reply' = reply)
        BY <3>3
      <4> QED  BY <4>1, <4>2, Zenon
    <3>8. rows' \subseteq Key /\ stale' \subseteq Key
      BY <3>4
    <3> QED  BY <3>3, <3>6, <3>7, <3>8
  <2>10. CASE Execute
    BY <2>10 DEF Execute, Answered, NoReply
  <2>11. CASE AppendResults
    <3>1. CASE Returns
      BY <1>1, <3>1, <2>11 DEF AppendResults
    <3>2. CASE ~Returns
      BY <2>11, <3>2 DEF AppendResults
    <3> QED  BY <3>1, <3>2
  <2>12. CASE Close
    BY <1>1, <2>12 DEF Close
  <2> QED  BY <1>5, <2>1, <2>2, <2>3, <2>5, <2>6, <2>7, <2>8, <2>9, <2>10,
      <2>11, <2>12 DEF TurnStep
<1>6. CASE SendPrompt
  BY <1>6 DEF SendPrompt
<1>7. CASE ManualCompact
  BY <1>7 DEF ManualCompact
<1>8. CASE StopCancel
  BY <1>8 DEF StopCancel
<1>9. CASE StopDeny
  BY <1>9 DEF StopDeny, NoReply
<1>10. CASE Crash
  BY <1>10 DEF Crash, Returns, NoReply
<1>11. CASE Boot
  BY <1>11 DEF Boot
<1>12. ASSUME NEW s \in Steer, PushSteer(s) PROVE ApprovalInv'
  BY <1>12 DEF PushSteer
<1>13. ASSUME NEW n \in DOMAIN cards, NEW allow \in BOOLEAN, Answer(n, allow)
      PROVE  ApprovalInv'
  BY <1>13 DEF Answer, NoReply
<1> QED  BY <1>4, <1>5, <1>6, <1>7, <1>8, <1>9, <1>10, <1>11, <1>12, <1>13
      DEF Next

\* What is appended to the turns is appended to what a restart would load.
LEMMA LoadAppends ==
  ASSUME turns \in Seq(Message), ckpt \in Seq(Message), NEW m \in Message,
         turns' = Append(turns, m), ckpt' = ckpt
  PROVE  Load' = Append(Load, m) /\ turns' \in Seq(Message)
PROOF
<1>1. PICK a \in Seq(Message) : a = turns
  OBVIOUS
<1>2. PICK b \in Seq(Message) : b = ckpt
  OBVIOUS
<1>3. b \o Append(a, m) = Append(b \o a, m)
  OBVIOUS
<1> QED  BY <1>1, <1>2, <1>3 DEF Load

\* The user may say anything at any time.
LEMMA UserMayFollow ==
  ASSUME NEW ms, NEW texts \in SUBSET Text
  PROVE  /\ Appendable(ms, UserSays(texts)) /\ UserSays(texts).role = "user"
         /\ UserSays(texts).says = texts
PROOF
  BY MessageTypes DEF Appendable, UserSays

\* What HistoryInv says of the store
StoreInv ==
  /\ turns \in Seq(Message) /\ ledger \in Seq(Message) /\ ckpt \in Seq(Message)
  /\ said \subseteq Text /\ lossy \in BOOLEAN
  /\ LedgerIsDurable /\ Orderly(Load) /\ NothingSaidIsLost

\* What HistoryInv says of the turn and the latest message
PlaceInv ==
  /\ pc \notin {"idle", "prompt"} => Load # <<>>
  /\ pc \in Continuing => Latest(Load).role = "user"
  /\ pc \in Tooling \cup {"batch"} =>
       ToSet(batch) \cup results \subseteq Latest(Load).uses

\* HistoryInv is about the store and about the place of the turn.
LEMMA HistoryParts ==
  /\ HistoryInv <=> StoreInv /\ PlaceInv
  /\ HistoryInv' <=> StoreInv' /\ PlaceInv'
PROOF BY DEF HistoryInv, StoreInv, PlaceInv

\* The store as it was
LEMMA StoreKept ==
  ASSUME StoreInv, UNCHANGED <<turns, ckpt, said, lossy>>,
         ledger' \in {ledger, <<>>, Load}, turn' # NoTurn => ledger' = Load
  PROVE  StoreInv' /\ Load' = Load
PROOF
<1>1. Load' = Load /\ Load \in Seq(Message)
  BY DEF Load, StoreInv
<1>2. ledger' \in Seq(Message)
  <2>1. <<>> \in Seq(Message) /\ ledger \in Seq(Message)
    BY DEF StoreInv
  <2> QED  BY <1>1, <2>1, Zenon
<1> QED  BY <1>1, <1>2 DEF StoreInv, LedgerIsDurable, NothingSaidIsLost

\* A message is appended.
LEMMA StoreAppends ==
  ASSUME StoreInv, NEW m, Appends(m), Appendable(Load, m), m.says \subseteq Text,
         UNCHANGED <<ckpt, lossy>>, turn # NoTurn
  PROVE  StoreInv' /\ Load' # <<>> /\ Latest(Load') = m
PROOF
<1>1. PICK h : h = Load
  OBVIOUS
<1>2. SoundHistory(h) /\ Appendable(h, m) /\ m \in Message /\ ledger = h
  BY <1>1 DEF StoreInv, SoundHistory, Appendable, Load, LedgerIsDurable
<1>3. /\ SoundHistory(Append(h, m)) /\ Append(h, m) # <<>>
      /\ Latest(Append(h, m)) = m
      /\ Holds(h) \cup m.says \subseteq Holds(Append(h, m))
  BY <1>2, AppendIsSound
<1>4. Load' = Append(h, m) /\ turns' \in Seq(Message)
  BY <1>1, <1>2, LoadAppends DEF StoreInv, Appends
<1>5. ledger' = Append(h, m) /\ said' = said \cup m.says
  BY <1>2 DEF Appends
<1>6. NothingSaidIsLost'
  BY <1>1, <1>3, <1>4, <1>5 DEF StoreInv, NothingSaidIsLost
<1> QED  BY <1>3, <1>4, <1>5, <1>6 DEF StoreInv, LedgerIsDurable, SoundHistory

\* A compaction installs its replacement.
LEMMA StoreCompacts ==
  ASSUME StoreInv, NEW ms, ms = Load, Compacted(ms), UNCHANGED said
  PROVE  StoreInv' /\ Load' # <<>> /\ Latest(Load').role = "user"
PROOF
<1>1. SoundHistory(ms)
  BY DEF StoreInv, SoundHistory, Load
<1>2. PICK r : /\ ckpt' = r /\ turns' = <<>> /\ ledger' = r
               /\ SoundHistory(r) /\ r # <<>> /\ Latest(r).role = "user"
               /\ lossy' \in BOOLEAN
               /\ ~lossy' => ~lossy /\ Holds(ms) \subseteq Holds(r)
  BY <1>1, CompactedInstalls DEF StoreInv
<1>3. Load' = r
  BY <1>2 DEF Load, SoundHistory
<1>4. NothingSaidIsLost'
  BY <1>2, <1>3 DEF StoreInv, NothingSaidIsLost
<1> QED  BY <1>2, <1>3, <1>4 DEF StoreInv, LedgerIsDurable, SoundHistory

\* Every step appends what may follow, or replaces the history by one that holds
\* the same.
LEMMA HistoryStep ==
  LifeInv /\ ToolInv /\ SteerInv /\ HistoryInv /\ [Next]_vars => HistoryInv'
PROOF
<1> SUFFICES ASSUME LifeInv, ToolInv, SteerInv, HistoryInv, [Next]_vars
             PROVE  HistoryInv'
  OBVIOUS
<1>1. ASSUME UNCHANGED <<turns, ckpt, said, lossy>>, pc' \in {"idle", "prompt"},
             ledger' \in {ledger, <<>>, Load}, turn' # NoTurn => ledger' = Load
      PROVE  HistoryInv'
  BY <1>1, HistoryParts, StoreKept DEF PlaceInv, Continuing, Tooling
<1>2. ASSUME UNCHANGED <<turns, ckpt, said, lossy, ledger, turn>>,
             pc \in Continuing, pc' \in Continuing
      PROVE  HistoryInv'
  <2>1. StoreInv' /\ Load' = Load
    BY <1>2, HistoryParts, StoreKept DEF StoreInv, LedgerIsDurable
  <2> QED  BY <1>2, <2>1, HistoryParts DEF PlaceInv, Continuing, Tooling
<1>3. ASSUME UNCHANGED <<turns, ckpt, said, lossy, ledger, turn>>,
             pc \in Tooling \cup {"batch"}, pc' \in Tooling \cup {"batch"},
             ToSet(batch') \cup results' \subseteq ToSet(batch) \cup results
      PROVE  HistoryInv'
  <2>1. StoreInv' /\ Load' = Load
    BY <1>3, HistoryParts, StoreKept DEF StoreInv, LedgerIsDurable
  <2> QED  BY <1>3, <2>1, HistoryParts DEF PlaceInv, Continuing, Tooling
<1>4. ASSUME UNCHANGED <<turns, ckpt, said, lossy, ledger, turn, pc, batch, results>>
      PROVE  HistoryInv'
  <2>1. StoreInv' /\ Load' = Load
    BY <1>4, HistoryParts, StoreKept DEF StoreInv, LedgerIsDurable
  <2> QED  BY <1>4, <2>1, HistoryParts DEF PlaceInv
<1>5. ASSUME NEW texts \in SUBSET Text, Append1(UserSays(texts)),
             UNCHANGED <<ckpt, lossy>>, turn # NoTurn,
             pc' \in Continuing \cup {"idle"}
      PROVE  HistoryInv'
  <2>1. StoreInv' /\ Load' # <<>> /\ Latest(Load') = UserSays(texts)
    BY <1>5, HistoryParts, UserMayFollow, StoreAppends DEF Append1
  <2> QED  BY <1>5, <2>1, UserMayFollow, HistoryParts DEF PlaceInv, Continuing, Tooling
<1>6. ASSUME NEW ms, ms = Load, Compacted(ms), UNCHANGED said,
             pc' \in Continuing \cup {"idle"}
      PROVE  HistoryInv'
  <2>1. StoreInv' /\ Load' # <<>> /\ Latest(Load').role = "user"
    BY <1>6, HistoryParts, StoreCompacts
  <2> QED  BY <1>6, <2>1, HistoryParts DEF PlaceInv, Continuing, Tooling
<1>7. ASSUME Returns, UNCHANGED <<turns, ckpt, said, lossy>>, ledger' \in {ledger, <<>>}
      PROVE  HistoryInv'
  BY <1>1, <1>7 DEF Returns
<1>8. turn # NoTurn => ledger = Load
  BY DEF HistoryInv, LedgerIsDurable
<1>9. pc # "idle" => turn # NoTurn
  BY DEF LifeInv
<1>10. ASSUME pc \in Tooling PROVE ToSet(Tail(batch)) \cup {Head(batch)}
    \subseteq ToSet(batch)
  <2>1. batch \in Seq(Call) /\ batch # <<>>
    BY <1>10 DEF ToolInv
  <2>2. Head(batch) \in ToSet(batch)
    BY <2>1 DEF ToSet
  <2>3. ToSet(Tail(batch)) \subseteq ToSet(batch)
    BY <2>1 DEF ToSet
  <2> QED  BY <2>2, <2>3
<1>11. CASE UNCHANGED vars
  BY <1>4, <1>11 DEF vars, life, conv, tools
<1>12. CASE TurnStep
  <2>1. CASE AppendPrompt
    <3>1. CASE Append1(UserSays({turn}))
      <4>1. PICK texts \in SUBSET Text : texts = {turn}
        BY <2>1, <1>9 DEF LifeInv, SteerInv, Text, AppendPrompt
      <4>2. /\ Append1(UserSays(texts)) /\ UNCHANGED <<ckpt, lossy>>
            /\ turn # NoTurn /\ pc' \in Continuing \cup {"idle"}
        BY <2>1, <1>9, <3>1, <4>1 DEF AppendPrompt, Returns, Continuing
      <4> QED  BY <1>5, <4>2
    <3>2. CASE ~Append1(UserSays({turn}))
      BY <2>1, <1>7, <3>2 DEF AppendPrompt, AppendFails
    <3> QED  BY <3>1, <3>2
  <2>2. CASE Iterate
    <3>1. CASE Returns
      BY <2>2, <1>7, <3>1 DEF Iterate, conv
    <3>2. CASE ~Returns
      BY <2>2, <1>2, <3>2 DEF Iterate, conv, Continuing
    <3> QED  BY <3>1, <3>2
  <2>3. CASE Request
    <3>1. CASE Compacted(ledger)
      <4>1. PICK ms : ms = Load
        OBVIOUS
      <4>2. Compacted(ms)
        BY <2>3, <1>8, <1>9, <3>1, <4>1 DEF Request
      <4> QED  BY <2>3, <1>6, <4>1, <4>2 DEF Request, Returns, Continuing
    <3>2. CASE ~Compacted(ledger)
      <4>1. CASE Returns
        BY <2>3, <1>7, <3>2, <4>1 DEF Request
      <4>2. CASE ~Returns
        BY <2>3, <1>2, <3>2, <4>2 DEF Request, Continuing
      <4> QED  BY <4>1, <4>2
    <3> QED  BY <3>1, <3>2
  <2>4. CASE Respond
    <3>1. CASE Returns
      <4>1. CASE AppendFails
        BY <2>4, <1>7, <3>1, <4>1 DEF Respond, AppendFails
      <4>2. CASE ~AppendFails
        BY <2>4, <3>1, <4>2 DEF Respond, Returns
      <4> QED  BY <4>1, <4>2
    <3>2. CASE ~Returns
      <4>1. PICK calls \in SetToAllKPermutations(Call) :
              /\ Appends(Assistant(ToSet(calls))) /\ batch' = calls
              /\ pc' \in {"answered", "batch"} /\ UNCHANGED <<results, turn, ckpt, lossy>>
        BY <2>4, <3>2 DEF Respond
      <4>2. ToSet(calls) \subseteq Call
        BY CallsType DEF ToSet
      <4>3. pc = "stream" /\ results = {} /\ turn # NoTurn /\ Load # <<>>
        BY <2>4, <1>9 DEF Respond, HistoryInv, ToolInv, Tooling
      <4> DEFINE m == Assistant(ToSet(calls))
      <4>4. /\ m \in Message /\ m.role = "assistant" /\ m.says = {}
            /\ m.uses = ToSet(calls)
        BY <4>2, MessageTypes DEF Assistant
      <4>5. Appends(m)
        BY <4>1
      <4> HIDE DEF m
      <4>6. Appendable(Load, m)
        BY <4>3, <4>4 DEF Appendable
      <4>7. StoreInv' /\ Load' # <<>> /\ Latest(Load') = m
        BY <4>1, <4>3, <4>4, <4>5, <4>6, HistoryParts, StoreAppends
      <4>8. PlaceInv'
        BY <4>1, <4>3, <4>4, <4>7 DEF PlaceInv, Continuing, Tooling
      <4> QED  BY <4>7, <4>8, HistoryParts
    <3> QED  BY <3>1, <3>2
  <2>5. CASE StreamEnds
    BY <2>5, <1>7 DEF StreamEnds, conv
  <2>6. CASE Overflow
    BY <2>6, <1>2 DEF Overflow, conv, life, Continuing
  <2>7. CASE EndTurn
    <3>1. CASE Append1(UserSays(buf))
      <4>1. PICK texts \in SUBSET Text : texts = buf
        BY <2>7, <1>9 DEF LifeInv, SteerInv, Text, EndTurn, DrainInto, GoesTo
      <4>2. /\ Append1(UserSays(texts)) /\ UNCHANGED <<ckpt, lossy>>
            /\ turn # NoTurn /\ pc' \in Continuing \cup {"idle"}
        BY <2>7, <1>9, <3>1, <4>1 DEF EndTurn, DrainInto, GoesTo, Returns, Continuing
      <4> QED  BY <1>5, <4>2
    <3>2. CASE ~Append1(UserSays(buf))
      BY <2>7, <1>7, <3>2 DEF EndTurn, DrainInto, AppendFails, NoAppend
    <3> QED  BY <3>1, <3>2
  <2>8. CASE NextCall
    <3>1. CASE cancel
      BY <2>8, <1>3, <3>1 DEF NextCall, Answered, Tooling, conv, life, ToSet
    <3>2. CASE ~cancel
      BY <2>8, <1>3, <3>2 DEF NextCall, Tooling, conv, life
    <3> QED  BY <3>1, <3>2
  <2>9. CASE Gate
    <3>1. /\ UNCHANGED <<turns, ckpt, said, lossy, ledger, turn>>
          /\ pc \in Tooling /\ pc' \in Tooling \cup {"batch"}
          /\ \/ UNCHANGED <<batch, results>>
             \/ batch' = Tail(batch) /\ results' = results \cup {Head(batch)}
      BY <2>9 DEF Gate, Answered, Tooling, conv, life
    <3> QED  BY <1>3, <1>10, <3>1
  <2>10. CASE Ask
    BY <2>10, <1>3 DEF Ask, Tooling, conv, life, tools
  <2>11. CASE Wake
    BY <2>11, <1>3 DEF Wake, Tooling, conv, life, tools
  <2>12. CASE Forget
    <3>1. /\ UNCHANGED <<turns, ckpt, said, lossy, ledger, turn>>
          /\ pc \in Tooling /\ pc' \in Tooling \cup {"batch"}
          /\ \/ UNCHANGED <<batch, results>>
             \/ batch' = Tail(batch) /\ results' = results \cup {Head(batch)}
      BY <2>12 DEF Forget, Answered, Tooling, conv, life
    <3> QED  BY <1>3, <1>10, <3>1
  <2>13. CASE Execute
    <3>1. /\ UNCHANGED <<turns, ckpt, said, lossy, ledger, turn>>
          /\ pc \in Tooling /\ pc' \in Tooling \cup {"batch"}
          /\ \/ UNCHANGED <<batch, results>>
             \/ batch' = Tail(batch) /\ results' = results \cup {Head(batch)}
      BY <2>13 DEF Execute, Answered, Tooling, conv, life
    <3> QED  BY <1>3, <1>10, <3>1
  <2>14. CASE AppendResults
    <3>1. CASE Returns
      BY <2>14, <1>7, <3>1 DEF AppendResults, AppendFails, Append1, Appends, Returns
    <3>2. CASE ~Returns
      <4>1. PICK m : m = ToolResults(results)
        OBVIOUS
      <4>2. /\ Append1(m) /\ pc' = "drain" /\ UNCHANGED <<ckpt, lossy>>
            /\ pc = "batch"
        BY <2>14, <3>2, <4>1 DEF AppendResults
      <4>3. /\ m \in Message /\ m.role = "user" /\ m.says = {} /\ m.uses = {}
            /\ m.results = results
        BY <4>1, MessageTypes DEF ToolResults, ToolInv
      <4>4. Appendable(Load, m)
        BY <4>2, <4>3 DEF Appendable, HistoryInv
      <4>5. StoreInv' /\ Load' # <<>> /\ Latest(Load') = m
        BY <1>9, <4>2, <4>3, <4>4, HistoryParts, StoreAppends DEF Append1
      <4> QED  BY <4>2, <4>3, <4>5, HistoryParts DEF PlaceInv, Continuing, Tooling
    <3> QED  BY <3>1, <3>2
  <2>15. CASE AfterResults
    <3>1. CASE Append1(UserSays(buf))
      <4>1. PICK texts \in SUBSET Text : texts = buf
        BY <2>15, <1>9 DEF LifeInv, SteerInv, Text, AfterResults, DrainInto, GoesTo
      <4>2. /\ Append1(UserSays(texts)) /\ UNCHANGED <<ckpt, lossy>>
            /\ turn # NoTurn /\ pc' \in Continuing \cup {"idle"}
        BY <2>15, <1>9, <3>1, <4>1 DEF AfterResults, DrainInto, GoesTo, Returns, Continuing
      <4> QED  BY <1>5, <4>2
    <3>2. CASE ~Append1(UserSays(buf))
      <4>1. CASE Returns
        BY <2>15, <1>7, <3>2, <4>1 DEF AfterResults, DrainInto, AppendFails, NoAppend
      <4>2. CASE ~Returns
        BY <2>15, <1>2, <3>2, <4>2 DEF AfterResults, DrainInto, GoesTo, NoAppend, Continuing
      <4> QED  BY <4>1, <4>2
    <3> QED  BY <3>1, <3>2
  <2>16. CASE Spent
    <3>1. CASE Append1(UserSays({"continue"}))
      <4>1. PICK texts \in SUBSET Text : texts = {"continue"}
        BY <2>16, <1>9 DEF LifeInv, SteerInv, Text, Spent, GoesTo
      <4>2. /\ Append1(UserSays(texts)) /\ UNCHANGED <<ckpt, lossy>>
            /\ turn # NoTurn /\ pc' \in Continuing \cup {"idle"}
        BY <2>16, <1>9, <3>1, <4>1 DEF Spent, GoesTo, Returns, Continuing
      <4> QED  BY <1>5, <4>2
    <3>2. CASE ~Append1(UserSays({"continue"}))
      <4>1. CASE Returns
        BY <2>16, <1>7, <3>2, <4>1 DEF Spent, GoesTo, AppendFails, NoAppend
      <4>2. CASE ~Returns
        BY <2>16, <1>2, <3>2, <4>2 DEF Spent, GoesTo, NoAppend, Continuing
      <4> QED  BY <4>1, <4>2
    <3> QED  BY <3>1, <3>2
  <2>17. CASE SummaryRequest
    <3>1. CASE Append1(UserSays(buf))
      <4>1. PICK texts \in SUBSET Text : texts = buf
        BY <2>17, <1>9 DEF LifeInv, SteerInv, Text, SummaryRequest, DrainInto, GoesTo
      <4>2. /\ Append1(UserSays(texts)) /\ UNCHANGED <<ckpt, lossy>>
            /\ turn # NoTurn /\ pc' \in Continuing \cup {"idle"}
        BY <2>17, <1>9, <3>1, <4>1 DEF SummaryRequest, DrainInto, GoesTo, Returns, Continuing
      <4> QED  BY <1>5, <4>2
    <3>2. CASE ~Append1(UserSays(buf))
      <4>1. CASE Returns
        BY <2>17, <1>7, <3>2, <4>1 DEF SummaryRequest, DrainInto, AppendFails, NoAppend
      <4>2. CASE ~Returns
        BY <2>17, <1>2, <3>2, <4>2 DEF SummaryRequest, DrainInto, NoAppend, Continuing
      <4> QED  BY <4>1, <4>2
    <3> QED  BY <3>1, <3>2
  <2>18. CASE SummaryAnswer
    <3>1. CASE Append1(UserSays({"nudge"}))
      <4>1. PICK texts \in SUBSET Text : texts = {"nudge"}
        BY <2>18, <1>9 DEF LifeInv, SteerInv, Text, SummaryAnswer, GoesTo
      <4>2. /\ Append1(UserSays(texts)) /\ UNCHANGED <<ckpt, lossy>>
            /\ turn # NoTurn /\ pc' \in Continuing \cup {"idle"}
        BY <2>18, <1>9, <3>1, <4>1 DEF SummaryAnswer, GoesTo, Returns, Continuing
      <4> QED  BY <1>5, <4>2
    <3>2. CASE ~Append1(UserSays({"nudge"}))
      BY <2>18, <1>7, <3>2 DEF SummaryAnswer, AppendFails, NoAppend
    <3> QED  BY <3>1, <3>2
  <2>19. CASE Close
    <3>1. CASE AppendFails
      BY <2>19, <1>7, <3>1 DEF Close, AppendFails
    <3>2. CASE ~AppendFails
      <4>1. PICK m : m = Assistant({})
        OBVIOUS
      <4>2. /\ Append1(m) /\ pc' = "idle" /\ UNCHANGED <<ckpt, lossy>>
            /\ pc = "closing"
        BY <2>19, <3>2, <4>1 DEF Close, Returns
      <4>3. m \in Message /\ m.role = "assistant" /\ m.says = {}
        BY <4>1, MessageTypes DEF Assistant
      <4>4. Appendable(Load, m)
        BY <4>2, <4>3 DEF Appendable, HistoryInv
      <4>5. StoreInv' /\ Load' # <<>> /\ Latest(Load') = m
        BY <1>9, <4>2, <4>3, <4>4, HistoryParts, StoreAppends DEF Append1
      <4> QED  BY <4>2, <4>5, HistoryParts DEF PlaceInv, Continuing, Tooling
    <3> QED  BY <3>1, <3>2
  <2>20. CASE RecordFull
    BY <2>20, <1>7 DEF RecordFull, conv
  <2> QED  BY <1>12, <2>1, <2>2, <2>3, <2>4, <2>5, <2>6, <2>7, <2>8, <2>9,
      <2>10, <2>11, <2>12, <2>13, <2>14, <2>15, <2>16, <2>17, <2>18, <2>19, <2>20
      DEF TurnStep
<1>13. CASE SendPrompt
  BY <1>13, <1>1 DEF SendPrompt
<1>14. CASE ManualCompact
  <2>1. PICK ms : ms = Load
    OBVIOUS
  <2>2. Compacted(ms)
    BY <1>14, <2>1 DEF ManualCompact
  <2> QED  BY <1>14, <1>6, <2>1, <2>2 DEF ManualCompact
<1>15. CASE StopCancel
  BY <1>15, <1>4 DEF StopCancel, life, conv, tools
<1>16. CASE StopDeny
  BY <1>16, <1>4 DEF StopDeny, life, conv, tools
<1>17. CASE Crash
  BY <1>17, <1>7 DEF Crash
<1>18. CASE Boot
  BY <1>18, <1>4 DEF Boot, life, conv, tools
<1>19. ASSUME NEW s \in Steer, PushSteer(s) PROVE HistoryInv'
  BY <1>19, <1>4 DEF PushSteer, life, conv, tools
<1>20. ASSUME NEW n \in DOMAIN cards, NEW allow \in BOOLEAN, Answer(n, allow)
      PROVE  HistoryInv'
  BY <1>20, <1>4 DEF Answer, life, conv, tools
<1> QED  BY <1>11, <1>12, <1>13, <1>14, <1>15, <1>16, <1>17, <1>18, <1>19,
    <1>20 DEF Next

-----------------------------------------------------------------------------
(* The theorems                                                            *)

\* The loop starts in the invariant.
LEMMA LoopInit == Init => LoopInv
PROOF
<1> SUFFICES ASSUME Init PROVE LoopInv
  OBVIOUS
<1>1. LifeInv /\ OverflowInv
  BY NoTurnAssumption DEF Init, LifeInv, OverflowInv, Label
<1>2. ToolInv /\ SteerInv
  BY DEF Init, ToolInv, SteerInv, SteerIsKept, Tooling
<1>3. BudgetInv
  BY AutoAssumption DEF Init, BudgetInv
<1>4. ApprovalInv
  BY DEF Init, ApprovalInv, NoOrphanedApproval, NoReply, Tooling
<1>5. Load = <<>>
  BY DEF Init, Load
<1>6. HistoryInv
  <2>1. Orderly(<<>>) /\ <<>> \in Seq(Message)
    BY DEF Orderly
  <2> QED  BY <1>5, <2>1 DEF Init, HistoryInv, LedgerIsDurable, NothingSaidIsLost,
              Tooling, Continuing
<1>7. CountInv
  BY BoundsAssumption DEF Init, CountInv
<1> QED  BY <1>1, <1>2, <1>3, <1>4, <1>6, <1>7 DEF LoopInv

\* Every step of the loop keeps the invariant.
LEMMA LoopStep == LoopInv /\ [Next]_vars => LoopInv'
PROOF
  BY LifeStep, BudgetStep, OverflowStep, ToolStep, ApprovalStep, HistoryStep,
      SteerStep, CountStep DEF LoopInv

\* The turn loop keeps its invariant: every part of it holds in every state of
\* drive(), whatever the provider answers, the user does and the store refuses.
THEOREM LoopIsSound == Spec => []LoopInv
PROOF
  BY LoopInit, LoopStep, PTL DEF Spec

\* What the invariant says of a turn
LEMMA LoopKeepsTurn == LoopInv => TurnInv
PROOF
<1> SUFFICES ASSUME LoopInv PROVE TurnInv
  OBVIOUS
<1>1. TypeOK
  BY DEF LoopInv, LifeInv, BudgetInv, OverflowInv, ToolInv, ApprovalInv, HistoryInv,
      SteerInv, CountInv, TypeOK
<1>2. LedgerIsDurable /\ NoOrphanedApproval
  BY DEF LoopInv, HistoryInv, ApprovalInv
<1>3. OverflowIsCompacted
  BY DEF LoopInv, OverflowInv, OverflowIsCompacted
<1>4. TurnIsBounded
  <2>1. auto \in Nat /\ AutoBudget \in Nat /\ auto <= AutoBudget /\ reqs \in Nat /\ budget \in Nat
    BY AutoAssumption DEF LoopInv, BudgetInv
  <2>2. Granted(auto) \in Nat /\ Granted(auto) <= Granted(AutoBudget)
    BY <2>1, GrantedGrows
  <2>3. reqs <= Granted(auto) + 1
    BY <2>1, <2>2 DEF LoopInv, BudgetInv
  <2>4. Granted(AutoBudget) \in Nat /\ reqs <= Granted(AutoBudget) + 1
    BY <2>1, <2>2, <2>3, GrantedGrows
  <2> QED  BY <2>4 DEF LoopInv, ToolInv, TurnIsBounded, Granted
<1> QED  BY <1>1, <1>2, <1>3, <1>4 DEF TurnInv

\* What a turn owes the store, the user and the provider, at every step: its
\* ledger is what a restart would load, its requests and its tools after a stop
\* are bounded, an overflow is compacted before it is tried again, and no
\* approval outlives its wait.
THEOREM TurnsKeepTheirPromises == Spec => []TurnInv
PROOF
  BY LoopIsSound, LoopKeepsTurn, PTL

\* What the invariant says of a request
LEMMA LoopPairsRequests == LoopInv => RequestIsPaired
PROOF
<1> SUFFICES ASSUME LoopInv, pc \in {"stream", "summary"}
             PROVE  WellFormed(Sanitized(ledger))
  BY DEF RequestIsPaired
<1>1. PICK ms : ms = ledger
  OBVIOUS
<1>2. ledger = Load
  BY DEF LoopInv, LifeInv, HistoryInv, LedgerIsDurable
<1>3. ms \in Seq(Message) /\ Orderly(ms) /\ ms # <<>> /\ Latest(ms).role = "user"
  BY <1>1, <1>2 DEF LoopInv, HistoryInv, Continuing
<1>4. WellFormed(Sanitized(ms))
  BY <1>3, SanitizedIsWellFormed
<1> QED  BY <1>1, <1>4

\* Whatever was cut short before, sanitize_tool_pairing makes of the ledger a
\* conversation the provider accepts: every tool use is answered in the message
\* right after it, and nothing else is answered.
THEOREM RequestsArePaired == Spec => []RequestIsPaired
PROOF
  BY LoopIsSound, LoopPairsRequests, PTL

\* What the user said and the ledger took is in the next request, in its own
\* words or through a summary made from them, across any number of turns,
\* crashes and compactions, until a compaction has to drop history to fit.
THEOREM WordsAreKept == Spec => []NothingSaidIsLost
PROOF
<1>1. LoopInv => NothingSaidIsLost
  BY DEF LoopInv, HistoryInv
<1> QED  BY LoopIsSound, <1>1, PTL

\* No race between a steer and the end of a turn loses the steer: it is in the
\* buffer or in the ledger until a crash or a failed write takes it.
THEOREM SteersAreKept == Spec => []SteerIsKept
PROOF
<1>1. LoopInv => SteerIsKept
  BY DEF LoopInv, SteerInv
<1> QED  BY LoopIsSound, <1>1, PTL

=============================================================================

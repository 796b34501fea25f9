---------------------------- MODULE EngineProofs ----------------------------
(* What works on documents, for every value of the constants: the          *)
(* assistant's transcripts and writes, what a recipe makes and the         *)
(* coverage it reports, the texts and links that a move takes along, what  *)
(* the source cache serves and a filter keeps, and the editor's drafts     *)
(* while a tab stays with its document.                                    *)
EXTENDS Assistant, SourceCache, Pipeline, Moves, Glob, Draft, SequenceTheorems,
        FiniteSetTheorems, WellFoundedInduction, TLAPS

(* ----------------------------------------------------- induction on numbers *)

\* A set of numbers that is not empty has a least.
LEMMA LeastNat ==
  ASSUME NEW T, T \subseteq Nat, T # {}
  PROVE  \E x \in T : \A y \in T : x <= y
<1> DEFINE R == {ss \in Nat \X Nat : ss[1] < ss[2]}
<1>1. IsWellFoundedOn(R, Nat)
  BY NatLessThanWellFounded DEF OpToRel
<1> HIDE DEF R
<1>2. PICK x \in T : \A y \in T : ~ (<<y, x>> \in R)
  BY <1>1, WFMin
<1>3. ASSUME NEW y \in T
      PROVE  x <= y
  <2>1. ~ (<<y, x>> \in R) /\ x \in Nat /\ y \in Nat
    BY <1>2
  <2> QED  BY <2>1 DEF R
<1> QED  BY <1>3

\* Induction, over a set of the numbers that have the property.
LEMMA UpFrom ==
  ASSUME NEW n \in Nat, NEW P, 0 \in P, \A t \in 0..(n - 1) : t \in P => t + 1 \in P
  PROVE  \A t \in 0..n : t \in P
<1> DEFINE T == {t \in 0..n : t \notin P}
<1> SUFFICES ASSUME T # {}
             PROVE  FALSE
  OBVIOUS
<1>1. T \subseteq Nat
  OBVIOUS
<1>2. PICK t \in T : \A u \in T : t <= u
  <2> HIDE DEF T
  <2> QED  BY <1>1, LeastNat
<1>3. t \in 0..n /\ t # 0 /\ t \notin P
  OBVIOUS
<1>4. t - 1 \in 0..(n - 1) /\ t - 1 \in 0..n /\ (t - 1) + 1 = t
  BY <1>3
<1>5. t - 1 \in P
  <2>1. ~(t <= t - 1)
    BY <1>3
  <2> QED  BY <1>2, <1>4, <2>1
<1> QED  BY <1>3, <1>4, <1>5

(* ----------------------------------------------------------- the assistant *)

Message == [role : {"assistant"}, calls : Nat] \cup [role : {"tool"}, call : Nat]
               \cup [role : {"user"}]

Writes == [path : PathOf \cup {Absent}, base : (SUBSET Nat) \cup {Absent},
           next : (SUBSET Nat) \cup {Absent}]

ChatState ==
    [pc : {"idle", "turn", "post", "calls", "save"}, writable : BOOLEAN,
     listed : SUBSET PathOf, conv : Seq(Message), sent : Nat, round : Nat,
     offer : {"all", "acting", "none"}, used : Nat, acts : Nat, calls : Nat, at : Nat,
     pending : Nat, tries : Nat, forced : BOOLEAN, write : Writes]

DraftState == [pc : {"idle", "read", "save"}, allowed : SUBSET Document, left : Nat,
               write : Writes]

\* The reply at i has all its answers in s, right after it.
AnsweredAt(s, i) ==
    LET n == s[i].calls IN
    /\ i + n <= Len(s)
    /\ \A j \in (i + 1)..(i + n) : s[j].role = "tool"
    /\ {s[j].call : j \in (i + 1)..(i + n)} = 1..n

Whole(s) == \A i \in 1..Len(s) : s[i].role = "assistant" => AnsweredAt(s, i)

\* The reply at b has got so many answers, in order, without that of call q if
\* it is to be asked of the user; those before it have theirs.
Unfinished(s, b, q, got) ==
    /\ b \in 1..Len(s) /\ got \in Nat /\ Len(s) = b + got
    /\ s[b].role = "assistant"
    /\ \A k \in 1..got : s[b + k] = Answers(IF q = 0 \/ k < q THEN k ELSE k + 1)
    /\ \A i \in 1..(b - 1) :
          s[i].role = "assistant" => AnsweredAt(s, i) /\ i + s[i].calls < b

Got(c) == IF c.pending = 0 THEN c.at - 1 ELSE c.at - 2
Asked(c) == Len(c.conv) - Got(c)

\* Where a conversation is: between two requests to the provider every call is
\* answered; in a batch, those up to the next, but for the question.
ConvOK(c) ==
    /\ c.pc \in {"turn", "post"} =>
          Whole(c.conv) /\ c.sent <= Len(c.conv) /\ c.pending = 0
    /\ c.pc \in {"calls", "save"} =>
          /\ c.at \in 1..(c.calls + 1) /\ c.pending \in 0..(c.at - 1)
          /\ Unfinished(c.conv, Asked(c), c.pending, Got(c))
          /\ c.conv[Asked(c)].calls = c.calls /\ c.sent < Asked(c)
    /\ c.pc = "save" => c.at <= c.calls /\ c.pending = 0

\* Turns that may only act are counted, and the others are few.
RoundsOK(c) ==
    /\ c.acts <= ActRounds /\ c.round <= ToolRounds + c.acts
    /\ c.pc \in {"post", "calls", "save"} /\ c.offer # "none" =>
          c.round < ToolRounds + c.acts
    /\ c.pc \in {"calls", "save"} => c.offer # "none"
    /\ c.tries < Attempts

\* What is to be written into a document is what was read, and more.
WriteOK(w) ==
    /\ w.path \in PathOf /\ w.next \in SUBSET (0..MaxSaves)
    /\ w.path \in Document => w.base = Absent \/ w.base \subseteq w.next

ChatOK(c) ==
    /\ c \in ChatState /\ ConvOK(c) /\ RoundsOK(c)
    /\ c.pc = "save" => WriteOK(c.write)

DraftOK(d) ==
    /\ d \in DraftState
    /\ d.pc # "idle" => d.left > 0
    /\ d.pc = "save" => WriteOK(d.write)

\* What the client holds lacks the one answer it will give.
ResumeOK(r) ==
    /\ r \in [msgs : Seq(Message), call : Nat]
    /\ r.call # 0 =>
          \E b \in 1..Len(r.msgs) :
             /\ r.msgs[b].role = "assistant" /\ r.call \in 1..r.msgs[b].calls
             /\ Unfinished(r.msgs, b, r.call, r.msgs[b].calls - 1)

FilesOK ==
    /\ worktree \in [PathOf -> (SUBSET (0..MaxSaves)) \cup {Absent}]
    /\ edited \in 0..MaxSaves

AssistantIInv == FilesOK /\ ChatOK(chat) /\ DraftOK(draft) /\ ResumeOK(resume)

(* Transcripts *)

\* The kinds of messages.
LEMMA MessageIs ==
  /\ \A n \in Nat : /\ Asks(n) \in Message /\ Answers(n) \in Message
                    /\ Asks(n).role = "assistant" /\ Asks(n).calls = n
                    /\ Answers(n).role = "tool" /\ Answers(n).call = n
  /\ Note \in Message /\ Note.role = "user"
  /\ \A m \in Message : m.role = "assistant" => m.calls \in Nat
  BY DEF Message, Asks, Answers, Note

\* What is answered stays so when messages follow.
LEMMA AnsweredStays ==
  ASSUME NEW s \in Seq(Message), NEW t \in Seq(Message), Len(s) <= Len(t),
         \A i \in 1..Len(s) : t[i] = s[i],
         NEW i \in 1..Len(s), s[i].role = "assistant", AnsweredAt(s, i)
  PROVE  AnsweredAt(t, i)
<1> DEFINE n == s[i].calls
<1>1. n \in Nat /\ i + n <= Len(s) /\ t[i] = s[i] /\ i \in Nat /\ Len(s) \in Nat /\ Len(t) \in Nat
  BY MessageIs DEF AnsweredAt
<1>2. \A j \in (i + 1)..(i + n) : t[j] = s[j]
  BY <1>1
<1>3. {t[j].call : j \in (i + 1)..(i + n)} = {s[j].call : j \in (i + 1)..(i + n)}
  BY <1>2
<1>4. i + n <= Len(t)
  BY <1>1
<1> QED  BY <1>1, <1>2, <1>3, <1>4 DEF AnsweredAt

\* A message that is no reply leaves a whole transcript whole.
LEMMA WholeAppend ==
  ASSUME NEW s \in Seq(Message), NEW m \in Message, m.role # "assistant", Whole(s)
  PROVE  Whole(Append(s, m))
<1> DEFINE t == Append(s, m)
<1>1. t \in Seq(Message) /\ Len(t) = Len(s) + 1 /\ (\A i \in 1..Len(s) : t[i] = s[i])
      /\ t[Len(s) + 1] = m /\ Len(s) \in Nat
  OBVIOUS
<1> HIDE DEF t
<1>2. ASSUME NEW i \in 1..Len(t), t[i].role = "assistant"
      PROVE  AnsweredAt(t, i)
  <2>1. i \in 1..Len(s) /\ t[i] = s[i]
    BY <1>1, <1>2
  <2>2. AnsweredAt(s, i)
    BY <1>2, <2>1 DEF Whole
  <2> QED  BY <1>1, <1>2, <2>1, <2>2, AnsweredStays
<1>3. Whole(t)
  BY <1>2 DEF Whole
<1> QED  BY <1>3 DEF t

\* A reply opens a batch.
LEMMA ReplyOpens ==
  ASSUME NEW s \in Seq(Message), NEW n \in Nat, Whole(s)
  PROVE  /\ Append(s, Asks(n)) \in Seq(Message)
         /\ Len(Append(s, Asks(n))) = Len(s) + 1
         /\ Append(s, Asks(n))[Len(s) + 1] = Asks(n)
         /\ Unfinished(Append(s, Asks(n)), Len(s) + 1, 0, 0)
<1> DEFINE t == Append(s, Asks(n))
<1>1. t \in Seq(Message) /\ Len(t) = Len(s) + 1 /\ (\A i \in 1..Len(s) : t[i] = s[i])
      /\ t[Len(s) + 1] = Asks(n) /\ Len(s) \in Nat
  BY MessageIs
<1> HIDE DEF t
<1>2. ASSUME NEW i \in 1..(Len(s) + 1 - 1), t[i].role = "assistant"
      PROVE  AnsweredAt(t, i) /\ i + t[i].calls < Len(s) + 1
  <2>1. i \in 1..Len(s) /\ t[i] = s[i]
    BY <1>1
  <2>2. AnsweredAt(s, i)
    BY <1>2, <2>1 DEF Whole
  <2>3. s[i].calls \in Nat /\ i + s[i].calls <= Len(s)
    BY <1>2, <2>1, <2>2, MessageIs DEF AnsweredAt
  <2>4. AnsweredAt(t, i)
    BY <1>1, <1>2, <2>1, <2>2, AnsweredStays
  <2> QED  BY <1>1, <2>1, <2>3, <2>4
<1>3. Unfinished(t, Len(s) + 1, 0, 0)
  BY <1>1, <1>2, MessageIs DEF Unfinished
<1> QED  BY <1>1, <1>3 DEF t

\* The next answer is another one of the batch.
LEMMA AnswerFollows ==
  ASSUME NEW s \in Seq(Message), NEW b, NEW q \in Nat, NEW got, Unfinished(s, b, q, got),
         NEW k \in Nat, k = IF q = 0 \/ got + 1 < q THEN got + 1 ELSE got + 2
  PROVE  /\ Append(s, Answers(k)) \in Seq(Message)
         /\ Len(Append(s, Answers(k))) = Len(s) + 1
         /\ Append(s, Answers(k))[b] = s[b]
         /\ Unfinished(Append(s, Answers(k)), b, q, got + 1)
<1> DEFINE t == Append(s, Answers(k))
<1>1. t \in Seq(Message) /\ Len(t) = Len(s) + 1 /\ (\A i \in 1..Len(s) : t[i] = s[i])
      /\ t[Len(s) + 1] = Answers(k) /\ Len(s) \in Nat
  BY MessageIs
<1> HIDE DEF t
<1>2. b \in 1..Len(s) /\ got \in Nat /\ Len(s) = b + got /\ s[b].role = "assistant"
  BY DEF Unfinished
<1>3. ASSUME NEW i \in 1..(b - 1), t[i].role = "assistant"
      PROVE  AnsweredAt(t, i) /\ i + t[i].calls < b
  <2>1. i \in 1..Len(s) /\ t[i] = s[i]
    BY <1>1, <1>2
  <2>2. AnsweredAt(s, i) /\ i + s[i].calls < b
    BY <1>3, <2>1 DEF Unfinished
  <2> QED  BY <1>1, <1>3, <2>1, <2>2, AnsweredStays
<1>4. ASSUME NEW l \in 1..(got + 1)
      PROVE  t[b + l] = Answers(IF q = 0 \/ l < q THEN l ELSE l + 1)
  <2>1. CASE l = got + 1
    BY <1>1, <1>2, <2>1
  <2>2. CASE l \in 1..got
    <3>1. s[b + l] = Answers(IF q = 0 \/ l < q THEN l ELSE l + 1)
      BY <2>2 DEF Unfinished
    <3>2. b + l \in 1..Len(s)
      BY <1>2, <2>2
    <3> QED  BY <1>1, <3>1, <3>2
  <2> QED  BY <1>2, <2>1, <2>2
<1>5. b \in 1..Len(t) /\ got + 1 \in Nat /\ Len(t) = b + (got + 1) /\ t[b] = s[b]
  BY <1>1, <1>2
<1>6. Unfinished(t, b, q, got + 1)
  BY <1>2, <1>3, <1>4, <1>5 DEF Unfinished
<1> QED  BY <1>1, <1>5, <1>6 DEF t

\* A batch whose calls all have an answer, in whatever order, is whole.
LEMMA AllAnswered ==
  ASSUME NEW t \in Seq(Message), NEW n \in Nat, NEW b \in 1..Len(t), Len(t) = b + n,
         t[b].role = "assistant", t[b].calls = n,
         NEW a \in [1..n -> 1..n], \A q \in 1..n : \E k \in 1..n : a[k] = q,
         \A k \in 1..n : t[b + k] = Answers(a[k]),
         \A i \in 1..(b - 1) : t[i].role = "assistant" => AnsweredAt(t, i)
  PROVE  Whole(t)
<1>1. \A j \in (b + 1)..(b + n) : j - b \in 1..n /\ t[j] = Answers(a[j - b])
  <2> SUFFICES ASSUME NEW j \in (b + 1)..(b + n)
               PROVE  j - b \in 1..n /\ t[j] = Answers(a[j - b])
    OBVIOUS
  <2>1. j - b \in 1..n /\ b + (j - b) = j
    OBVIOUS
  <2>2. t[b + (j - b)] = Answers(a[j - b])
    BY <2>1
  <2> QED  BY <2>1, <2>2
<1>2. \A j \in (b + 1)..(b + n) : t[j].role = "tool" /\ t[j].call = a[j - b] /\ a[j - b] \in 1..n
  <2> SUFFICES ASSUME NEW j \in (b + 1)..(b + n)
               PROVE  t[j].role = "tool" /\ t[j].call = a[j - b] /\ a[j - b] \in 1..n
    OBVIOUS
  <2> DEFINE k == j - b
  <2>1. k \in 1..n /\ t[j] = Answers(a[k])
    BY <1>1
  <2> DEFINE c == a[k]
  <2>2. c \in 1..n
    BY <2>1
  <2>3. c \in Nat /\ t[j] = Answers(c)
    BY <2>1, <2>2
  <2> HIDE DEF c
  <2>4. t[j].role = "tool" /\ t[j].call = c
    BY <2>3, MessageIs
  <2> QED  BY <2>2, <2>4 DEF c
<1>3. {t[j].call : j \in (b + 1)..(b + n)} = 1..n
  <2>1. ASSUME NEW q \in 1..n
        PROVE  \E j \in (b + 1)..(b + n) : t[j].call = q
    <3>1. PICK k \in 1..n : a[k] = q
      OBVIOUS
    <3>2. b + k \in (b + 1)..(b + n) /\ (b + k) - b = k
      OBVIOUS
    <3>3. t[b + k].call = q
      BY <1>2, <3>1, <3>2
    <3> QED  BY <3>2, <3>3
  <2>2. ASSUME NEW j \in (b + 1)..(b + n)
        PROVE  t[j].call \in 1..n
    BY <1>2
  <2> DEFINE J == (b + 1)..(b + n)
             K == 1..n
  <2>3. (\A j \in J : t[j].call \in K) /\ (\A q \in K : \E j \in J : t[j].call = q)
    BY <2>1, <2>2
  <2> HIDE DEF J, K
  <2>4. {t[j].call : j \in J} = K
    <3>1. ASSUME NEW x \in {t[j].call : j \in J}
          PROVE  x \in K
      <4>1. PICK j \in J : x = t[j].call
        OBVIOUS
      <4> QED  BY <2>3, <4>1
    <3>2. ASSUME NEW x \in K
          PROVE  x \in {t[j].call : j \in J}
      BY <2>3
    <3> QED  BY <3>1, <3>2
  <2> QED  BY <2>4 DEF J, K
<1>4. AnsweredAt(t, b)
  BY <1>2, <1>3 DEF AnsweredAt
<1>5. \A i \in 1..Len(t) : t[i].role = "assistant" => i \in 1..b
  <2> SUFFICES ASSUME NEW i \in 1..Len(t), ~(i \in 1..b)
               PROVE  t[i].role # "assistant"
    OBVIOUS
  <2>1. i \in (b + 1)..(b + n)
    OBVIOUS
  <2> QED  BY <1>2, <2>1
<1>6. \A i \in 1..b : i = b \/ i \in 1..(b - 1)
  OBVIOUS
<1> QED  BY <1>4, <1>5, <1>6 DEF Whole

\* A batch that came to its end is whole.
LEMMA BatchCloses ==
  ASSUME NEW s \in Seq(Message), NEW b, NEW got, Unfinished(s, b, 0, got), s[b].calls = got
  PROVE  Whole(s)
<1> DEFINE a == [k \in 1..got |-> k]
<1>1. b \in 1..Len(s) /\ got \in Nat /\ Len(s) = b + got /\ s[b].role = "assistant"
  BY DEF Unfinished
<1>2. a \in [1..got -> 1..got] /\ \A q \in 1..got : \E k \in 1..got : a[k] = q
  OBVIOUS
<1>3. \A k \in 1..got : s[b + k] = Answers(a[k])
  BY DEF Unfinished
<1>4. \A i \in 1..(b - 1) : s[i].role = "assistant" => AnsweredAt(s, i)
  BY DEF Unfinished
<1> HIDE DEF a
<1> QED  BY <1>1, <1>2, <1>3, <1>4, AllAnswered, ZenonT(30)

\* The user's answer completes the batch that its question interrupted.
LEMMA AnswerCloses ==
  ASSUME NEW s \in Seq(Message), NEW b, NEW q, NEW n \in Nat, q \in 1..n,
         Unfinished(s, b, q, n - 1), s[b].calls = n
  PROVE  Append(s, Answers(q)) \in Seq(Message) /\ Whole(Append(s, Answers(q)))
<1> DEFINE t == Append(s, Answers(q))
           a == [k \in 1..n |-> IF k = n THEN q ELSE IF k < q THEN k ELSE k + 1]
<1>1. /\ t \in Seq(Message) /\ Len(t) = Len(s) + 1 /\ (\A i \in 1..Len(s) : t[i] = s[i])
      /\ t[Len(s) + 1] = Answers(q) /\ Len(s) \in Nat
  BY MessageIs
<1> HIDE DEF t
<1>2. b \in 1..Len(s) /\ n - 1 \in Nat /\ Len(s) = b + (n - 1) /\ s[b].role = "assistant"
  BY DEF Unfinished
<1>3. a \in [1..n -> 1..n]
  BY <1>2
<1>4. ASSUME NEW m \in 1..n
      PROVE  \E k \in 1..n : a[k] = m
  <2>1. CASE m = q
    BY <2>1
  <2>2. CASE m < q
    <3>1. m \in 1..n /\ a[m] = m
      BY <2>2
    <3> QED  BY <3>1
  <2>3. CASE m > q
    <3>1. m - 1 \in 1..n /\ a[m - 1] = m
      BY <2>3
    <3> QED  BY <3>1
  <2> QED  BY <2>1, <2>2, <2>3
<1>5. ASSUME NEW k \in 1..n
      PROVE  t[b + k] = Answers(a[k])
  <2>1. CASE k = n
    BY <1>1, <1>2, <2>1, SMTT(30)
  <2>2. CASE k # n
    <3>1. k \in 1..(n - 1) /\ b + k \in 1..Len(s) /\ q # 0
      BY <1>2, <2>2
    <3>2. s[b + k] = Answers(IF q = 0 \/ k < q THEN k ELSE k + 1)
      BY <3>1 DEF Unfinished
    <3> QED  BY <1>1, <2>2, <3>1, <3>2
  <2> QED  BY <2>1, <2>2
<1>6. ASSUME NEW i \in 1..(b - 1), t[i].role = "assistant"
      PROVE  AnsweredAt(t, i)
  <2>1. i \in 1..Len(s) /\ t[i] = s[i]
    BY <1>1, <1>2
  <2>2. AnsweredAt(s, i)
    BY <1>6, <2>1 DEF Unfinished
  <2> QED  BY <1>1, <1>6, <2>1, <2>2, AnsweredStays
<1>7. b \in 1..Len(t) /\ Len(t) = b + n /\ t[b].role = "assistant" /\ t[b].calls = n
  BY <1>1, <1>2
<1> HIDE DEF a
<1>8. Whole(t)
  BY <1>1, <1>2, <1>3, <1>4, <1>5, <1>6, <1>7, AllAnswered
<1> QED  BY <1>1, <1>8 DEF t

\* What a request added to the conversation is open where that is.
LEMMA OpenSuffix ==
  ASSUME NEW s \in Seq(Message), NEW b, NEW q, NEW got, Unfinished(s, b, q, got),
         NEW sent \in Nat, sent < b
  PROVE  LET t == SubSeq(s, sent + 1, Len(s)) IN
         /\ t \in Seq(Message) /\ b - sent \in 1..Len(t) /\ t[b - sent] = s[b]
         /\ Unfinished(t, b - sent, q, got)
<1> DEFINE t == SubSeq(s, sent + 1, Len(s))
<1>1. b \in 1..Len(s) /\ got \in Nat /\ Len(s) = b + got /\ s[b].role = "assistant"
      /\ Len(s) \in Nat
  BY DEF Unfinished
<1>2. t \in Seq(Message) /\ Len(t) = Len(s) - sent /\ (\A i \in 1..Len(t) : t[i] = s[sent + i])
  BY <1>1, SubSeqProperties
<1> HIDE DEF t
<1>3. b - sent \in 1..Len(t) /\ t[b - sent] = s[b] /\ Len(t) = (b - sent) + got
  BY <1>1, <1>2
<1>4. ASSUME NEW k \in 1..got
      PROVE  t[(b - sent) + k] = Answers(IF q = 0 \/ k < q THEN k ELSE k + 1)
  <2>1. (b - sent) + k \in 1..Len(t) /\ sent + ((b - sent) + k) = b + k
    BY <1>1, <1>3, SMTT(20)
  <2>2. t[(b - sent) + k] = s[b + k]
    BY <1>2, <2>1
  <2> QED  BY <2>2 DEF Unfinished
<1>5. ASSUME NEW i \in 1..((b - sent) - 1), t[i].role = "assistant"
      PROVE  AnsweredAt(t, i) /\ i + t[i].calls < b - sent
  <2>1. i \in 1..Len(t) /\ t[i] = s[sent + i] /\ sent + i \in 1..(b - 1)
    BY <1>1, <1>2, <1>3, SMTT(30)
  <2> DEFINE n == t[i].calls
  <2>2. AnsweredAt(s, sent + i) /\ (sent + i) + n < b
    BY <1>5, <2>1 DEF Unfinished
  <2>3. n \in Nat
    BY <1>2, <1>5, <2>1, MessageIs
  <2>4. s[sent + i].calls = n
    BY <2>1
  <2>11. t[i].calls = n
    OBVIOUS
  <2> HIDE DEF n
  <2>5. /\ (sent + i) + n <= Len(s)
        /\ \A j \in (sent + i + 1)..(sent + i + n) : s[j].role = "tool"
        /\ {s[j].call : j \in (sent + i + 1)..(sent + i + n)} = 1..n
    BY <2>2, <2>4 DEF AnsweredAt
  <2>6. \A j \in (i + 1)..(i + n) :
           j \in 1..Len(t) /\ sent + j \in (sent + i + 1)..(sent + i + n) /\ t[j] = s[sent + j]
    BY <1>1, <1>2, <2>1, <2>2, <2>3
  <2>7. \A j \in (sent + i + 1)..(sent + i + n) :
           j - sent \in (i + 1)..(i + n) /\ t[j - sent] = s[j]
    <3> SUFFICES ASSUME NEW j \in (sent + i + 1)..(sent + i + n)
                 PROVE  j - sent \in (i + 1)..(i + n) /\ t[j - sent] = s[j]
      OBVIOUS
    <3>1. j - sent \in (i + 1)..(i + n) /\ sent + (j - sent) = j
      BY SMTT(30), <2>1, <2>3
    <3> QED  BY <2>6, <3>1
  <2>8. {t[j].call : j \in (i + 1)..(i + n)} = {s[j].call : j \in (sent + i + 1)..(sent + i + n)}
    BY <2>6, <2>7
  <2>9. i + n <= Len(t)
    BY <1>1, <1>2, <2>1, <2>3, <2>5
  <2>12. \A j \in (i + 1)..(i + n) : t[j].role = "tool"
    BY <2>5, <2>6
  <2>13. {t[j].call : j \in (i + 1)..(i + n)} = 1..n
    BY <2>5, <2>8
  <2>10. AnsweredAt(t, i)
    BY <2>9, <2>11, <2>12, <2>13 DEF AnsweredAt
  <2> QED  BY <1>1, <2>1, <2>2, <2>3, <2>10 DEF n
<1>6. Unfinished(t, b - sent, q, got)
  BY <1>1, <1>3, <1>4, <1>5 DEF Unfinished
<1> QED  BY <1>2, <1>3, <1>6 DEF t

\* A question is the one call of its batch without an answer.
LEMMA OpenAsks ==
  ASSUME NEW s \in Seq(Message), NEW b, NEW got, Unfinished(s, b, 0, got)
  PROVE  Unfinished(s, b, got + 1, got)
<1>1. got \in Nat /\ \A k \in 1..got : k < got + 1
  BY DEF Unfinished
<1> QED  BY <1>1 DEF Unfinished

(* The chat's steps *)

Bounds ==
    /\ ToolRounds \in Nat /\ ActRounds \in Nat /\ ToolBudget \in Nat
    /\ Attempts \in Nat /\ Attempts > 0 /\ MaxBatch \in Nat /\ MaxSaves \in Nat

\* The bounds are numbers, and something is attempted.
LEMMA BoundsAre == Bounds
  BY AssistantAssumption DEF AssistantAssumption, Bounds

\* No write is one of no file.
LEMMA NoWriteIs == NoWrite \in Writes
<1> DEFINE A == PathOf \cup {Absent}
           B == (SUBSET Nat) \cup {Absent}
<1>1. Absent \in A /\ Absent \in B
  OBVIOUS
<1> HIDE DEF A, B
<1>2. NoWrite \in [path : A, base : B, next : B]
  BY <1>1 DEF NoWrite
<1> QED  BY <1>2 DEF A, B, Writes

\* A chat that is over has its type.
LEMMA IdleIs ==
  /\ Idle \in ChatState /\ Idle.pc = "idle" /\ Idle.acts = 0 /\ Idle.round = 0
  /\ Idle.tries = 0 /\ Idle.pending = 0
  /\ ChatOK(Idle)
<1>1. NoWrite \in Writes
  BY NoWriteIs
<1> HIDE DEF NoWrite
<1>2. Idle \in ChatState
  BY <1>1 DEF Idle, ChatState
<1>3. /\ Idle.pc = "idle" /\ Idle.acts = 0 /\ Idle.round = 0 /\ Idle.tries = 0
      /\ Idle.pending = 0
  BY DEF Idle
<1> QED  BY <1>2, <1>3, BoundsAre DEF ChatOK, ConvOK, RoundsOK, Bounds

\* A conversation that begins.
LEMMA StartKeeps ==
  ASSUME ResumeOK(resume), NEW answers \in BOOLEAN, NEW writable \in BOOLEAN,
         StartChat(answers, writable)
  PROVE  ChatOK(chat') /\ ResumeOK(resume')
<1> DEFINE sent == IF answers THEN Append(resume.msgs, Answers(resume.call)) ELSE <<>>
           listed == {p \in PathOf : Present(p)}
           new == [Idle EXCEPT !.pc = "turn", !.writable = writable, !.conv = sent,
                               !.sent = Len(sent), !.listed = listed]
<1>1. chat' = new /\ resume' = IF answers THEN NoQuestion ELSE resume
  BY DEF StartChat
<1>2. sent \in Seq(Message) /\ Whole(sent)
  <2>1. CASE answers
    <3>1. resume.msgs \in Seq(Message) /\ resume.call \in Nat /\ resume.call # 0
      BY <2>1 DEF ResumeOK, StartChat
    <3>2. PICK b \in 1..Len(resume.msgs) :
             /\ resume.msgs[b].role = "assistant" /\ resume.call \in 1..resume.msgs[b].calls
             /\ Unfinished(resume.msgs, b, resume.call, resume.msgs[b].calls - 1)
      BY <3>1 DEF ResumeOK
    <3>3. resume.msgs[b].calls \in Nat
      BY <3>1, <3>2, MessageIs
    <3> QED  BY <2>1, <3>1, <3>2, <3>3, AnswerCloses
  <2>2. CASE ~answers
    <3>1. Len(<<>>) = 0
      OBVIOUS
    <3> QED  BY <2>2, <3>1 DEF Whole
  <2> QED  BY <2>1, <2>2
<1>3. listed \subseteq PathOf
  OBVIOUS
<1> HIDE DEF sent, listed
<1>9. Idle \in ChatState /\ sent \in Seq(Message) /\ Len(sent) \in Nat /\ listed \in SUBSET PathOf
  BY <1>2, <1>3, IdleIs
<1>4. new \in ChatState
  BY <1>9 DEF ChatState
<1>5. /\ new.pc = "turn" /\ new.conv = sent /\ new.sent = Len(sent)
      /\ new.acts = 0 /\ new.round = 0 /\ new.tries = 0 /\ new.pending = 0
  BY IdleIs DEF ChatState
<1> HIDE DEF new
<1>6. ConvOK(new)
  BY <1>2, <1>5 DEF ConvOK
<1>7. RoundsOK(new)
  BY <1>5, BoundsAre DEF RoundsOK, Bounds
<1>8. ResumeOK(resume')
  <2>1. ResumeOK(NoQuestion)
    BY DEF ResumeOK, NoQuestion
  <2> QED  BY <1>1, <2>1
<1> QED  BY <1>1, <1>4, <1>5, <1>6, <1>7, <1>8 DEF ChatOK

\* The next turn, with what it may do.
LEMMA TurnKeeps ==
  ASSUME ChatOK(chat), NextTurn
  PROVE  ChatOK(chat')
<1> DEFINE noted == IF Offer = "acting" /\ chat.acts = 0 THEN Append(chat.conv, Note)
                    ELSE chat.conv
           acts == IF Offer = "acting" THEN chat.acts + 1 ELSE chat.acts
           new == [chat EXCEPT !.pc = "post", !.offer = Offer, !.tries = 0, !.forced = FALSE,
                               !.acts = acts, !.conv = noted]
<1>1. chat' = new /\ chat.pc = "turn" /\ chat \in ChatState
  BY DEF NextTurn, ChatOK
<1>2. /\ chat.conv \in Seq(Message) /\ Whole(chat.conv) /\ chat.sent <= Len(chat.conv)
      /\ chat.acts \in Nat /\ chat.round \in Nat /\ chat.sent \in Nat /\ chat.pending = 0
  BY <1>1 DEF ChatOK, ConvOK, ChatState
<1>3. noted \in Seq(Message) /\ Whole(noted) /\ chat.sent <= Len(noted)
  <2>1. Append(chat.conv, Note) \in Seq(Message) /\ Len(Append(chat.conv, Note)) = Len(chat.conv) + 1
    BY <1>2, MessageIs
  <2>2. Whole(Append(chat.conv, Note))
    BY <1>2, MessageIs, WholeAppend
  <2> QED  BY <1>2, <2>1, <2>2
<1>4. /\ Offer \in {"all", "acting", "none"} /\ acts \in Nat /\ acts <= ActRounds
      /\ chat.round <= ToolRounds + acts
      /\ Offer # "none" => chat.round < ToolRounds + acts
  BY <1>2, BoundsAre DEF ChatOK, RoundsOK, Bounds, Offer
<1> HIDE DEF noted, acts
<1>5. new \in ChatState
  BY <1>1, <1>3, <1>4 DEF ChatState
<1>6. /\ new.pc = "post" /\ new.conv = noted /\ new.acts = acts /\ new.offer = Offer
      /\ new.tries = 0 /\ new.round = chat.round /\ new.sent = chat.sent
      /\ new.pending = chat.pending
  BY <1>1 DEF ChatState
<1> HIDE DEF new
<1>7. ConvOK(new)
  BY <1>2, <1>3, <1>6 DEF ConvOK
<1>8. RoundsOK(new)
  BY <1>4, <1>6, BoundsAre DEF RoundsOK, Bounds
<1> QED  BY <1>1, <1>5, <1>6, <1>7, <1>8 DEF ChatOK

\* A request that is posted again.
LEMMA PostKeeps ==
  ASSUME ChatOK(chat), PostAgain
  PROVE  ChatOK(chat')
<1>1. chat \in ChatState /\ chat.pc = "post" /\ chat.tries \in Nat
  BY DEF ChatOK, ChatState, PostAgain
<1>2. PICK forced \in BOOLEAN, tries \in Nat :
         tries < Attempts /\ chat' = [chat EXCEPT !.forced = forced, !.tries = tries]
  <2>1. CASE chat.tries + 1 < Attempts /\ chat' = [chat EXCEPT !.tries = @ + 1]
    <3>1. chat.forced \in BOOLEAN /\ chat.tries + 1 \in Nat
      BY <1>1 DEF ChatState
    <3>2. chat' = [chat EXCEPT !.forced = chat.forced, !.tries = chat.tries + 1]
      BY <1>1, <2>1 DEF ChatState
    <3> QED  BY <2>1, <3>1, <3>2
  <2>2. CASE chat' = [chat EXCEPT !.forced = TRUE, !.tries = 0]
    <3>1. 0 \in Nat /\ 0 < Attempts
      BY BoundsAre DEF Bounds
    <3> QED  BY <2>2, <3>1
  <2> QED  BY <2>1, <2>2 DEF PostAgain
<1> DEFINE new == [chat EXCEPT !.forced = forced, !.tries = tries]
<1>3. new \in ChatState
  BY <1>1 DEF ChatState
<1>8. tries \in Nat
  OBVIOUS
<1>4. /\ new.pc = "post" /\ new.conv = chat.conv /\ new.acts = chat.acts /\ new.offer = chat.offer
      /\ new.tries = tries /\ new.round = chat.round /\ new.sent = chat.sent
      /\ new.pending = chat.pending
  BY <1>1, <1>8 DEF ChatState
<1> HIDE DEF new
<1>5. ConvOK(new)
  BY <1>1, <1>4 DEF ConvOK, ChatOK
<1>6. RoundsOK(new)
  BY <1>1, <1>2, <1>4, BoundsAre DEF RoundsOK, Bounds, ChatOK
<1>7. chat' = new
  BY <1>2 DEF new
<1> QED  BY <1>3, <1>4, <1>5, <1>6, <1>7 DEF ChatOK

\* A reply that calls tools opens a batch.
LEMMA ReplyKeeps ==
  ASSUME ChatOK(chat), ReplyCalls
  PROVE  ChatOK(chat')
<1>1. chat \in ChatState /\ chat.pc = "post" /\ chat.offer # "none"
  BY DEF ChatOK, ReplyCalls
<1>2. PICK n \in 1..MaxBatch :
         chat' = [chat EXCEPT !.pc = "calls", !.calls = n, !.at = 1,
                              !.conv = Append(chat.conv, Asks(n))]
  BY <1>1 DEF ReplyCalls, ChatState
<1> DEFINE conv == Append(chat.conv, Asks(n))
           new == [chat EXCEPT !.pc = "calls", !.calls = n, !.at = 1, !.conv = conv]
<1>3. n \in Nat /\ n > 0
  BY BoundsAre DEF Bounds
<1>4. /\ chat.conv \in Seq(Message) /\ Whole(chat.conv) /\ chat.sent <= Len(chat.conv)
      /\ chat.sent \in Nat /\ chat.pending = 0 /\ Len(chat.conv) \in Nat
  BY <1>1 DEF ChatOK, ConvOK, ChatState
<1>5. /\ conv \in Seq(Message) /\ Len(conv) = Len(chat.conv) + 1
      /\ conv[Len(conv)] = Asks(n) /\ Unfinished(conv, Len(conv), 0, 0)
  BY <1>3, <1>4, ReplyOpens
<1> HIDE DEF conv
<1>6. new \in ChatState
  BY <1>1, <1>3, <1>5 DEF ChatState
<1>7. /\ new.pc = "calls" /\ new.conv = conv /\ new.acts = chat.acts /\ new.offer = chat.offer
      /\ new.tries = chat.tries /\ new.round = chat.round /\ new.sent = chat.sent
      /\ new.pending = 0 /\ new.calls = n /\ new.at = 1
  BY <1>1, <1>4 DEF ChatState
<1> HIDE DEF new
<1>8. Got(new) = 0 /\ Asked(new) = Len(conv)
  BY <1>4, <1>5, <1>7 DEF Got, Asked
<1>9. conv[Len(conv)].calls = n
  BY <1>3, <1>5, MessageIs
<1>10. ConvOK(new)
  BY <1>3, <1>4, <1>5, <1>7, <1>8, <1>9 DEF ConvOK
<1>11. RoundsOK(new)
  BY <1>1, <1>7 DEF RoundsOK, ChatOK
<1>12. chat' = new
  BY <1>2 DEF new, conv
<1> QED  BY <1>6, <1>7, <1>10, <1>11, <1>12 DEF ChatOK

\* Where a batch is, in numbers.
LEMMA BatchIs ==
  ASSUME NEW c, ChatOK(c), c.pc \in {"calls", "save"}
  PROVE  /\ c \in ChatState /\ c.conv \in Seq(Message) /\ Len(c.conv) \in Nat
         /\ c.at \in Nat /\ c.at > 0 /\ c.at <= c.calls + 1 /\ c.calls \in Nat
         /\ c.pending \in Nat /\ c.pending < c.at /\ c.sent \in Nat
         /\ c.used \in Nat /\ c.acts \in Nat /\ c.round \in Nat /\ c.tries \in Nat
         /\ Asked(c) \in 1..Len(c.conv) /\ Got(c) \in Nat /\ c.sent < Asked(c)
         /\ Unfinished(c.conv, Asked(c), c.pending, Got(c))
         /\ c.conv[Asked(c)].calls = c.calls
<1>1. /\ c \in ChatState /\ c.at \in 1..(c.calls + 1) /\ c.pending \in 0..(c.at - 1)
      /\ Unfinished(c.conv, Asked(c), c.pending, Got(c))
      /\ c.conv[Asked(c)].calls = c.calls /\ c.sent < Asked(c)
  BY DEF ChatOK, ConvOK
<1>2. /\ c.conv \in Seq(Message) /\ c.at \in Nat /\ c.calls \in Nat /\ c.pending \in Nat
      /\ c.sent \in Nat /\ c.used \in Nat /\ c.acts \in Nat /\ c.round \in Nat /\ c.tries \in Nat
  BY <1>1 DEF ChatState
<1>3. Len(c.conv) \in Nat
  BY <1>2
<1>4. Asked(c) \in 1..Len(c.conv) /\ Got(c) \in Nat
  BY <1>1 DEF Unfinished
<1> QED  BY <1>1, <1>2, <1>3, <1>4

\* A call is answered: the batch has one answer more.
LEMMA CallKeeps ==
  ASSUME NEW c, ChatOK(c), c.pc \in {"calls", "save"}, c.at <= c.calls,
         NEW d \in ChatState, d.pc = "calls", d.conv = Append(c.conv, Answers(c.at)),
         d.at = c.at + 1, d.calls = c.calls, d.pending = c.pending, d.sent = c.sent,
         d.round = c.round, d.acts = c.acts, d.offer = c.offer, d.tries = c.tries
  PROVE  ChatOK(d)
<1>0. /\ c.conv \in Seq(Message) /\ Len(c.conv) \in Nat
      /\ c.at \in Nat /\ c.calls \in Nat /\ c.at > 0
      /\ c.pending \in Nat /\ c.pending < c.at
      /\ Asked(c) \in 1..Len(c.conv) /\ Got(c) \in Nat /\ c.sent < Asked(c)
      /\ Unfinished(c.conv, Asked(c), c.pending, Got(c))
      /\ c.conv[Asked(c)].calls = c.calls
  BY BatchIs
<1>1. Got(d) = Got(c) + 1
  BY <1>0 DEF Got
<1>2. /\ d.conv \in Seq(Message) /\ Len(d.conv) = Len(c.conv) + 1
      /\ d.conv[Asked(c)] = c.conv[Asked(c)]
      /\ Unfinished(d.conv, Asked(c), c.pending, Got(c) + 1)
  <2>1. c.at = IF c.pending = 0 \/ Got(c) + 1 < c.pending THEN Got(c) + 1 ELSE Got(c) + 2
    BY <1>0 DEF Got
  <2> QED  BY <1>0, <2>1, AnswerFollows
<1>3. Asked(d) = Asked(c)
  BY <1>0, <1>1, <1>2 DEF Asked
<1>4. ConvOK(d)
  <2>1. d.at \in 1..(d.calls + 1) /\ d.pending \in 0..(d.at - 1)
    BY <1>0
  <2>2. /\ Unfinished(d.conv, Asked(d), d.pending, Got(d))
        /\ d.conv[Asked(d)].calls = d.calls /\ d.sent < Asked(d)
    BY <1>0, <1>1, <1>2, <1>3
  <2> QED  BY <2>1, <2>2 DEF ConvOK
<1>5. RoundsOK(d)
  BY DEF ChatOK, RoundsOK
<1> QED  BY <1>4, <1>5 DEF ChatOK

\* A tool's result goes back to the model.
LEMMA AnsweredKeeps ==
  ASSUME NEW c, ChatOK(c), c.pc \in {"calls", "save"}, c.at <= c.calls,
         NEW listed \in SUBSET PathOf
  PROVE  /\ Answered(c) \in ChatState /\ Answered(c).pc = "calls" /\ ChatOK(Answered(c))
         /\ Answered(c).listed = c.listed
         /\ ChatOK([Answered(c) EXCEPT !.listed = listed])
<1> DEFINE used == IF c.used < ToolBudget THEN c.used + 1 ELSE c.used
           conv == Append(c.conv, Answers(c.at))
           d == [c EXCEPT !.pc = "calls", !.conv = conv, !.at = c.at + 1, !.used = used,
                          !.write = NoWrite]
           e == [d EXCEPT !.listed = listed]
<1>1. c \in ChatState /\ NoWrite \in Writes /\ used \in Nat /\ c.at + 1 \in Nat
  BY BatchIs, NoWriteIs
<1>2. conv \in Seq(Message)
  BY BatchIs, MessageIs
<1>3. Answered(c) = d
  BY <1>1 DEF Answered, ChatState
<1> HIDE DEF used, conv
<1>4. d \in ChatState
  BY <1>1, <1>2 DEF ChatState
<1>5. /\ d.pc = "calls" /\ d.conv = conv /\ d.at = c.at + 1 /\ d.calls = c.calls
      /\ d.pending = c.pending /\ d.sent = c.sent /\ d.round = c.round /\ d.acts = c.acts
      /\ d.offer = c.offer /\ d.tries = c.tries /\ d.listed = c.listed
  BY <1>1 DEF ChatState
<1> HIDE DEF d
<1>6. e \in ChatState
  BY <1>4 DEF ChatState
<1>7. /\ e.pc = d.pc /\ e.conv = d.conv /\ e.at = d.at /\ e.calls = d.calls
      /\ e.pending = d.pending /\ e.sent = d.sent /\ e.round = d.round /\ e.acts = d.acts
      /\ e.offer = d.offer /\ e.tries = d.tries
  BY <1>4 DEF ChatState
<1> HIDE DEF e
<1>8. ChatOK(d)
  BY <1>4, <1>5, CallKeeps DEF conv
<1>9. ChatOK(e)
  BY <1>5, <1>6, <1>7, CallKeeps DEF conv
<1> QED  BY <1>3, <1>4, <1>5, <1>8, <1>9 DEF e

\* After a question, the calls that follow are answered as not executed.
LEMMA SkipKeeps ==
  ASSUME ChatOK(chat), SkipCall
  PROVE  ChatOK(chat')
<1> DEFINE conv == Append(chat.conv, Answers(chat.at))
           new == [chat EXCEPT !.conv = conv, !.at = chat.at + 1]
<1>1. chat \in ChatState /\ chat.pc = "calls" /\ chat.at <= chat.calls /\ chat' = new
  BY DEF SkipCall, Skip, ChatOK, ChatState
<1>2. conv \in Seq(Message) /\ chat.at + 1 \in Nat
  BY <1>1, BatchIs, MessageIs
<1> HIDE DEF conv
<1>3. new \in ChatState
  BY <1>1, <1>2 DEF ChatState
<1>4. /\ new.pc = "calls" /\ new.conv = conv /\ new.at = chat.at + 1 /\ new.calls = chat.calls
      /\ new.pending = chat.pending /\ new.sent = chat.sent /\ new.round = chat.round
      /\ new.acts = chat.acts /\ new.offer = chat.offer /\ new.tries = chat.tries
  BY <1>1 DEF ChatState
<1> HIDE DEF new
<1>5. ChatOK(new)
  BY <1>1, <1>3, <1>4, CallKeeps DEF conv
<1> QED  BY <1>1, <1>5

\* A question is left open.
LEMMA AskKeeps ==
  ASSUME ChatOK(chat), AskUser
  PROVE  ChatOK(chat')
<1> DEFINE new == [chat EXCEPT !.pending = chat.at, !.at = chat.at + 1]
<1>1. /\ chat \in ChatState /\ chat.pc = "calls" /\ chat.at <= chat.calls /\ chat.pending = 0
      /\ chat' = new
  BY DEF AskUser, Runs, ChatOK, ChatState
<1>2. /\ chat.conv \in Seq(Message) /\ Len(chat.conv) \in Nat /\ chat.sent < Asked(chat)
      /\ chat.at \in Nat /\ chat.at > 0 /\ chat.calls \in Nat
      /\ Asked(chat) \in 1..Len(chat.conv) /\ Got(chat) \in Nat
      /\ Unfinished(chat.conv, Asked(chat), 0, Got(chat))
      /\ chat.conv[Asked(chat)].calls = chat.calls
  BY <1>1, BatchIs
<1>3. new \in ChatState
  <2>1. chat.at \in Nat /\ chat.at + 1 \in Nat
    BY <1>2
  <2> QED  BY <1>1, <2>1 DEF ChatState
<1>4. /\ new.pc = "calls" /\ new.conv = chat.conv /\ new.at = chat.at + 1
      /\ new.calls = chat.calls /\ new.pending = chat.at /\ new.sent = chat.sent
      /\ new.round = chat.round /\ new.acts = chat.acts /\ new.offer = chat.offer
      /\ new.tries = chat.tries
  BY <1>1 DEF ChatState
<1> HIDE DEF new
<1>5. Got(new) = Got(chat) /\ Asked(new) = Asked(chat) /\ chat.at = Got(chat) + 1
  <2>1. chat.at \in Nat /\ chat.at > 0 /\ chat.pending = 0
    BY <1>1, <1>2
  <2>2. Got(new) = chat.at - 1 /\ Got(chat) = chat.at - 1
    BY <1>4, <2>1 DEF Got
  <2> QED  BY <1>4, <2>1, <2>2 DEF Asked
<1>6. Unfinished(chat.conv, Asked(chat), chat.at, Got(chat))
  BY <1>1, <1>2, <1>5, OpenAsks
<1>7. ConvOK(new)
  BY <1>1, <1>2, <1>4, <1>5, <1>6 DEF ConvOK
<1>8. RoundsOK(new)
  BY <1>1, <1>4 DEF ChatOK, RoundsOK
<1> QED  BY <1>1, <1>3, <1>4, <1>7, <1>8 DEF ChatOK

\* The batch is done.
LEMMA EndKeeps ==
  ASSUME ChatOK(chat), ResumeOK(resume), EndBatch
  PROVE  ChatOK(chat') /\ ResumeOK(resume')
<1>1. chat \in ChatState /\ chat.pc = "calls" /\ chat.at = chat.calls + 1
  BY BatchIs DEF EndBatch, ChatOK
<1>2. /\ chat.conv \in Seq(Message) /\ Len(chat.conv) \in Nat /\ chat.sent < Asked(chat)
      /\ chat.at \in Nat /\ chat.calls \in Nat /\ chat.sent \in Nat /\ chat.round \in Nat
      /\ chat.pending \in Nat /\ chat.pending < chat.at
      /\ Asked(chat) \in 1..Len(chat.conv) /\ Got(chat) \in Nat
      /\ Unfinished(chat.conv, Asked(chat), chat.pending, Got(chat))
      /\ chat.conv[Asked(chat)].calls = chat.calls
  BY <1>1, BatchIs
<1>3. CASE chat.pending = 0
  <2> DEFINE new == [chat EXCEPT !.pc = "turn", !.round = chat.round + 1, !.calls = 0, !.at = 0]
  <2>1. chat' = new /\ resume' = resume
    BY <1>1, <1>3 DEF EndBatch, ChatState
  <2>2. chat.round + 1 \in Nat
    BY <1>1, <1>2
  <2>3. new \in ChatState
    BY <1>1, <2>2 DEF ChatState
  <2>4. /\ new.pc = "turn" /\ new.conv = chat.conv /\ new.pending = 0 /\ new.sent = chat.sent
        /\ new.round = chat.round + 1 /\ new.acts = chat.acts /\ new.tries = chat.tries
    BY <1>1, <1>3 DEF ChatState
  <2> HIDE DEF new
  <2>5. Got(chat) = chat.calls
    BY <1>1, <1>3, <1>2 DEF Got
  <2>6. Unfinished(chat.conv, Asked(chat), 0, Got(chat)) /\ chat.conv[Asked(chat)].calls = Got(chat)
    BY <1>1, <1>3, <2>5, <1>2
  <2>7. Whole(chat.conv)
    BY <1>1, <2>6, <1>2, BatchCloses
  <2>8. ConvOK(new)
    BY <1>1, <2>4, <2>7, <1>2 DEF ConvOK
  <2>9. RoundsOK(new)
    <3>1. /\ chat.acts <= ActRounds /\ chat.tries < Attempts
          /\ chat.round < ToolRounds + chat.acts
      BY <1>1 DEF ChatOK, RoundsOK
    <3>2. chat.round \in Nat /\ chat.acts \in Nat /\ ToolRounds \in Nat
      BY <1>1, BoundsAre DEF ChatState, Bounds
    <3> QED  BY <2>4, <3>1, <3>2 DEF RoundsOK
  <2> QED  BY <2>1, <2>3, <2>4, <2>8, <2>9 DEF ChatOK
<1>4. CASE chat.pending # 0
  <2> DEFINE msgs == SubSeq(chat.conv, chat.sent + 1, Len(chat.conv))
             b == Asked(chat) - chat.sent
             r == [msgs |-> msgs, call |-> chat.pending]
  <2>1. chat' = Idle /\ resume' = r
    BY <1>4 DEF EndBatch
  <2>2. /\ msgs \in Seq(Message) /\ b \in 1..Len(msgs) /\ msgs[b] = chat.conv[Asked(chat)]
        /\ Unfinished(msgs, b, chat.pending, Got(chat))
    BY <1>1, <1>2, OpenSuffix
  <2> HIDE DEF msgs, b
  <2>3. msgs[b].calls = chat.calls /\ Got(chat) = msgs[b].calls - 1
    BY <1>1, <1>4, <2>2, <1>2 DEF Got
  <2>4. chat.pending \in 1..msgs[b].calls /\ chat.pending \in Nat
    BY <1>1, <1>4, <2>3, <1>2
  <2>5. msgs[b].role = "assistant"
    BY <2>2 DEF Unfinished
  <2>6. r \in [msgs : Seq(Message), call : Nat] /\ r.msgs = msgs /\ r.call = chat.pending
    BY <2>2, <2>4
  <2> HIDE DEF r
  <2>7. ResumeOK(r)
    BY <2>2, <2>3, <2>4, <2>5, <2>6 DEF ResumeOK
  <2> QED  BY <2>1, <2>7, IdleIs
<1> QED  BY <1>3, <1>4

(* What is written *)

\* What there is of a file is people's edits and the model's.
LEMMA FileIs ==
  ASSUME FilesOK, NEW p \in PathOf
  PROVE  /\ worktree[p] \in (SUBSET (0..MaxSaves)) \cup {Absent}
         /\ worktree[p] \in (SUBSET Nat) \cup {Absent}
         /\ Present(p) => /\ worktree[p] \in SUBSET (0..MaxSaves)
                          /\ worktree[p] \cup {Model} \in SUBSET (0..MaxSaves)
         /\ {Model} \in SUBSET (0..MaxSaves)
  BY BoundsAre DEF FilesOK, Present, Model, Bounds

\* A write that was computed from the file.
LEMMA WriteIs ==
  ASSUME FilesOK, NEW p \in PathOf, NEW next \in SUBSET (0..MaxSaves),
         p \in Document /\ Present(p) => worktree[p] \subseteq next
  PROVE  Write(p, next) \in Writes /\ WriteOK(Write(p, next))
<1> DEFINE B == (SUBSET Nat) \cup {Absent}
           P == PathOf \cup {Absent}
           w == Write(p, next)
<1>1. p \in P /\ worktree[p] \in B /\ next \in B
  BY FileIs, BoundsAre DEF Bounds
<1>2. w.path = p /\ w.base = worktree[p] /\ w.next = next
  BY DEF Write
<1> HIDE DEF B, P
<1>3. w \in [path : P, base : B, next : B]
  BY <1>1 DEF Write
<1>4. w \in Writes
  BY <1>3 DEF Writes, P, B
<1> HIDE DEF w
<1>5. WriteOK(w)
  BY <1>2 DEF WriteOK, Present
<1> QED  BY <1>4, <1>5 DEF w

\* Documents and sketches are different files.
LEMMA DocsAre == Document \subseteq PathOf /\ Sketch \subseteq PathOf /\ Document \cap Sketch = {}
  BY AssistantAssumption DEF AssistantAssumption, PathOf

\* A tool read before it writes.
LEMMA ReadKeeps ==
  ASSUME FilesOK, ChatOK(chat), EditFile \/ CreateFile \/ DrawSketch
  PROVE  ChatOK(chat') /\ UNCHANGED <<worktree, draft, resume, edited, chats>>
<1>1. PICK p \in PathOf, next \in SUBSET (0..MaxSaves) :
         /\ ReadFirst(Write(p, next))
         /\ p \in Document /\ Present(p) => worktree[p] \subseteq next
  <2>1. CASE EditFile
    BY <2>1, FileIs, DocsAre DEF EditFile
  <2>2. CASE CreateFile
    BY <2>2, FileIs, DocsAre DEF CreateFile
  <2>3. CASE DrawSketch
    BY <2>3, FileIs, DocsAre DEF DrawSketch
  <2> QED  BY <2>1, <2>2, <2>3
<1> DEFINE w == Write(p, next)
           new == [chat EXCEPT !.pc = "save", !.write = w]
<1>2. w \in Writes /\ WriteOK(w)
  BY <1>1, WriteIs
<1> HIDE DEF w
<1>3. /\ chat \in ChatState /\ chat.pc = "calls" /\ chat.at <= chat.calls /\ chat.pending = 0
      /\ chat' = new /\ UNCHANGED <<worktree, draft, resume, edited, chats>>
  BY <1>1 DEF ReadFirst, Runs, ChatOK, w
<1>4. new \in ChatState
  BY <1>2, <1>3 DEF ChatState
<1>5. /\ new.pc = "save" /\ new.conv = chat.conv /\ new.at = chat.at /\ new.calls = chat.calls
      /\ new.pending = chat.pending /\ new.sent = chat.sent /\ new.round = chat.round
      /\ new.acts = chat.acts /\ new.offer = chat.offer /\ new.tries = chat.tries
      /\ new.write = w
  BY <1>3 DEF ChatState
<1> HIDE DEF new
<1>6. Got(new) = Got(chat) /\ Asked(new) = Asked(chat)
  BY <1>5 DEF Got, Asked
<1>7. ConvOK(new)
  BY <1>3, <1>5, <1>6 DEF ChatOK, ConvOK
<1>8. RoundsOK(new)
  BY <1>3, <1>5 DEF ChatOK, RoundsOK
<1> QED  BY <1>2, <1>3, <1>4, <1>5, <1>7, <1>8 DEF ChatOK

\* Answers without a write, and other ends.
LEMMA ResultKeeps ==
  ASSUME ChatOK(chat), ReadOrRefuse \/ EndChat
  PROVE  ChatOK(chat') /\ UNCHANGED <<worktree, draft, resume, edited, chats>>
<1>1. CASE ReadOrRefuse
  <2>1. chat.pc \in {"calls", "save"} /\ chat.at <= chat.calls /\ chat' = Answered(chat)
    BY <1>1 DEF ReadOrRefuse, Runs
  <2>2. {} \in SUBSET PathOf
    OBVIOUS
  <2> QED  BY <1>1, <2>1, <2>2, AnsweredKeeps DEF ReadOrRefuse
<1>2. CASE EndChat
  BY <1>2, IdleIs DEF EndChat
<1> QED  BY <1>1, <1>2

\* A file that is written holds edits.
LEMMA FileWritten ==
  ASSUME FilesOK, NEW w, WriteOK(w), WriteFile(w), edited' = edited
  PROVE  FilesOK'
  BY DEF FilesOK, WriteOK, WriteFile

\* What was read is saved, or refused.
LEMMA SaveKeeps ==
  ASSUME FilesOK, ChatOK(chat), SaveWrite
  PROVE  FilesOK' /\ ChatOK(chat') /\ UNCHANGED <<draft, resume>>
<1>1. /\ chat \in ChatState /\ chat.pc \in {"calls", "save"} /\ chat.at <= chat.calls
      /\ WriteOK(chat.write) /\ UNCHANGED <<draft, resume, edited>>
  BY DEF SaveWrite, ChatOK, ConvOK
<1> DEFINE w == chat.write
           listed == IF w.path \in Sketch THEN chat.listed \cup {w.path} ELSE chat.listed
<1>2. listed \in SUBSET PathOf
  BY <1>1, DocsAre DEF ChatState, WriteOK
<1>3. Answered(chat).listed = chat.listed /\ Answered(chat) \in ChatState
  BY <1>1, <1>2, AnsweredKeeps
<1>4. CASE StillCurrent(w)
  <2>1. WriteFile(w) /\ chat' = [Answered(chat) EXCEPT !.listed = listed]
    BY <1>3, <1>4 DEF SaveWrite, ChatState
  <2> HIDE DEF listed
  <2>2. ChatOK(chat')
    BY <1>1, <1>2, <2>1, AnsweredKeeps
  <2>3. FilesOK'
    BY <1>1, <2>1, FileWritten
  <2> QED  BY <1>1, <2>2, <2>3
<1>5. CASE ~StillCurrent(w)
  <2>1. worktree' = worktree /\ chat' = Answered(chat)
    BY <1>5 DEF SaveWrite
  <2> QED  BY <1>1, <1>2, <2>1, AnsweredKeeps DEF FilesOK
<1> QED  BY <1>4, <1>5

\* A file is moved to where none is, or deleted.
LEMMA FilesKeep ==
  ASSUME FilesOK, ChatOK(chat), MoveFile \/ DeleteFile
  PROVE  FilesOK' /\ ChatOK(chat') /\ UNCHANGED <<draft, resume>>
<1>1. /\ chat \in ChatState /\ chat.pc \in {"calls", "save"} /\ chat.at <= chat.calls
      /\ UNCHANGED <<draft, resume, edited>>
  BY DEF MoveFile, DeleteFile, Runs, ChatOK
<1>2. /\ Answered(chat).listed = chat.listed /\ Answered(chat) \in ChatState
      /\ chat.listed \in SUBSET PathOf
  <2>1. chat.listed \in SUBSET PathOf
    BY <1>1 DEF ChatState
  <2> QED  BY <1>1, <2>1, AnsweredKeeps
<1>3. CASE MoveFile
  <2>1. PICK from \in PathOf, to \in PathOf, rewrote \in BOOLEAN :
           /\ worktree' = [worktree EXCEPT ![to] = worktree[from], ![from] = Absent]
           /\ chat' = [Answered(chat) EXCEPT
                !.listed = IF rewrote /\ from \in @ THEN (@ \ {from}) \cup {to} ELSE @]
    BY <1>3 DEF MoveFile
  <2> DEFINE listed == IF rewrote /\ from \in chat.listed
                       THEN (chat.listed \ {from}) \cup {to} ELSE chat.listed
  <2>2. listed \in SUBSET PathOf /\ chat' = [Answered(chat) EXCEPT !.listed = listed]
    BY <1>2, <2>1 DEF ChatState
  <2> HIDE DEF listed
  <2>3. ChatOK(chat')
    BY <1>1, <2>2, AnsweredKeeps
  <2>4. FilesOK'
    BY <1>1, <2>1 DEF FilesOK
  <2> QED  BY <1>1, <2>3, <2>4
<1>4. CASE DeleteFile
  <2>1. PICK p \in PathOf :
           /\ worktree' = [worktree EXCEPT ![p] = Absent]
           /\ chat' = [Answered(chat) EXCEPT !.listed = @ \ {p}]
    BY <1>4 DEF DeleteFile
  <2> DEFINE listed == chat.listed \ {p}
  <2>2. listed \in SUBSET PathOf /\ chat' = [Answered(chat) EXCEPT !.listed = listed]
    BY <1>2, <2>1 DEF ChatState
  <2> HIDE DEF listed
  <2>3. ChatOK(chat')
    BY <1>1, <2>2, AnsweredKeeps
  <2>4. FilesOK'
    BY <1>1, <2>1 DEF FilesOK
  <2> QED  BY <1>1, <2>3, <2>4
<1> QED  BY <1>3, <1>4

(* The drafting request *)

\* A drafting request that is over has its type.
LEMMA NoDraftIs == NoDraft \in DraftState /\ NoDraft.pc = "idle" /\ DraftOK(NoDraft)
<1>1. {} \in SUBSET Document
  OBVIOUS
<1>2. NoDraft \in DraftState /\ NoDraft.pc = "idle"
  BY <1>1, NoWriteIs DEF NoDraft, DraftState
<1> QED  BY <1>2 DEF DraftOK

\* A drafting request begins with documents that are there.
LEMMA StartDraftKeeps ==
  ASSUME StartDraft
  PROVE  DraftOK(draft') /\ UNCHANGED <<worktree, chat, resume, edited>>
<1>1. PICK wanted \in SUBSET Document, n \in 1..MaxBatch :
         draft' = [NoDraft EXCEPT !.pc = "read", !.left = n,
                                  !.allowed = {d \in wanted : Present(d)}]
  BY DEF StartDraft
<1> DEFINE allowed == {d \in wanted : Present(d)}
           new == [NoDraft EXCEPT !.pc = "read", !.left = n, !.allowed = allowed]
<1>2. allowed \in SUBSET Document /\ n \in Nat /\ n > 0
  BY BoundsAre DEF Bounds
<1> HIDE DEF allowed
<1>3. new \in DraftState /\ new.pc = "read" /\ new.left = n
  BY <1>2, NoDraftIs DEF DraftState
<1> HIDE DEF new
<1>4. DraftOK(new)
  BY <1>2, <1>3 DEF DraftOK
<1>5. draft' = new
  BY <1>1 DEF new, allowed
<1> QED  BY <1>4, <1>5 DEF StartDraft

\* The next edit, or none.
LEMMA NextKeeps ==
  ASSUME DraftOK(draft), draft.pc # "idle"
  PROVE  DraftOK(NextEdit(draft))
<1> DEFINE new == [draft EXCEPT !.pc = "read", !.left = draft.left - 1, !.write = NoWrite]
<1>1. draft \in DraftState /\ draft.left \in Nat /\ draft.left > 0
  BY DEF DraftOK, DraftState
<1>2. NextEdit(draft) = IF draft.left = 1 THEN NoDraft ELSE new
  BY <1>1 DEF NextEdit, DraftState
<1>3. CASE draft.left # 1
  <2>1. draft.left - 1 \in Nat /\ draft.left - 1 > 0
    BY <1>1, <1>3
  <2>2. new \in DraftState /\ new.pc = "read" /\ new.left > 0
    BY <1>1, <2>1, NoWriteIs DEF DraftState
  <2> HIDE DEF new
  <2>3. DraftOK(new)
    BY <2>2 DEF DraftOK
  <2> QED  BY <1>2, <1>3, <2>3
<1> QED  BY <1>2, <1>3, NoDraftIs

\* An edit is applied to the file as it is now.
LEMMA ApplyKeeps ==
  ASSUME FilesOK, DraftOK(draft), ApplyEdit
  PROVE  DraftOK(draft') /\ UNCHANGED <<worktree, chat, resume, edited>>
<1>1. draft \in DraftState /\ draft.pc = "read" /\ draft.left > 0
      /\ UNCHANGED <<worktree, chat, resume, edited>>
  BY DEF ApplyEdit, DraftOK
<1>2. PICK d \in draft.allowed :
         IF Present(d) /\ Model \notin worktree[d]
         THEN draft' = [draft EXCEPT !.pc = "save", !.write = Write(d, worktree[d] \cup {Model})]
         ELSE draft' = NextEdit(draft)
  BY DEF ApplyEdit
<1>3. CASE Present(d) /\ Model \notin worktree[d]
  <2> DEFINE next == worktree[d] \cup {Model}
             w == Write(d, next)
             new == [draft EXCEPT !.pc = "save", !.write = w]
  <2>1. d \in PathOf
    BY <1>1, DocsAre DEF DraftState
  <2>2. next \in SUBSET (0..MaxSaves) /\ worktree[d] \subseteq next
    BY <1>3, <2>1, FileIs
  <2>3. draft' = new
    BY <1>2, <1>3
  <2> HIDE DEF next
  <2>4. w \in Writes /\ WriteOK(w)
    BY <2>1, <2>2, WriteIs
  <2> HIDE DEF w
  <2>5. new \in DraftState /\ new.pc = "save" /\ new.left = draft.left /\ new.write = w
    BY <1>1, <2>4 DEF DraftState
  <2> HIDE DEF new
  <2> QED  BY <1>1, <2>3, <2>4, <2>5 DEF DraftOK
<1>4. CASE ~(Present(d) /\ Model \notin worktree[d])
  BY <1>1, <1>2, <1>4, NextKeeps
<1> QED  BY <1>1, <1>3, <1>4

\* An edit is saved, or refused.
LEMMA SaveEditKeeps ==
  ASSUME FilesOK, DraftOK(draft), SaveEdit
  PROVE  FilesOK' /\ DraftOK(draft') /\ UNCHANGED <<chat, resume>>
<1>1. draft.pc # "idle" /\ WriteOK(draft.write) /\ draft' = NextEdit(draft)
      /\ UNCHANGED <<chat, resume, edited>>
  BY DEF SaveEdit, DraftOK
<1>2. CASE WriteFile(draft.write)
  BY <1>1, <1>2, NextKeeps, FileWritten
<1>3. CASE worktree' = worktree
  BY <1>1, <1>3, NextKeeps DEF FilesOK
<1> QED  BY <1>2, <1>3 DEF SaveEdit

\* Somebody's edit.
LEMMA PersonKeeps ==
  ASSUME FilesOK, PersonEdits
  PROVE  FilesOK' /\ UNCHANGED <<chat, draft, resume>>
<1>1. PICK p \in PathOf :
         worktree' = [worktree EXCEPT ![p] =
                        (IF worktree[p] = Absent THEN {} ELSE worktree[p]) \cup {edited + 1}]
  BY DEF PersonEdits, FilesOK
<1>2. edited + 1 \in 0..MaxSaves /\ edited' = edited + 1
  BY BoundsAre DEF PersonEdits, FilesOK, Bounds
<1> DEFINE text == (IF worktree[p] = Absent THEN {} ELSE worktree[p]) \cup {edited + 1}
<1>3. text \in SUBSET (0..MaxSaves)
  BY <1>2, FileIs DEF Present
<1> HIDE DEF text
<1>4. worktree' = [worktree EXCEPT ![p] = text]
  BY <1>1 DEF text
<1>5. worktree' \in [PathOf -> (SUBSET (0..MaxSaves)) \cup {Absent}]
  BY <1>3, <1>4 DEF FilesOK
<1> QED  BY <1>2, <1>5 DEF FilesOK, PersonEdits

(* The assistant's theorems *)

\* A deployment begins with no conversation.
LEMMA InitAssistant == AssistantInit => AssistantIInv
<1> SUFFICES ASSUME AssistantInit
             PROVE  AssistantIInv
  OBVIOUS
<1>1. FilesOK
  <2>1. {} \in (SUBSET (0..MaxSaves)) \cup {Absent}
    OBVIOUS
  <2>2. worktree \in [PathOf -> (SUBSET (0..MaxSaves)) \cup {Absent}]
    BY <2>1 DEF AssistantInit
  <2> QED  BY <2>2, BoundsAre DEF AssistantInit, FilesOK, Bounds
<1>2. ResumeOK(resume)
  BY DEF AssistantInit, ResumeOK, NoQuestion
<1> QED  BY <1>1, <1>2, IdleIs, NoDraftIs DEF AssistantInit, AssistantIInv

\* Every step keeps the transcripts in order and what is to be written current
\* or refused.
LEMMA StepAssistant == AssistantIInv /\ [AssistantNext]_assistant => AssistantIInv'
<1> SUFFICES ASSUME AssistantIInv, [AssistantNext]_assistant
             PROVE  AssistantIInv'
  OBVIOUS
<1> USE DEF AssistantIInv
<1>1. CASE UNCHANGED assistant
  BY <1>1 DEF assistant, FilesOK
<1>2. ASSUME NEW answers \in BOOLEAN, NEW writable \in BOOLEAN, StartChat(answers, writable)
      PROVE  AssistantIInv'
  <2>1. ChatOK(chat') /\ ResumeOK(resume')
    BY <1>2, StartKeeps
  <2> QED  BY <1>2, <2>1 DEF StartChat, FilesOK
<1>3. CASE NextTurn
  BY <1>3, TurnKeeps DEF NextTurn, FilesOK
<1>4. CASE PostAgain
  BY <1>4, PostKeeps DEF PostAgain, FilesOK
<1>5. CASE ReplyCalls
  BY <1>5, ReplyKeeps DEF ReplyCalls, FilesOK
<1>6. CASE EndBatch
  BY <1>6, EndKeeps DEF EndBatch, FilesOK
<1>7. CASE SkipCall
  BY <1>7, SkipKeeps DEF SkipCall, FilesOK
<1>8. CASE AskUser
  BY <1>8, AskKeeps DEF AskUser, FilesOK
<1>9. CASE ReadOrRefuse \/ EndChat
  BY <1>9, ResultKeeps DEF FilesOK
<1>10. CASE EditFile \/ CreateFile \/ DrawSketch
  BY <1>10, ReadKeeps DEF FilesOK
<1>11. CASE SaveWrite
  BY <1>11, SaveKeeps
<1>12. CASE MoveFile \/ DeleteFile
  BY <1>12, FilesKeep
<1>13. CASE StartDraft
  BY <1>13, StartDraftKeeps DEF FilesOK
<1>14. CASE ApplyEdit
  BY <1>14, ApplyKeeps DEF FilesOK
<1>15. CASE SaveEdit
  BY <1>15, SaveEditKeeps
<1>16. CASE PersonEdits
  BY <1>16, PersonKeeps
<1> QED
  BY <1>1, <1>2, <1>3, <1>4, <1>5, <1>6, <1>7, <1>8, <1>9, <1>10, <1>11, <1>12, <1>13,
     <1>14, <1>15, <1>16 DEF AssistantNext

\* Conversations, drafting requests and people's edits, however they
\* interleave, keep the inductive invariant.
THEOREM AssistantInvariance == AssistantSpec => []AssistantIInv
  BY InitAssistant, StepAssistant, PTL DEF AssistantSpec

\* The rounds of a request are bounded, and no request goes to the provider with a
\* tool call that has no answer, also in a transcript that a question
\* interrupted and the user's answer resumed.
THEOREM AssistantKept == AssistantSpec => []AssistantInv
<1>1. AssistantIInv => AssistantInv
  <2> SUFFICES ASSUME AssistantIInv
               PROVE  AssistantInv
    OBVIOUS
  <2>1. FilesOK /\ ChatOK(chat) /\ chat \in ChatState /\ draft \in DraftState
    BY DEF AssistantIInv, ChatOK, DraftOK
  <2>2. \A p \in PathOf : Present(p) => worktree[p] \subseteq 0..MaxSaves
    BY <2>1, FileIs
  <2>3. chat.round \in 0..(ToolRounds + ActRounds) /\ chat.acts \in 0..ActRounds
        /\ chat.tries \in 0..(Attempts - 1)
    <3>1. chat.round \in Nat /\ chat.acts \in Nat /\ chat.tries \in Nat
      BY <2>1 DEF ChatState
    <3> QED  BY <2>1, <3>1, BoundsAre DEF ChatOK, RoundsOK, Bounds
  <2>4. chat.listed \subseteq PathOf /\ draft.allowed \subseteq Document
    BY <2>1 DEF ChatState, DraftState
  <2>5. TranscriptAnswered
    <3>1. chat.conv \in Seq(Message) /\ (chat.pc = "post" => Whole(chat.conv))
      BY <2>1 DEF ChatOK, ConvOK, ChatState
    <3>2. DOMAIN chat.conv = 1..Len(chat.conv)
      BY <3>1
    <3> QED  BY <3>1, <3>2 DEF TranscriptAnswered, Whole, AnsweredAt
  <2> QED  BY <2>2, <2>3, <2>4, <2>5 DEF AssistantInv, AssistantTypeOK
<1> QED  BY <1>1, AssistantInvariance, PTL

\* What is written over a document keeps every edit that is in it by then.
LEMMA WriteAdds ==
  ASSUME FilesOK, NEW w, WriteOK(w), StillCurrent(w), WriteFile(w),
         NEW d \in Document, Present(d)
  PROVE  worktree[d] \subseteq worktree'[d]
<1>1. d \in PathOf
  BY DocsAre
<1>2. CASE d = w.path
  BY <1>1, <1>2 DEF WriteOK, StillCurrent, WriteFile, FilesOK, Present
<1>3. CASE d # w.path
  BY <1>1, <1>3 DEF WriteFile, FilesOK
<1> QED  BY <1>2, <1>3

\* The action property, for one step.
KeepsEdits ==
    \A d \in Document : Present(d) /\ worktree'[d] # Absent /\ worktree[d] # worktree'[d]
        => worktree[d] \subseteq worktree'[d]

\* A tool or the drafting request drops nobody's edit from a document it
\* writes, though it read the document before somebody saved it.
THEOREM KeepsEveryEdit == AssistantSpec => EditsKept
<1>1. AssistantIInv /\ [AssistantNext]_assistant => [KeepsEdits]_assistant
  <2> SUFFICES ASSUME AssistantIInv, AssistantNext,
                      NEW d \in Document, Present(d), worktree'[d] # Absent,
                      worktree[d] # worktree'[d]
               PROVE  worktree[d] \subseteq worktree'[d]
    BY DEF KeepsEdits
  <2>1. FilesOK /\ ChatOK(chat) /\ DraftOK(draft) /\ d \in PathOf
    BY DocsAre DEF AssistantIInv
  <2>2. CASE SaveWrite
    <3>1. WriteOK(chat.write) /\ StillCurrent(chat.write) /\ WriteFile(chat.write)
      BY <2>1, <2>2 DEF SaveWrite, ChatOK
    <3> QED  BY <2>1, <3>1, WriteAdds
  <2>3. CASE SaveEdit
    <3>1. WriteOK(draft.write) /\ StillCurrent(draft.write) /\ WriteFile(draft.write)
      BY <2>1, <2>3 DEF SaveEdit, DraftOK
    <3> QED  BY <2>1, <3>1, WriteAdds
  <2>4. CASE MoveFile
    <3>1. PICK from \in PathOf, to \in PathOf :
             /\ ~Present(to)
             /\ worktree' = [worktree EXCEPT ![to] = worktree[from], ![from] = Absent]
      BY <2>4 DEF MoveFile
    <3> QED  BY <2>1, <3>1 DEF FilesOK, Present
  <2>5. CASE DeleteFile
    <3>1. PICK p \in PathOf : worktree' = [worktree EXCEPT ![p] = Absent]
      BY <2>5 DEF DeleteFile
    <3> QED  BY <2>1, <3>1 DEF FilesOK
  <2>6. CASE PersonEdits
    <3>1. PICK p \in PathOf :
             worktree' = [worktree EXCEPT ![p] =
                            (IF worktree[p] = Absent THEN {} ELSE worktree[p]) \cup {edited + 1}]
      BY <2>1, <2>6 DEF PersonEdits, FilesOK
    <3> QED  BY <2>1, <3>1 DEF FilesOK, Present
  <2>7. worktree' = worktree \/ SaveWrite \/ SaveEdit \/ MoveFile \/ DeleteFile \/ PersonEdits
    BY DEF AssistantNext, StartChat, NextTurn, PostAgain, EndChat, ReplyCalls, EndBatch,
           SkipCall, ReadOrRefuse, AskUser, EditFile, CreateFile, DrawSketch, ReadFirst,
           StartDraft, ApplyEdit
  <2> QED  BY <2>2, <2>3, <2>4, <2>5, <2>6, <2>7
<1> QED  BY <1>1, AssistantInvariance, PTL DEF AssistantSpec, EditsKept, KeepsEdits

(* ------------------------------------------------ the coverage of a recipe *)

\* Until the unit is done there is no result, and what a result is covered by is
\* a document of the snapshot that the run took.
IsCursor(c) == c = [pc |-> c.pc, at |-> c.at, part |-> c.part]

ResultOK ==
    /\ IsCursor(cursor)
    /\ cursor.pc # "done" => result = << >>
    /\ CoverageIsReal

\* What becomes of a requirement or a finding is a row, with a document of the
\* snapshot or none.
LEMMA RowsAre ==
  /\ \A i \in DOMAIN Requirements : Requirements[i].doc \in docs \cup {Nothing}
  /\ \A i \in DOMAIN Findings : Findings[i].doc = Nothing
<1>1. \A it : Covered(it) \in docs \cup {Nothing}
  BY DEF Covered
<1>2. \A i \in DOMAIN Requirements : Requirements[i].doc \in docs \cup {Nothing}
  <2> DEFINE n == LastOf(rec, "items")
             items == IF n = 0 THEN << >> ELSE Stated(live[n])
  <2>1. Requirements = [i \in DOMAIN items |->
           [item |-> items[i], heading |-> Heading(rec.stages[n], items[i]),
            doc |-> Covered(items[i])]]
    BY DEF Requirements
  <2> HIDE DEF n, items
  <2> QED  BY <1>1, <2>1
<1>3. \A i \in DOMAIN Findings : Findings[i].doc = Nothing
  <2> DEFINE items == Anchored(live[LastOf(rec, "findings")])
  <2>1. Findings = [i \in DOMAIN items |-> [item |-> items[i], heading |-> "", doc |-> Nothing]]
    BY DEF Findings
  <2> HIDE DEF items
  <2> QED  BY <2>1
<1> QED  BY <1>2, <1>3

\* A step of a stage leaves the result alone, and does not end the unit.
LEMMA GoesOn ==
  ASSUME ResultOK, cursor.pc # "done",
         IsCursor(cursor'), cursor'.pc # "done", result' = result
  PROVE  ResultOK'
<1>1. result' = << >>
  BY DEF ResultOK
<1> QED  BY <1>1 DEF ResultOK, CoverageIsReal

\* Where a stage goes from an item, or ends.
LEMMA OnwardIs ==
  /\ \A part : IsCursor(Onward(part)) /\ Onward(part).pc \in {"ask", "end"}
  /\ \A p : IsCursor(Ended(p)) /\ Ended(p).pc = p
  /\ IsCursor(AtStage) /\ AtStage.pc = "stage"
  BY DEF IsCursor, Onward, Ended, AtStage

\* Where it goes from a call that failed, or was refused.
LEMMA TroubleIs ==
  ASSUME NEW how \in {"capped", "failed"}, Trouble(how)
  PROVE  IsCursor(cursor') /\ cursor'.pc # "done" /\ result' = result
<1>1. cursor' = Onward(cursor.part) \/ cursor' = Ended(how)
  BY DEF Trouble
<1> QED  BY <1>1, OnwardIs DEF Trouble

\* Every step of a unit keeps it.
LEMMA StepPipeline == ResultOK /\ [PipelineNext]_pipeline => ResultOK'
<1> SUFFICES ASSUME ResultOK, [PipelineNext]_pipeline
             PROVE  ResultOK'
  OBVIOUS
<1>1. CASE UNCHANGED pipeline
  BY <1>1 DEF pipeline, ResultOK, CoverageIsReal
<1>2. CASE Rehydrate \/ StartStage \/ EndStage \/ Stop
  <2>1. /\ cursor.pc # "done" /\ result' = result
        /\ \/ cursor' = cursor
           \/ cursor' = AtStage
           \/ \E p \in {"end", "stopped"} : cursor' = Ended(p)
           \/ cursor' = [pc |-> "ask", at |-> 1, part |-> << >>]
    BY <1>2 DEF Rehydrate, StartStage, EndStage, Stop
  <2>2. IsCursor(cursor') /\ cursor'.pc # "done"
    BY <2>1, OnwardIs DEF ResultOK, IsCursor
  <2> QED  BY <2>1, <2>2, GoesOn
<1>3. CASE Charge
  <2>1. CASE cursor' = [cursor EXCEPT !.pc = "tools"]
    <3>1. cursor' = [pc |-> "tools", at |-> cursor.at, part |-> cursor.part]
      BY <2>1 DEF ResultOK, IsCursor
    <3>2. cursor.pc # "done" /\ result' = result
      BY <1>3, TroubleIs DEF Charge
    <3> QED  BY <3>1, <3>2, GoesOn DEF IsCursor
  <2>2. CASE Trouble("capped")
    BY <1>3, <2>2, GoesOn, TroubleIs DEF Charge
  <2> QED  BY <1>3, <2>1, <2>2 DEF Charge
<1>4. CASE SelectFiles
  <2>1. cursor.pc # "done" /\ cursor.pc = "tools"
    BY <1>4 DEF SelectFiles
  <2>2. CASE cursor' = cursor /\ result' = result
    BY <2>1, <2>2, GoesOn DEF ResultOK
  <2> QED  BY <1>4, <2>1, <2>2, GoesOn, TroubleIs DEF SelectFiles
<1>5. CASE CallFails
  BY <1>5, GoesOn, TroubleIs DEF CallFails
<1>6. ASSUME NEW reply \in Reply, Answer(reply)
      PROVE  ResultOK'
  <2>1. cursor.pc # "done" /\ (\E part : cursor' = Onward(part)) /\ result' = result
    BY <1>6 DEF Answer
  <2> QED  BY <2>1, GoesOn, OnwardIs
<1>7. ASSUME NEW reply \in Remarks, Remark(reply)
      PROVE  ResultOK'
  <2>1. cursor.pc # "done" /\ cursor' = Onward(cursor.part) /\ result' = result
    BY <1>7 DEF Remark
  <2> QED  BY <2>1, GoesOn, OnwardIs
<1>8. CASE Finish
  <2>1. (result' = Requirements \/ result' = Findings) /\ docs' = docs /\ cursor'.pc = "done"
    BY <1>8, OnwardIs DEF Finish
  <2>2. IsCursor(cursor')
    BY <1>8, OnwardIs DEF Finish
  <2> QED  BY <2>1, <2>2, RowsAre DEF ResultOK, CoverageIsReal
<1>9. CASE Resume
  <2>1. cursor.pc # "done" /\ IsCursor(cursor') /\ cursor'.pc # "done" /\ result' = result
    BY <1>9, OnwardIs DEF Resume
  <2> QED  BY <2>1, GoesOn
<1>10. CASE Rerun
  BY <1>10, OnwardIs DEF Rerun, Fresh, ResultOK, CoverageIsReal
<1> QED
  BY <1>1, <1>2, <1>3, <1>4, <1>5, <1>6, <1>7, <1>8, <1>9, <1>10 DEF PipelineNext

\* A requirement reported as covered names a document of the project as the run
\* that reports it found it, whatever runs the unit's stages came from.
THEOREM Coverage == PipelineSpec => []CoverageIsReal
<1>1. PipelineInit => ResultOK
  BY OnwardIs DEF PipelineInit, ResultOK, CoverageIsReal
<1>2. ResultOK => CoverageIsReal
  BY DEF ResultOK
<1> QED  BY <1>1, <1>2, StepPipeline, PTL DEF PipelineSpec

(* --------------------------------------- what a recipe makes, unit by unit *)

\* What is picked from a sequence is the elements at the positions picked.
LEMMA PickedIs ==
  ASSUME NEW n \in Nat, NEW S, \A i \in S : i \in 1..n, NEW s
  PROVE  Picked(s, S) \in Seq({s[i] : i \in S})
<1> DEFINE upTo(m) == {j \in S : j <= m}
<1>1. IsFiniteSet(S) /\ Cardinality(S) \in Nat
      /\ \A m \in Nat : IsFiniteSet(upTo(m)) /\ Cardinality(upTo(m)) \in Nat
  <2>1. IsFiniteSet(1..n)
    BY FS_Interval
  <2>2. IsFiniteSet(S) /\ \A m \in Nat : IsFiniteSet(upTo(m))
    BY <2>1, FS_Subset
  <2> QED  BY <2>2, FS_CardinalityType
<1>2. ASSUME NEW k \in 1..Cardinality(S)
      PROVE  \E i \in S : Cardinality(upTo(i)) = k
  <2> DEFINE T == {m \in Nat : k <= Cardinality(upTo(m))}
  <2>1. n \in T
    <3>1. upTo(n) = S
      OBVIOUS
    <3> QED  BY <1>1, <3>1
  <2>2. PICK m \in T : \A y \in T : m <= y
    <3>1. T \subseteq Nat /\ T # {}
      BY <2>1
    <3> HIDE DEF T
    <3> QED  BY <3>1, LeastNat
  <2>3. m \in Nat /\ k <= Cardinality(upTo(m)) /\ k \in Nat /\ k > 0
    BY <1>1
  <2>4. m # 0
    <3>1. upTo(0) = {}
      OBVIOUS
    <3> QED  BY <2>3, <3>1, FS_EmptySet
  <2>5. m - 1 \in Nat /\ Cardinality(upTo(m - 1)) < k
    <3>1. m - 1 \in Nat /\ m - 1 \notin T
      BY <2>2, <2>3, <2>4
    <3>2. ~(k <= Cardinality(upTo(m - 1)))
      BY <3>1
    <3>3. Cardinality(upTo(m - 1)) \in Nat
      BY <1>1, <3>1
    <3> HIDE DEF upTo, T
    <3> QED  BY <2>3, <3>1, <3>2, <3>3
  <2>6. m \in S
    <3>1. CASE m \notin S
      <4>1. upTo(m) = upTo(m - 1)
        BY <2>3, <3>1
      <4> QED  BY <1>1, <2>3, <2>5, <4>1
    <3> QED  BY <3>1
  <2>7. Cardinality(upTo(m)) = Cardinality(upTo(m - 1)) + 1
    <3>1. \A j \in S : j <= m <=> j <= m - 1 \/ j = m
      BY <2>3
    <3>2. upTo(m) = upTo(m - 1) \cup {m}
      BY <2>6, <3>1
    <3>3. m \notin upTo(m - 1)
      BY <2>3
    <3> HIDE DEF upTo
    <3> QED  BY <1>1, <2>5, <3>2, <3>3, FS_AddElement
  <2> HIDE DEF upTo, T
  <2>8. Cardinality(upTo(m - 1)) \in Nat
    BY <1>1, <2>5
  <2> QED  BY <2>3, <2>5, <2>6, <2>7, <2>8
<1>3. \A k \in 1..Cardinality(S) : Picked(s, S)[k] \in {s[i] : i \in S}
  BY <1>2 DEF Picked
<1>4. Picked(s, S) = [k \in 1..Cardinality(S) |-> Picked(s, S)[k]]
  BY DEF Picked
<1> QED  BY <1>1, <1>3, <1>4

\* Of the numbers up to n, a set that is not empty has a greatest.
LEMMA GreatestNat ==
  ASSUME NEW n \in Nat, NEW S, \A i \in S : i \in 1..n, S # {}
  PROVE  \E i \in S : \A j \in S : j <= i
<1> DEFINE T == {n - i : i \in S}
<1>1. PICK x \in T : \A y \in T : x <= y
  <2>1. T \subseteq Nat
    OBVIOUS
  <2>2. T # {}
    OBVIOUS
  <2> HIDE DEF T
  <2> QED  BY <2>1, <2>2, LeastNat
<1>2. PICK i \in S : x = n - i
  OBVIOUS
<1>3. \A j \in S : x <= n - j
  BY <1>1
<1> QED  BY <1>2, <1>3

\* A sequence, of whatever is in it.
IsSeq(s) == s \in Seq(ToSet(s))

IsItem(it) ==
    it = [name |-> it.name, quote |-> it.quote, doc |-> it.doc, cover |-> it.cover,
          said |-> it.said, parent |-> it.parent, area |-> it.area, proved |-> it.proved,
          requoted |-> it.requoted]

\* An item of a stage that asks for evidence came with some, and quotes it
\* unless it was annotated with another quote.
Evidenced(it) == Proved(it) /\ (it.quote = it.proved \/ it.requoted)

\* An item of stage st, where s are the items of the stages before it.
ItemOK(s, st, it) ==
    /\ IsItem(it) /\ it.parent \in Nat
    /\ st.verify => Evidenced(it)
    /\ IF st.over = 0 THEN it.area = ""
       ELSE it.parent \in 1..Len(s[st.over]) /\ it.area = s[st.over][it.parent].name

ItemsOK(s, st, items) == IsSeq(items) /\ \A k \in 1..Len(items) : ItemOK(s, st, items[k])

StagesOK(s) ==
    /\ IsSeq(s) /\ Len(s) <= Len(rec.stages)
    /\ \A i \in 1..Len(s) : ItemsOK(s, rec.stages[i], s[i])

SameQuote(it, was) == it.quote = was.quote /\ (it.requoted <=> was.requoted)

\* Items a are items b, but for what comments may change.
SameItems(a, b) ==
    /\ IsSeq(a) /\ Len(a) = Len(b)
    /\ \A k \in 1..Len(a) :
          /\ IsItem(a[k]) /\ a[k].name = b[k].name /\ a[k].parent = b[k].parent
          /\ a[k].area = b[k].area /\ a[k].proved = b[k].proved
          /\ a[k].requoted \/ SameQuote(a[k], b[k])

\* Items that name the same, where only that matters to those made from them.
SameNames(a, b) == Len(a) = Len(b) /\ \A k \in 1..Len(a) : a[k].name = b[k].name

\* What is live is what the checkpoint in memory holds, as far as it is read.
CheckpointOK ==
    /\ state = [stages |-> state.stages, files |-> state.files] /\ StagesOK(state.stages)
    /\ saved = [stages |-> saved.stages, files |-> saved.files] /\ StagesOK(saved.stages)
    /\ IsSeq(live) /\ shared \in 0..Len(live) /\ Len(live) <= Len(state.stages)
    /\ \A i \in 1..Len(live) : SameItems(live[i], state.stages[i])

\* The stage that runs is the one after those live, and so are its items.
CursorOK(c) ==
    /\ IsCursor(c)
    /\ c.pc \in {"ask", "tools", "end"} =>
           Len(live) = Len(state.stages) /\ More /\ ItemsOK(live, Stage, c.part)
    /\ c.pc \in {"ask", "tools"} =>
           /\ c.at \in Nat \ {0}
           /\ ~Comments /\ Stage.over # 0 => c.at <= Len(Upstream)

ProductOK ==
    /\ cursor.pc # "done" => result = << >>
    /\ AskedIsChecked /\ GroupsAgree

PipelineIInv == PipelineTypeOK /\ CheckpointOK /\ CursorOK(cursor) /\ ProductOK

LEMMA SeqIs ==
  /\ \A X : \A s \in Seq(X) : IsSeq(s) /\ \A k \in 1..Len(s) : s[k] \in X
  /\ \A s : IsSeq(s) => /\ Len(s) \in Nat /\ DOMAIN s = 1..Len(s)
                        /\ s = [k \in 1..Len(s) |-> s[k]]
<1>1. ASSUME NEW X, NEW s \in Seq(X)
      PROVE  IsSeq(s) /\ \A k \in 1..Len(s) : s[k] \in X
  <2>1. Len(s) \in Nat /\ DOMAIN s = 1..Len(s) /\ s = [k \in 1..Len(s) |-> s[k]]
    OBVIOUS
  <2>2. \A k \in 1..Len(s) : s[k] \in ToSet(s)
    BY <2>1 DEF ToSet
  <2>3. s \in Seq(ToSet(s))
    BY <2>1, <2>2
  <2> QED  BY <2>1, <2>3 DEF IsSeq
<1>2. ASSUME NEW s, IsSeq(s)
      PROVE  Len(s) \in Nat /\ DOMAIN s = 1..Len(s) /\ s = [k \in 1..Len(s) |-> s[k]]
  BY <1>2 DEF IsSeq
<1> QED  BY <1>1, <1>2

LEMMA MappedIsSeq ==
  ASSUME NEW n \in Nat, NEW s, DOMAIN s = 1..n, s = [k \in 1..n |-> s[k]]
  PROVE  IsSeq(s) /\ Len(s) = n
<1>1. s \in Seq({s[k] : k \in 1..n})
  OBVIOUS
<1> QED  BY <1>1, SeqIs

LEMMA AppendedIsSeq ==
  ASSUME NEW s, IsSeq(s), NEW x
  PROVE  /\ IsSeq(Append(s, x)) /\ Len(Append(s, x)) = Len(s) + 1
         /\ Append(s, x)[Len(s) + 1] = x
         /\ \A k \in 1..Len(s) : Append(s, x)[k] = s[k]
<1>1. s \in Seq(ToSet(s) \cup {x})
  BY SeqIs DEF ToSet
<1>2. Append(s, x) \in Seq(ToSet(s) \cup {x})
  BY <1>1
<1>3. IsSeq(Append(s, x))
  BY <1>2, SeqIs
<1>4. Len(Append(s, x)) = Len(s) + 1 /\ Append(s, x)[Len(s) + 1] = x
      /\ \A k \in 1..Len(s) : Append(s, x)[k] = s[k]
  BY <1>1
<1> QED  BY <1>3, <1>4

LEMMA SameItemsIs ==
  /\ \A a, b, c : SameItems(a, b) /\ SameItems(b, c) => SameItems(a, c)
  /\ \A a, b : SameItems(a, b) =>
         SameItems(a, a) /\ SameNames(a, b) /\ SameNames(b, a)
  /\ \A s, st, items : ItemsOK(s, st, items) => SameItems(items, items)
  /\ \A s : StagesOK(s) => \A i \in 1..Len(s) : SameItems(s[i], s[i])
<1>1. ASSUME NEW a, NEW b, NEW c, SameItems(a, b), SameItems(b, c)
      PROVE  SameItems(a, c)
  BY <1>1 DEF SameItems, SameQuote
<1>2. ASSUME NEW a, NEW b, SameItems(a, b)
      PROVE  SameItems(a, a) /\ SameNames(a, b) /\ SameNames(b, a)
  <2>1. SameItems(a, a)
    BY <1>2 DEF SameItems, SameQuote
  <2>2. SameNames(a, b) /\ SameNames(b, a)
    BY <1>2 DEF SameItems, SameNames
  <2> QED  BY <2>1, <2>2
<1>3. ASSUME NEW s, NEW st, NEW items, ItemsOK(s, st, items)
      PROVE  SameItems(items, items)
  BY <1>3 DEF ItemsOK, ItemOK, SameItems, SameQuote
<1>4. ASSUME NEW s, StagesOK(s), NEW i \in 1..Len(s)
      PROVE  SameItems(s[i], s[i])
  BY <1>3, <1>4 DEF StagesOK
<1> QED  BY <1>1, <1>2, <1>3, <1>4

\* Items stay what they are when comments change those they came from.
LEMMA ItemsStay ==
  ASSUME NEW s, NEW t, NEW st, NEW items, NEW now,
         st.over # 0 => SameNames(t[st.over], s[st.over]),
         ItemsOK(s, st, items), SameItems(now, items)
  PROVE  ItemsOK(t, st, now)
<1>1. ASSUME NEW k \in 1..Len(now)
      PROVE  ItemOK(t, st, now[k])
  <2>1. /\ ItemOK(s, st, items[k]) /\ IsItem(now[k]) /\ now[k].name = items[k].name
        /\ now[k].parent = items[k].parent
        /\ now[k].area = items[k].area /\ now[k].proved = items[k].proved
        /\ now[k].requoted \/ SameQuote(now[k], items[k])
    BY DEF SameItems, ItemsOK
  <2>2. st.over # 0 => /\ Len(t[st.over]) = Len(s[st.over])
                       /\ \A i \in 1..Len(s[st.over]) : t[st.over][i].name = s[st.over][i].name
    BY DEF SameNames
  <2>3. Evidenced(items[k]) => Evidenced(now[k])
    BY <2>1 DEF Evidenced, Proved, SameQuote
  <2> QED  BY <2>1, <2>2, <2>3 DEF ItemOK
<1> QED  BY <1>1 DEF ItemsOK, SameItems

\* Each stage of a recipe runs over an earlier one.
LEMMA StageIs ==
  ASSUME PipelineTypeOK
  PROVE  /\ IsSeq(rec.stages)
         /\ \A i \in 1..Len(rec.stages) :
               /\ rec.stages[i].over \in 0..(i - 1) /\ rec.stages[i].max \in Int
               /\ rec.stages[i].batch \in Nat
<1>1. rec \in Recipes /\ Valid(rec)
  BY DEF PipelineTypeOK
<1>2. IsSeq(rec.stages)
  BY <1>1, PipelineAssumption DEF IsSeq
<1>3. ASSUME NEW i \in 1..Len(rec.stages)
      PROVE  /\ rec.stages[i].over \in 0..(i - 1) /\ rec.stages[i].max \in Int
             /\ rec.stages[i].batch \in Nat
  <2>1. i \in DOMAIN rec.stages /\ i \in Nat
    BY <1>2, SeqIs
  <2>2. rec.stages[i] \in ToSet(rec.stages)
    BY <2>1 DEF ToSet
  <2>3. rec.stages[i].over \in Nat /\ rec.stages[i].batch \in Nat /\ rec.stages[i].max \in Int
    BY <1>1, <2>2, PipelineAssumption
  <2>4. rec.stages[i].over < i
    BY <1>1, <2>1 DEF Valid
  <2> QED  BY <2>1, <2>3, <2>4
<1> QED  BY <1>2, <1>3

LEMMA StagesStay ==
  ASSUME PipelineTypeOK, NEW s, NEW t, StagesOK(s), IsSeq(t), Len(t) <= Len(s),
         \A i \in 1..Len(t) : SameItems(t[i], s[i])
  PROVE  StagesOK(t)
<1>1. Len(t) \in Nat /\ Len(s) \in Nat /\ Len(rec.stages) \in Nat
      /\ Len(s) <= Len(rec.stages)
  BY SeqIs, StageIs DEF StagesOK
<1>2. ASSUME NEW i \in 1..Len(t)
      PROVE  ItemsOK(t, rec.stages[i], t[i])
  <2>1. i \in 1..Len(s) /\ i \in 1..Len(rec.stages)
    BY <1>1
  <2>2. ItemsOK(s, rec.stages[i], s[i])
    BY <2>1 DEF StagesOK
  <2>3. rec.stages[i].over # 0 => rec.stages[i].over \in 1..Len(t)
    BY <1>1, <2>1, StageIs
  <2> QED  BY <2>2, <2>3, ItemsStay, SameItemsIs
<1> QED  BY <1>1, <1>2 DEF StagesOK

(* what the stages' operators return *)

LEMMA UpToIs ==
  ASSUME NEW st, st.max \in Int, NEW X, NEW s \in Seq(X)
  PROVE  UpTo(st, s) \in Seq(X)
<1>1. CASE st.max > 0 /\ Len(s) > st.max
  <2>1. SubSeq(s, 1, st.max) \in Seq(X)
    BY <1>1
  <2> QED  BY <1>1, <2>1 DEF UpTo
<1>2. CASE ~(st.max > 0 /\ Len(s) > st.max)
  BY <1>2 DEF UpTo
<1> QED  BY <1>1, <1>2

\* A stage that asks for evidence keeps only what has it.
LEMMA KeptIs ==
  ASSUME NEW st, st.max \in Int, NEW items, IsSeq(items)
  PROVE  Kept(st, items) \in Seq({it \in ToSet(items) : st.verify => Proved(it)})
<1> DEFINE S == {i \in DOMAIN items : /\ st.verify => Proved(items[i])
                                      /\ st.require => items[i].name # ""}
           X == {it \in ToSet(items) : st.verify => Proved(it)}
<1>1. Len(items) \in Nat /\ \A i \in S : i \in 1..Len(items)
  BY SeqIs
<1>2. Picked(items, S) \in Seq({items[i] : i \in S})
  <2> HIDE DEF S
  <2> QED  BY <1>1, PickedIs
<1>3. {items[i] : i \in S} \subseteq X
  BY DEF ToSet
<1>4. Picked(items, S) \in Seq(X)
  <2> HIDE DEF S, X
  <2> QED  BY <1>2, <1>3
<1>5. UpTo(st, Picked(items, S)) \in Seq(X)
  <2> HIDE DEF S, X
  <2> QED  BY <1>4, UpToIs
<1> QED  BY <1>5 DEF Kept

\* Comments are about quotes and documents only.
LEMMA AnnotatedIs ==
  ASSUME NEW items, SameItems(items, items), NEW start, NEW end, NEW reply
  PROVE  SameItems(Annotated(items, start, end, reply), items)
<1> DEFINE of(i) == Picked(reply, {k \in DOMAIN reply : reply[k].index = i - start + 1})
           now == Annotated(items, start, end, reply)
<1>1. now = [i \in DOMAIN items |->
                IF i \in start..end THEN WithComments(items[i], of(i)) ELSE items[i]]
  BY DEF Annotated
<1> HIDE DEF now, of
<1>2. IsSeq(items) /\ Len(items) \in Nat /\ DOMAIN items = 1..Len(items)
  BY SeqIs DEF SameItems
<1>3. DOMAIN now = 1..Len(items) /\ now = [k \in 1..Len(items) |-> now[k]]
  BY <1>1, <1>2
<1>4. IsSeq(now) /\ Len(now) = Len(items)
  BY <1>2, <1>3, MappedIsSeq
<1>5. ASSUME NEW it, IsItem(it), NEW comments
      PROVE  LET after == WithComments(it, comments)
             IN /\ IsItem(after) /\ after.name = it.name /\ after.parent = it.parent
                /\ after.area = it.area /\ after.proved = it.proved
                /\ after.requoted \/ SameQuote(after, it)
  <2> DEFINE after == WithComments(it, comments)
  <2>1. PICK q, d, c : after = [it EXCEPT !.quote = q, !.doc = d, !.cover = c,
                                          !.requoted = @ \/ q # it.quote]
    BY DEF WithComments
  <2>2. PICK n, q0, d0, c0, m, p, a, v, w :
           it = [name |-> n, quote |-> q0, doc |-> d0, cover |-> c0, said |-> m,
                 parent |-> p, area |-> a, proved |-> v, requoted |-> w]
    BY <1>5 DEF IsItem
  <2> HIDE DEF after
  <2>3. after = [name |-> n, quote |-> q, doc |-> d, cover |-> c, said |-> m,
                 parent |-> p, area |-> a, proved |-> v, requoted |-> (w \/ q # q0)]
    BY <2>1, <2>2
  <2>4. /\ IsItem(after) /\ after.name = it.name /\ after.parent = it.parent
        /\ after.area = it.area /\ after.proved = it.proved
    BY <2>2, <2>3 DEF IsItem
  <2>5. after.requoted \/ SameQuote(after, it)
    BY <2>2, <2>3 DEF SameQuote
  <2> QED  BY <2>4, <2>5 DEF after
<1>6. ASSUME NEW k \in 1..Len(items)
      PROVE  /\ IsItem(now[k]) /\ now[k].name = items[k].name
             /\ now[k].parent = items[k].parent
             /\ now[k].area = items[k].area /\ now[k].proved = items[k].proved
             /\ now[k].requoted \/ SameQuote(now[k], items[k])
  <2>1. IsItem(items[k])
    BY DEF SameItems
  <2>2. now[k] = WithComments(items[k], of(k)) \/ now[k] = items[k]
    BY <1>1, <1>2
  <2> QED  BY <1>5, <2>1, <2>2 DEF SameQuote
<1> QED  BY <1>4, <1>6 DEF SameItems, now

LEMMA CopiedIs ==
  ASSUME NEW items, SameItems(items, items), \A k \in 1..Len(items) : items[k].parent \in Nat
  PROVE  SameItems(items, Copied(items)) /\ SameItems(Copied(items), items)
<1> DEFINE now == Copied(items)
<1>1. now = [i \in DOMAIN items |-> IF items[i].parent > 0 THEN items[i]
                                    ELSE [items[i] EXCEPT !.parent = 0]]
  BY DEF Copied
<1> HIDE DEF now
<1>2. IsSeq(items) /\ Len(items) \in Nat /\ DOMAIN items = 1..Len(items)
  BY SeqIs DEF SameItems
<1>3. DOMAIN now = 1..Len(items) /\ now = [k \in 1..Len(items) |-> now[k]]
  BY <1>1, <1>2
<1>4. IsSeq(now) /\ Len(now) = Len(items)
  BY <1>2, <1>3, MappedIsSeq
<1>5. ASSUME NEW k \in 1..Len(items)
      PROVE  now[k] = items[k]
  <2>1. IsItem(items[k]) /\ items[k].parent \in Nat
    BY DEF SameItems
  <2>2. CASE items[k].parent > 0
    BY <1>1, <1>2, <2>2
  <2>3. CASE items[k].parent = 0
    <3>1. now[k] = [items[k] EXCEPT !.parent = 0]
      BY <1>1, <1>2, <2>3
    <3>2. [items[k] EXCEPT !.parent = 0] = items[k]
      BY <2>1, <2>3 DEF IsItem
    <3> QED  BY <3>1, <3>2
  <2> QED  BY <2>1, <2>2, <2>3
<1>6. now = items
  BY <1>2, <1>3, <1>5, SeqIs
<1> QED  BY <1>6 DEF now

LEMMA UnitIs ==
  ASSUME PipelineIInv
  PROVE  /\ IsSeq(live) /\ IsSeq(state.stages) /\ IsSeq(saved.stages) /\ IsSeq(rec.stages)
         /\ Turn \in Nat \ {0} /\ (More <=> Turn <= Len(rec.stages))
         /\ StagesOK(live)
         /\ \A i \in 1..Len(live) : SameItems(live[i], live[i])
         /\ More => /\ Stage.over \in 0..Len(live) /\ Stage.max \in Int /\ Stage.batch \in Nat
                    /\ Stage = rec.stages[Turn]
<1>1. IsSeq(live) /\ IsSeq(state.stages) /\ IsSeq(saved.stages) /\ IsSeq(rec.stages)
  BY StageIs DEF PipelineIInv, CheckpointOK, StagesOK
<1>2. Turn \in Nat \ {0} /\ Turn = Len(live) + 1 /\ (More <=> Turn <= Len(rec.stages))
  BY <1>1, SeqIs DEF Turn, More
<1>3. StagesOK(live) /\ \A i \in 1..Len(live) : SameItems(live[i], live[i])
  BY <1>1, SameItemsIs, StagesStay DEF PipelineIInv, CheckpointOK
<1>4. ASSUME More
      PROVE  /\ Stage.over \in 0..Len(live) /\ Stage.max \in Int /\ Stage.batch \in Nat
             /\ Stage = rec.stages[Turn]
  <2>1. Turn \in 1..Len(rec.stages) /\ Len(live) \in Nat
    BY <1>1, <1>2, <1>4, SeqIs
  <2> QED  BY <1>2, <2>1, StageIs DEF PipelineIInv, Stage
<1> QED  BY <1>1, <1>2, <1>3, <1>4

LEMMA SameStage ==
  ASSUME rec' = rec, Len(live') = Len(live)
  PROVE  /\ Turn' = Turn /\ More' = More /\ Stage' = Stage /\ Comments' = Comments
         /\ live' = live => Upstream' = Upstream
  BY DEF Turn, More, Stage, Comments, Upstream

\* A step that adds no items to the unit.
LEMMA SameUnit ==
  ASSUME PipelineIInv, UNCHANGED <<rec, live, shared, docs, tree, runs>>,
         state' = [stages |-> state.stages, files |-> state'.files],
         saved' \in {saved, NoState}, calls' \in 0..MaxCalls,
         cursor'.pc \in Steps, cursor.pc # "done", CursorOK(cursor')
  PROVE  PipelineTypeOK' /\ CheckpointOK' /\ CursorOK(cursor)'
<1>1. state'.stages = state.stages
  OBVIOUS
<1>2. saved' = [stages |-> saved'.stages, files |-> saved'.files] /\ StagesOK(saved'.stages)
      /\ Len(saved'.stages) <= Len(state.stages)
  <2>1. CASE saved' = saved
    BY <2>1 DEF PipelineIInv, PipelineTypeOK, CheckpointOK
  <2>2. CASE saved' = NoState
    <3>1. saved'.stages = << >> /\ Len(saved'.stages) = 0 /\ IsSeq(<< >>)
      BY <2>2 DEF NoState, IsSeq
    <3>2. Len(rec.stages) \in Nat /\ Len(state.stages) \in Nat
      BY UnitIs, SeqIs
    <3>3. StagesOK(saved'.stages)
      BY <3>1, <3>2 DEF StagesOK
    <3> QED  BY <2>2, <3>1, <3>2, <3>3 DEF NoState
  <2> QED  BY <2>1, <2>2
<1>3. PipelineTypeOK'
  <2>1. Len(live) <= Len(state.stages)
    BY DEF PipelineIInv, CheckpointOK
  <2> QED  BY <1>1, <1>2, <2>1 DEF PipelineIInv, PipelineTypeOK
<1>4. CheckpointOK'
  BY <1>1, <1>2 DEF PipelineIInv, CheckpointOK, StagesOK
<1>5. CursorOK(cursor)'
  BY <1>1, SameStage DEF CursorOK
<1> QED  BY <1>3, <1>4, <1>5

\* From an item, or a batch of comments, to the next.
LEMMA OnwardOK ==
  ASSUME PipelineIInv, cursor.pc \in {"ask", "tools"}, NEW part, ItemsOK(live, Stage, part)
  PROVE  CursorOK(Onward(part))
<1> DEFINE next == IF Comments THEN BatchEnd + 1 ELSE cursor.at + 1
           last == IF Comments THEN Len(Annotates) ELSE Len(Upstream)
<1>1. /\ Len(live) = Len(state.stages) /\ More /\ cursor.at \in Nat \ {0}
  BY DEF PipelineIInv, CursorOK
<1>2. Stage.over \in 0..Len(live) /\ Stage.batch \in Nat
  BY <1>1, UnitIs
<1>3. Len(Annotates) \in Nat
  <2>1. CASE Target(Stage) \in DOMAIN live
    <3>1. Annotates = live[Target(Stage)] /\ IsSeq(live[Target(Stage)])
      BY <2>1, UnitIs, SeqIs DEF Annotates, SameItems
    <3> QED  BY <3>1, SeqIs
  <2>2. CASE Target(Stage) \notin DOMAIN live
    BY <2>2 DEF Annotates
  <2> QED  BY <2>1, <2>2
<1>4. BatchEnd \in Nat
  BY <1>1, <1>2, <1>3 DEF BatchEnd
<1>5. next \in Nat \ {0}
  BY <1>1, <1>4
<1>6. IsCursor(Onward(part)) /\ Onward(part).part = part /\ Onward(part).pc \in {"ask", "end"}
      /\ (Onward(part).pc = "ask" => Onward(part).at = next /\ next <= last)
  BY DEF Onward, IsCursor
<1> HIDE DEF next
<1> QED  BY <1>1, <1>5, <1>6 DEF CursorOK

LEMMA TroubleOK ==
  ASSUME PipelineIInv, cursor.pc \in {"ask", "tools"},
         NEW how \in {"capped", "failed"}, Trouble(how)
  PROVE  /\ CursorOK(cursor') /\ cursor'.pc \in Steps \ {"done"} /\ saved' \in {saved, NoState}
         /\ UNCHANGED <<rec, docs, tree, live, shared, runs, matched, result>>
<1>1. ItemsOK(live, Stage, cursor.part)
  BY DEF PipelineIInv, CursorOK
<1>2. cursor' = Onward(cursor.part) \/ cursor' = Ended(how)
  BY DEF Trouble
<1>3. CursorOK(cursor') /\ cursor'.pc \in {"ask", "end", how}
  BY <1>1, <1>2, OnwardIs, OnwardOK DEF CursorOK
<1> QED  BY <1>3 DEF Trouble, Steps

\* Before its end a unit has no product.
LEMMA NoProduct ==
  ASSUME result' = << >>
  PROVE  ProductOK'
  BY DEF ProductOK, AskedIsChecked, GroupsAgree

LEMMA StillNoProduct ==
  ASSUME PipelineIInv, cursor.pc # "done", result' = result
  PROVE  ProductOK'
  BY NoProduct DEF PipelineIInv, ProductOK

LEMMA AnswerOK ==
  ASSUME PipelineIInv, NEW reply \in Reply, Answer(reply)
  PROVE  PipelineIInv'
<1> DEFINE up == IF Stage.over = 0 THEN 0 ELSE cursor.at
           area == IF up = 0 THEN "" ELSE Upstream[up].name
           items == [i \in DOMAIN reply |-> Item(reply[i], up, area)]
           those == Kept(Stage, items)
<1>1. cursor.pc = "tools" /\ ~Comments /\ cursor' = Onward(cursor.part \o those)
      /\ UNCHANGED <<rec, docs, tree, live, state, saved, shared, calls, runs, result>>
  BY DEF Answer
<1>2. /\ More /\ ItemsOK(live, Stage, cursor.part) /\ cursor.at \in Nat \ {0}
      /\ Stage.over # 0 => cursor.at <= Len(Upstream)
      /\ Stage.over \in 0..Len(live) /\ Stage.max \in Int
  BY <1>1, UnitIs DEF PipelineIInv, CursorOK
<1>3. Stage.over # 0 => Upstream = live[Stage.over] /\ Len(Upstream) \in Nat
  BY <1>2, UnitIs, SeqIs DEF Upstream, SameItems
<1>4. ASSUME NEW c
      PROVE  \/ ItemOK(live, Stage, Item(c, up, area))
             \/ Stage.verify /\ ~Proved(Item(c, up, area))
  <2> DEFINE it == Item(c, up, area)
  <2>0. Proved(it) => Evidenced(it)
    BY DEF Item, Proved, Evidenced
  <2>1. IsItem(it) /\ it.parent = up /\ it.area = area
    BY DEF Item, IsItem
  <2>2. up \in Nat
    BY <1>2
  <2>3. Stage.over = 0 => area = ""
    OBVIOUS
  <2>4. ASSUME Stage.over # 0
        PROVE  up \in 1..Len(live[Stage.over]) /\ area = live[Stage.over][up].name
    <3>1. up = cursor.at /\ up # 0 /\ area = Upstream[up].name
      BY <1>2, <2>4
    <3> QED  BY <1>2, <1>3, <2>4, <3>1
  <2> HIDE DEF it, up, area
  <2>5. (Stage.verify => Proved(it)) => ItemOK(live, Stage, it)
    BY <2>0, <2>1, <2>2, <2>3, <2>4 DEF ItemOK
  <2> QED  BY <2>5 DEF it
<1>5. IsSeq(items) /\ \A it \in ToSet(items) :
         ItemOK(live, Stage, it) \/ (Stage.verify /\ ~Proved(it))
  <2>1. IsSeq(reply)
    BY PipelineAssumption DEF IsSeq
  <2>2. Len(reply) \in Nat /\ DOMAIN items = 1..Len(reply)
        /\ items = [k \in 1..Len(reply) |-> items[k]]
        /\ \A k \in 1..Len(reply) : items[k] = Item(reply[k], up, area)
    <3> HIDE DEF up, area
    <3> QED  BY <2>1, SeqIs
  <2> HIDE DEF items, up, area
  <2>3. IsSeq(items) /\ Len(items) = Len(reply)
    BY <2>2, MappedIsSeq
  <2> QED  BY <1>4, <2>2, <2>3 DEF ToSet
<1> HIDE DEF items
<1>6. those \in Seq({it \in ToSet(items) : ItemOK(live, Stage, it)})
  <2>1. those \in Seq({it \in ToSet(items) : Stage.verify => Proved(it)})
    BY <1>2, <1>5, KeptIs
  <2>2. {it \in ToSet(items) : Stage.verify => Proved(it)}
           = {it \in ToSet(items) : ItemOK(live, Stage, it)}
    BY <1>5 DEF ItemOK, Evidenced
  <2> QED  BY <2>1, <2>2
<1> HIDE DEF those
<1>7. ItemsOK(live, Stage, cursor.part \o those)
  <2> DEFINE X == {it \in ToSet(items) \cup ToSet(cursor.part) : ItemOK(live, Stage, it)}
  <2>1. those \in Seq(X)
    BY <1>6
  <2>2. cursor.part \in Seq(X)
    <3>1. IsSeq(cursor.part)
      BY <1>2 DEF ItemsOK
    <3>2. \A k \in 1..Len(cursor.part) : cursor.part[k] \in X
      BY <1>2, <3>1, SeqIs DEF ItemsOK, ToSet
    <3> QED  BY <3>1, <3>2, SeqIs
  <2>3. cursor.part \o those \in Seq(X)
    <3> HIDE DEF X
    <3> QED  BY <2>1, <2>2
  <2>4. IsSeq(cursor.part \o those)
        /\ \A k \in 1..Len(cursor.part \o those) : (cursor.part \o those)[k] \in X
    <3> HIDE DEF X
    <3> QED  BY <2>3, SeqIs
  <2> QED  BY <2>4 DEF ItemsOK
<1>8. CursorOK(cursor') /\ cursor'.pc \in {"ask", "end"}
  BY <1>1, <1>7, OnwardIs, OnwardOK
<1>9. PipelineTypeOK' /\ CheckpointOK' /\ CursorOK(cursor)'
  BY <1>1, <1>8, SameUnit DEF Steps, PipelineIInv, PipelineTypeOK, CheckpointOK
<1> QED  BY <1>1, <1>9, StillNoProduct DEF PipelineIInv

LEMMA RemarkOK ==
  ASSUME PipelineIInv, NEW reply \in Remarks, Remark(reply)
  PROVE  PipelineIInv'
<1> DEFINE to == Target(Stage)
           items == Annotated(live[to], cursor.at, BatchEnd, reply)
<1>1. /\ cursor.pc = "tools" /\ live' = [live EXCEPT ![to] = items]
      /\ state' = IF to <= shared THEN [state EXCEPT !.stages[to] = items] ELSE state
      /\ cursor' = Onward(cursor.part)
      /\ UNCHANGED <<rec, docs, tree, saved, shared, calls, runs, result>>
  BY DEF Remark
<1>2. ItemsOK(live, Stage, cursor.part) /\ More /\ Len(live) = Len(state.stages)
  BY <1>1 DEF PipelineIInv, CursorOK
<1>3. /\ IsSeq(live) /\ IsSeq(state.stages) /\ Len(live) \in Nat
      /\ \A i \in 1..Len(live) : SameItems(live[i], live[i]) /\ SameItems(live[i], state.stages[i])
  BY UnitIs, SeqIs DEF PipelineIInv, CheckpointOK
<1>4. to \in 1..Len(live) => SameItems(items, live[to]) /\ SameItems(items, items)
                             /\ SameItems(items, state.stages[to])
  BY <1>3, AnnotatedIs, SameItemsIs
<1> HIDE DEF items, to
<1>5. /\ IsSeq(live') /\ Len(live') = Len(live)
      /\ \A i \in 1..Len(live) : live'[i] = IF i = to THEN items ELSE live[i]
  <2>1. DOMAIN live' = 1..Len(live) /\ live' = [k \in 1..Len(live) |-> live'[k]]
        /\ \A i \in 1..Len(live) : live'[i] = IF i = to THEN items ELSE live[i]
    BY <1>1, <1>3, SeqIs
  <2> QED  BY <1>3, <2>1, MappedIsSeq
<1>6. \A i \in 1..Len(live) : SameItems(live'[i], live[i]) /\ SameItems(live'[i], live'[i])
                              /\ SameItems(live'[i], state.stages[i])
  BY <1>3, <1>4, <1>5
<1>7. /\ state' = [stages |-> state'.stages, files |-> state'.files]
      /\ IsSeq(state'.stages) /\ Len(state'.stages) = Len(state.stages)
      /\ \A i \in 1..Len(state.stages) :
            state'.stages[i] = IF i = to /\ to <= shared THEN items ELSE state.stages[i]
  <2>1. CASE to <= shared
    <3>1. state' = [stages |-> [state.stages EXCEPT ![to] = items], files |-> state.files]
      BY <1>1, <2>1 DEF PipelineIInv, CheckpointOK
    <3>2. DOMAIN state'.stages = 1..Len(state.stages)
          /\ state'.stages = [k \in 1..Len(state.stages) |-> state'.stages[k]]
          /\ \A i \in 1..Len(state.stages) :
                state'.stages[i] = IF i = to THEN items ELSE state.stages[i]
      BY <1>3, <3>1, SeqIs
    <3>3. IsSeq(state'.stages) /\ Len(state'.stages) = Len(state.stages)
      BY <1>3, <3>2, MappedIsSeq, SeqIs
    <3> QED  BY <2>1, <3>1, <3>2, <3>3
  <2>2. CASE ~(to <= shared)
    BY <1>1, <1>3, <2>2 DEF PipelineIInv, CheckpointOK
  <2> QED  BY <2>1, <2>2
<1>8. StagesOK(state'.stages)
  <2>1. StagesOK(state.stages)
    BY DEF PipelineIInv, CheckpointOK
  <2>2. \A i \in 1..Len(state.stages) : SameItems(state.stages[i], state.stages[i])
    BY <2>1, SameItemsIs
  <2>3. \A i \in 1..Len(state'.stages) : SameItems(state'.stages[i], state.stages[i])
    BY <1>2, <1>4, <1>7, <2>2
  <2>4. Len(state'.stages) <= Len(state.stages)
    BY <1>2, <1>3, <1>7
  <2>5. PipelineTypeOK
    BY DEF PipelineIInv
  <2> QED  BY <1>7, <2>1, <2>3, <2>4, <2>5, StagesStay
<1>9. \A i \in 1..Len(live') : SameItems(live'[i], state'.stages[i])
  BY <1>2, <1>4, <1>5, <1>6, <1>7
<1>10. CheckpointOK'
  BY <1>1, <1>2, <1>5, <1>7, <1>8, <1>9 DEF PipelineIInv, CheckpointOK, StagesOK
<1>11. CursorOK(cursor') /\ cursor'.pc \in {"ask", "end"}
  BY <1>1, <1>2, OnwardIs, OnwardOK
<1>12. CursorOK(cursor)'
  <2>1. /\ Stage' = Stage /\ More' = More /\ Comments' = Comments /\ Turn' = Turn
    BY <1>1, <1>5, SameStage
  <2>2. Stage.over # 0 => /\ SameItems(live'[Stage.over], live[Stage.over])
                          /\ Len(Upstream') = Len(Upstream)
    <3>1. Stage.over # 0 => Stage.over \in 1..Len(live)
      BY <1>2, <1>3, UnitIs
    <3> QED  BY <1>6, <2>1, <3>1 DEF Upstream, SameItems
  <2>3. cursor'.pc \in {"ask", "end"} /\ IsCursor(cursor')
        /\ ItemsOK(live, Stage, cursor'.part)
        /\ (cursor'.pc = "ask" =>
               /\ cursor'.at \in Nat \ {0}
               /\ ~Comments /\ Stage.over # 0 => cursor'.at <= Len(Upstream))
    BY <1>11 DEF CursorOK
  <2>4. ItemsOK(live', Stage, cursor'.part)
    <3>1. SameItems(cursor'.part, cursor'.part)
      BY <2>3, SameItemsIs
    <3> QED  BY <2>2, <2>3, <3>1, ItemsStay, SameItemsIs
  <2> QED  BY <1>2, <1>5, <1>7, <2>1, <2>2, <2>3, <2>4 DEF CursorOK
<1>13. PipelineTypeOK'
  <2>1. Len(live') <= Len(state'.stages) /\ shared' <= Len(live')
        /\ \A i \in DOMAIN live' : Len(live'[i]) = Len(state'.stages[i])
    <3>1. DOMAIN live' = 1..Len(live')
      BY <1>5, SeqIs
    <3> QED  BY <1>9, <1>10, <3>1 DEF CheckpointOK, SameItems
  <2> QED  BY <1>1, <1>7, <1>11, <2>1 DEF PipelineIInv, PipelineTypeOK, Steps
<1> QED  BY <1>1, <1>10, <1>12, <1>13, StillNoProduct DEF PipelineIInv

LEMMA RehydrateOK ==
  ASSUME PipelineIInv, Rehydrate
  PROVE  PipelineIInv'
<1>1. /\ cursor.pc = "stage" /\ More /\ Turn \in DOMAIN state.stages
      /\ live' = Append(live, state.stages[Turn]) /\ shared' = Turn
      /\ UNCHANGED <<rec, docs, tree, state, saved, cursor, calls, runs, result>>
  BY DEF Rehydrate
<1>2. /\ IsSeq(live) /\ IsSeq(state.stages) /\ Len(live) \in Nat /\ Turn = Len(live) + 1
      /\ Turn \in 1..Len(state.stages)
  BY <1>1, UnitIs, SeqIs DEF Turn
<1>3. /\ IsSeq(live') /\ Len(live') = Turn /\ live'[Turn] = state.stages[Turn]
      /\ \A i \in 1..Len(live) : live'[i] = live[i]
  BY <1>1, <1>2, AppendedIsSeq
<1>4. SameItems(state.stages[Turn], state.stages[Turn])
  BY <1>2, SameItemsIs DEF PipelineIInv, CheckpointOK
<1>5. \A i \in 1..Len(live') : SameItems(live'[i], state.stages[i])
  BY <1>2, <1>3, <1>4 DEF PipelineIInv, CheckpointOK
<1>6. CheckpointOK'
  BY <1>1, <1>2, <1>3, <1>5 DEF PipelineIInv, CheckpointOK, StagesOK
<1>7. CursorOK(cursor)'
  BY <1>1 DEF PipelineIInv, CursorOK
<1>8. PipelineTypeOK'
  <2>1. Len(live') <= Len(state.stages) /\ shared' <= Len(live')
        /\ \A i \in DOMAIN live' : Len(live'[i]) = Len(state.stages[i])
    <3>1. DOMAIN live' = 1..Len(live') /\ Len(state.stages) \in Nat
      BY <1>2, <1>3, SeqIs
    <3>2. \A i \in 1..Len(live') : Len(live'[i]) = Len(state.stages[i])
      BY <1>5 DEF SameItems
    <3> QED  BY <1>1, <1>2, <1>3, <3>1, <3>2
  <2> QED  BY <1>1, <2>1 DEF PipelineIInv, PipelineTypeOK
<1> QED  BY <1>1, <1>6, <1>7, <1>8, StillNoProduct DEF PipelineIInv

LEMMA EndStageOK ==
  ASSUME PipelineIInv, EndStage
  PROVE  PipelineIInv'
<1> DEFINE copied == Copied(cursor.part)
<1>1. /\ cursor.pc = "end" /\ live' = Append(live, cursor.part)
      /\ state' = [state EXCEPT !.stages = Append(state.stages, copied)]
      /\ saved' \in {state', saved, NoState} /\ cursor' = AtStage
      /\ UNCHANGED <<rec, docs, tree, shared, calls, runs, result>>
  BY DEF EndStage
<1>2. /\ ItemsOK(live, Stage, cursor.part) /\ More /\ Len(live) = Len(state.stages)
      /\ IsSeq(live) /\ IsSeq(state.stages) /\ Len(live) \in Nat /\ Turn = Len(live) + 1
      /\ Stage = rec.stages[Turn] /\ Stage.over \in 0..Len(live) /\ Turn <= Len(rec.stages)
  BY <1>1, UnitIs, SeqIs DEF PipelineIInv, CursorOK, Turn
<1>3. SameItems(cursor.part, copied) /\ SameItems(copied, cursor.part) /\ SameItems(copied, copied)
  <2>1. SameItems(cursor.part, cursor.part)
        /\ \A k \in 1..Len(cursor.part) : cursor.part[k].parent \in Nat
    <3>1. SameItems(cursor.part, cursor.part)
      BY <1>2, SameItemsIs
    <3> QED  BY <1>2, <3>1 DEF ItemsOK, ItemOK
  <2> QED  BY <2>1, CopiedIs, SameItemsIs
<1> HIDE DEF copied
<1>4. state' = [stages |-> Append(state.stages, copied), files |-> state.files]
  BY <1>1 DEF PipelineIInv, CheckpointOK
<1>5. /\ IsSeq(live') /\ Len(live') = Turn /\ live'[Turn] = cursor.part
      /\ \A i \in 1..Len(live) : live'[i] = live[i]
  BY <1>1, <1>2, AppendedIsSeq
<1>6. /\ IsSeq(state'.stages) /\ Len(state'.stages) = Turn /\ state'.stages[Turn] = copied
      /\ \A i \in 1..Len(live) : state'.stages[i] = state.stages[i]
  BY <1>2, <1>4, AppendedIsSeq
<1>7. StagesOK(state'.stages)
  <2>1. ASSUME NEW i \in 1..Turn
        PROVE  ItemsOK(state'.stages, rec.stages[i], state'.stages[i])
    <3>1. CASE i \in 1..Len(live)
      <4>1. ItemsOK(state.stages, rec.stages[i], state.stages[i])
            /\ rec.stages[i].over \in 0..(i - 1)
        BY <1>2, <3>1, StageIs DEF PipelineIInv, CheckpointOK, StagesOK
      <4>2. rec.stages[i].over # 0 =>
              SameItems(state'.stages[rec.stages[i].over], state.stages[rec.stages[i].over])
        <5>1. \A j \in 1..Len(live) : SameItems(state.stages[j], state.stages[j])
          BY <1>2, SameItemsIs DEF PipelineIInv, CheckpointOK
        <5>2. rec.stages[i].over # 0 => rec.stages[i].over \in 1..Len(live)
          BY <1>2, <3>1, <4>1
        <5> QED  BY <1>6, <5>1, <5>2
      <4>3. SameItems(state'.stages[i], state.stages[i])
        BY <1>6, <3>1, <4>1, SameItemsIs
      <4> QED  BY <4>1, <4>2, <4>3, ItemsStay, SameItemsIs
    <3>2. CASE i = Turn
      <4>1. Stage.over # 0 => SameItems(live[Stage.over], state'.stages[Stage.over])
        BY <1>2, <1>6 DEF PipelineIInv, CheckpointOK
      <4>2. Stage.over # 0 => SameNames(state'.stages[Stage.over], live[Stage.over])
        BY <4>1, SameItemsIs
      <4> QED  BY <1>2, <1>3, <1>6, <3>2, <4>2, ItemsStay
    <3> QED  BY <1>2, <3>1, <3>2
  <2> QED  BY <1>2, <1>6, <2>1 DEF StagesOK
<1>8. \A i \in 1..Len(live') : SameItems(live'[i], state'.stages[i])
  BY <1>2, <1>3, <1>5, <1>6 DEF PipelineIInv, CheckpointOK
<1>9. saved' = [stages |-> saved'.stages, files |-> saved'.files] /\ StagesOK(saved'.stages)
      /\ (Len(saved'.stages) <= Len(state'.stages))
  <2>1. CASE saved' = state'
    BY <1>2, <1>4, <1>6, <1>7, <2>1
  <2>2. CASE saved' = saved
    BY <1>1, <1>2, <1>6, <2>2, UnitIs, SeqIs DEF PipelineIInv, PipelineTypeOK, CheckpointOK
  <2>3. CASE saved' = NoState
    <3>1. saved'.stages = << >> /\ Len(saved'.stages) = 0 /\ IsSeq(<< >>)
      BY <2>3 DEF NoState, IsSeq
    <3>2. Len(rec.stages) \in Nat
      BY UnitIs, SeqIs
    <3>3. StagesOK(saved'.stages)
      BY <3>1, <3>2 DEF StagesOK
    <3> QED  BY <1>2, <1>6, <2>3, <3>1, <3>3 DEF NoState
  <2> QED  BY <1>1, <2>1, <2>2, <2>3
<1>10. CheckpointOK'
  <2>1. shared' \in 0..Len(live') /\ Len(live') <= Len(state'.stages)
    BY <1>1, <1>2, <1>5, <1>6 DEF PipelineIInv, CheckpointOK
  <2>2. state' = [stages |-> state'.stages, files |-> state'.files]
    BY <1>4
  <2>3. StagesOK(state.stages)' /\ StagesOK(saved.stages)'
    BY <1>1, <1>7, <1>9 DEF StagesOK
  <2> QED  BY <1>5, <1>8, <1>9, <2>1, <2>2, <2>3 DEF CheckpointOK
<1>11. CursorOK(cursor)' /\ cursor'.pc = "stage"
  BY <1>1, OnwardIs DEF CursorOK
<1>12. PipelineTypeOK'
  <2>1. Len(live') <= Len(state'.stages) /\ shared' <= Len(live')
        /\ \A i \in DOMAIN live' : Len(live'[i]) = Len(state'.stages[i])
    BY <1>5, <1>8, <1>10, SeqIs DEF SameItems, CheckpointOK
  <2> QED  BY <1>1, <1>9, <1>11, <2>1 DEF PipelineIInv, PipelineTypeOK, Steps
<1> QED  BY <1>1, <1>10, <1>11, <1>12, StillNoProduct DEF PipelineIInv

\* The other steps within a unit.
LEMMA WithinOK ==
  ASSUME PipelineIInv, StartStage \/ Charge \/ SelectFiles \/ CallFails \/ Stop
  PROVE  PipelineIInv'
<1>1. /\ cursor.pc \in Steps /\ cursor.pc # "done"
      /\ UNCHANGED <<rec, docs, tree, live, shared, runs, result>>
  BY DEF StartStage, Charge, SelectFiles, CallFails, Stop, Trouble, PipelineIInv, PipelineTypeOK
<1>2. calls \in 0..MaxCalls /\ MaxCalls \in Nat /\ saved \in {saved, NoState}
      /\ state = [stages |-> state.stages, files |-> state.files]
  BY PipelineAssumption DEF PipelineIInv, PipelineTypeOK, CheckpointOK
<1>3. (Granted(1) => calls + 1 \in 0..MaxCalls)
  BY <1>2 DEF Granted
<1>4. IsCursor(cursor) /\ CursorOK(cursor)
  BY DEF PipelineIInv, CursorOK
<1>5. ASSUME state' = state \/ state' = [stages |-> state.stages, files |-> state'.files],
             saved' \in {saved, NoState}, calls' \in 0..MaxCalls,
             cursor'.pc \in Steps, CursorOK(cursor')
      PROVE  PipelineIInv'
  BY <1>1, <1>2, <1>5, SameUnit, StillNoProduct DEF PipelineIInv
<1>6. CASE StartStage
  <2>1. /\ cursor.pc = "stage" /\ More /\ Turn \notin DOMAIN state.stages
        /\ UNCHANGED <<state, saved, calls>>
    BY <1>6 DEF StartStage
  <2>2. cursor' = Ended("end")
        \/ /\ cursor' = [pc |-> "ask", at |-> 1, part |-> << >>]
           /\ ~(Stage.over # 0 /\ Upstream = << >>)
    BY <1>6 DEF StartStage
  <2>3. Len(live) = Len(state.stages)
    <3>1. /\ DOMAIN state.stages = 1..Len(state.stages) /\ Len(state.stages) \in Nat
          /\ Len(live) \in Nat /\ Turn = Len(live) + 1 /\ Len(live) <= Len(state.stages)
      BY UnitIs, SeqIs DEF PipelineIInv, CheckpointOK, Turn
    <3> QED  BY <2>1, <3>1
  <2>4. ItemsOK(live, Stage, << >>)
    BY DEF ItemsOK, IsSeq
  <2>5. ~(Stage.over # 0 /\ Upstream = << >>) /\ Stage.over # 0 => 1 <= Len(Upstream)
    <3>1. Stage.over # 0 => IsSeq(Upstream)
      BY <2>1, UnitIs DEF Upstream, SameItems
    <3>2. IsSeq(Upstream) /\ Upstream # << >> => 1 <= Len(Upstream)
      BY SeqIs DEF IsSeq
    <3> QED  BY <3>1, <3>2
  <2>6. CursorOK(cursor') /\ cursor'.pc \in Steps
    <3>1. CASE cursor' = Ended("end")
      BY <2>1, <2>3, <2>4, <3>1 DEF CursorOK, IsCursor, Ended, Steps
    <3>2. CASE cursor' = [pc |-> "ask", at |-> 1, part |-> << >>]
               /\ ~(Stage.over # 0 /\ Upstream = << >>)
      BY <2>1, <2>3, <2>4, <2>5, <3>2 DEF CursorOK, IsCursor, Steps
    <3> QED  BY <2>2, <3>1, <3>2
  <2> QED  BY <1>2, <1>5, <2>1, <2>6
<1>7. CASE Charge
  <2>1. cursor.pc = "ask" /\ state' = state
    BY <1>7 DEF Charge
  <2>2. CASE Granted(1) /\ calls' = calls + 1 /\ cursor' = [cursor EXCEPT !.pc = "tools"]
             /\ saved' = saved
    <3>1. cursor' = [pc |-> "tools", at |-> cursor.at, part |-> cursor.part]
      BY <1>4, <2>2 DEF IsCursor
    <3>2. CursorOK(cursor') /\ cursor'.pc \in Steps
      BY <1>4, <2>1, <3>1 DEF CursorOK, IsCursor, Steps
    <3> QED  BY <1>2, <1>3, <1>5, <2>1, <2>2, <3>2
  <2>3. CASE Trouble("capped") /\ calls' = calls
    BY <1>2, <1>5, <2>1, <2>3, TroubleOK
  <2> QED  BY <1>7, <2>2, <2>3 DEF Charge
<1>8. CASE SelectFiles
  <2>1. cursor.pc = "tools" /\ (calls' = calls \/ (Granted(1) /\ calls' = calls + 1))
        /\ (state' = state \/ \E f : state' = [state EXCEPT !.files = f])
    BY <1>8 DEF SelectFiles
  <2>2. state' = state \/ state' = [stages |-> state.stages, files |-> state'.files]
    BY <1>2, <2>1
  <2>3. (cursor' = cursor /\ saved' = saved) \/ \E how \in {"capped", "failed"} : Trouble(how)
    BY <1>8 DEF SelectFiles
  <2> QED  BY <1>1, <1>2, <1>3, <1>4, <1>5, <2>1, <2>2, <2>3, TroubleOK
<1>9. CASE CallFails
  BY <1>2, <1>5, <1>9, TroubleOK DEF CallFails
<1>10. CASE Stop
  <2>1. CursorOK(cursor') /\ cursor'.pc \in Steps /\ UNCHANGED <<state, saved, calls>>
    BY <1>10, OnwardIs DEF Stop, CursorOK, Steps
  <2> QED  BY <1>2, <1>5, <2>1
<1> QED  BY <1>6, <1>7, <1>8, <1>9, <1>10

(* the product *)

LEMMA LastIs ==
  ASSUME NEW r, NEW kind, IsSeq(r.stages)
  PROVE  LastOf(r, kind) \in 0..Len(r.stages)
<1> DEFINE at == {i \in DOMAIN r.stages : r.stages[i].produces = kind}
<1>1. Len(r.stages) \in Nat /\ \A i \in at : i \in 1..Len(r.stages)
  BY SeqIs
<1>2. at # {} => \E i \in at : \A j \in at : j <= i
  <2> HIDE DEF at
  <2> QED  BY <1>1, GreatestNat
<1>3. LastOf(r, kind) = IF at = {} THEN 0 ELSE CHOOSE i \in at : \A j \in at : j <= i
  BY DEF LastOf
<1> HIDE DEF at
<1> QED  BY <1>1, <1>2, <1>3

\* The rows of a product are of items of its stage.
LEMMA RowsOf ==
  ASSUME NEW items, IsSeq(items)
  PROVE  /\ \A i \in DOMAIN Stated(items) : Stated(items)[i] \in ToSet(items)
         /\ \A i \in DOMAIN Anchored(items) : Anchored(items)[i] \in ToSet(items)
<1>1. ASSUME NEW S, S \subseteq DOMAIN items
      PROVE  \A i \in DOMAIN Picked(items, S) : Picked(items, S)[i] \in ToSet(items)
  <2>1. Len(items) \in Nat /\ \A i \in S : i \in 1..Len(items)
    BY <1>1, SeqIs
  <2>2. Picked(items, S) \in Seq({items[i] : i \in S})
    BY <2>1, PickedIs
  <2>3. {items[i] : i \in S} \subseteq ToSet(items)
    BY <1>1 DEF ToSet
  <2>4. IsSeq(Picked(items, S))
        /\ \A k \in 1..Len(Picked(items, S)) : Picked(items, S)[k] \in {items[i] : i \in S}
    BY <2>2, SeqIs
  <2> QED  BY <2>3, <2>4, SeqIs
<1> QED  BY <1>1 DEF Stated, Anchored

LEMMA ProductIs ==
  ASSUME PipelineIInv, Finish
  PROVE  ProductOK'
<1> DEFINE kind == IF rec.output = "extraction" THEN "items" ELSE "findings"
           n == LastOf(rec, kind)
           st == rec.stages[n]
<1>1. /\ result' = IF rec.output = "extraction" THEN Requirements ELSE Findings
      /\ rec' = rec /\ ~More /\ cursor'.pc = "done" /\ cursor.pc = "stage"
  BY OnwardIs DEF Finish
<1>2. n \in 0..Len(rec.stages) /\ Len(rec.stages) = Len(live) /\ Len(live) \in Nat
  <2>1. Len(live) <= Len(rec.stages) /\ Turn = Len(live) + 1 /\ Len(live) \in Nat
        /\ Len(rec.stages) \in Nat /\ ~(Turn <= Len(rec.stages))
    BY <1>1, UnitIs, SeqIs DEF StagesOK, Turn
  <2>2. n \in 0..Len(rec.stages)
    BY UnitIs, LastIs
  <2> QED  BY <2>1, <2>2
<1>3. rec.output = "extraction" \/ n # 0
  <2>1. Valid(rec) /\ rec \in Recipes
    BY DEF PipelineIInv, PipelineTypeOK
  <2>2. ASSUME rec.output # "extraction"
        PROVE  n # 0
    <3> DEFINE at == {i \in DOMAIN rec.stages : rec.stages[i].produces = "findings"}
    <3>1. at # {} /\ Len(rec.stages) \in Nat /\ \A i \in at : i \in 1..Len(rec.stages)
      BY <2>1, <2>2, UnitIs, SeqIs DEF Valid
    <3>2. n = CHOOSE i \in at : \A j \in at : j <= i
      BY <2>2, <3>1 DEF LastOf
    <3>3. \E i \in at : \A j \in at : j <= i
      <4> HIDE DEF at
      <4> QED  BY <3>1, GreatestNat
    <3> HIDE DEF at, n
    <3> QED  BY <3>1, <3>2, <3>3
  <2> QED  BY <2>2
<1>4. ASSUME n # 0
      PROVE  ItemsOK(live, st, live[n]) /\ IsSeq(live[n])
             /\ \A it \in ToSet(live[n]) : ItemOK(live, st, it)
  <2>1. ItemsOK(live, st, live[n])
    BY <1>2, <1>4, UnitIs DEF StagesOK
  <2> QED  BY <2>1, SeqIs DEF ItemsOK, ToSet
<1>5. ASSUME NEW i \in DOMAIN result'
      PROVE  /\ n # 0 /\ ItemOK(live, st, result'[i].item)
             /\ rec.output = "extraction" => result'[i].heading = Heading(st, result'[i].item)
  <2>1. CASE rec.output = "extraction"
    <3> DEFINE items == IF n = 0 THEN << >> ELSE Stated(live[n])
    <3>1. result' = [k \in DOMAIN items |->
             [item |-> items[k], heading |-> Heading(st, items[k]), doc |-> Covered(items[k])]]
      BY <1>1, <2>1 DEF Requirements
    <3>2. i \in DOMAIN items /\ n # 0 /\ items = Stated(live[n])
      BY <3>1
    <3>3. items[i] \in ToSet(live[n])
      BY <1>4, <3>2, RowsOf
    <3> HIDE DEF items
    <3> QED  BY <1>4, <3>1, <3>2, <3>3
  <2>2. CASE rec.output # "extraction"
    <3> DEFINE items == Anchored(live[n])
    <3>1. result' = [k \in DOMAIN items |-> [item |-> items[k], heading |-> "", doc |-> Nothing]]
      BY <1>1, <2>2 DEF Findings
    <3>2. items[i] \in ToSet(live[n])
      BY <1>3, <1>4, <2>2, <3>1, RowsOf
    <3> HIDE DEF items
    <3> QED  BY <1>3, <1>4, <2>2, <3>1, <3>2
  <2> QED  BY <2>1, <2>2
<1>6. AskedIsChecked'
  BY <1>1, <1>5 DEF AskedIsChecked, ItemOK, Evidenced
<1>7. GroupsAgree'
  <2>1. ASSUME rec.output = "extraction", NEW i \in DOMAIN result', result'[i].item.area # ""
        PROVE  result'[i].heading = result'[i].item.area
    <3> DEFINE it == result'[i].item
    <3>1. ItemOK(live, st, it) /\ result'[i].heading = Heading(st, it) /\ n # 0
      BY <1>5, <2>1
    <3>2. /\ st.over # 0 /\ it.parent \in 1..Len(live[st.over])
          /\ it.area = live[st.over][it.parent].name
      BY <2>1, <3>1 DEF ItemOK
    <3>3. it.parent \in DOMAIN live[st.over]
      <4>1. st.over \in 1..Len(live)
        <5>1. n \in 1..Len(rec.stages)
          BY <1>2, <3>1
        <5>2. st.over \in 0..(n - 1)
          BY <5>1, StageIs DEF PipelineIInv
        <5> HIDE DEF n, st
        <5> QED  BY <1>2, <3>2, <5>1, <5>2
      <4> QED  BY <3>2, <4>1, UnitIs, SeqIs DEF SameItems
    <3> HIDE DEF it, st
    <3>4. Heading(st, it) = it.area
      BY <3>2, <3>3 DEF Heading
    <3> QED  BY <3>1, <3>4 DEF it
  <2> QED  BY <1>1, <2>1 DEF GroupsAgree
<1> QED  BY <1>1, <1>6, <1>7 DEF ProductOK

LEMMA FinishOK ==
  ASSUME PipelineIInv, Finish
  PROVE  PipelineIInv'
<1>1. /\ cursor.pc = "stage" /\ cursor' = Ended("done") /\ saved' = NoState
      /\ UNCHANGED <<rec, docs, tree, live, state, shared, calls, runs>>
  BY DEF Finish
<1>2. calls' \in 0..MaxCalls /\ state' = [stages |-> state.stages, files |-> state'.files]
  BY <1>1 DEF PipelineIInv, PipelineTypeOK, CheckpointOK
<1>3. CursorOK(cursor') /\ cursor'.pc \in Steps
  BY <1>1, OnwardIs DEF CursorOK, Steps
<1>4. PipelineTypeOK' /\ CheckpointOK' /\ CursorOK(cursor)'
  BY <1>1, <1>2, <1>3, SameUnit
<1> QED  BY <1>4, ProductIs DEF PipelineIInv

\* A run starts a unit afresh, or goes on where another one stopped.
LEMMA NewRunOK ==
  ASSUME rec' \in Recipes, docs' \subseteq Doc, tree' \subseteq File,
         runs' \in 1..MaxRuns, calls' = 0, result' = << >>,
         live' = << >>, shared' = 0, cursor' = AtStage,
         saved' = state', StagesOK(state.stages)',
         state' = [stages |-> state'.stages, files |-> state'.files]
  PROVE  PipelineIInv'
<1>1. Valid(rec') /\ MaxCalls \in Nat
  BY PipelineAssumption
<1>2. Len(state'.stages) \in Nat /\ Len(live') = 0 /\ IsSeq(live') /\ DOMAIN live' = {}
  BY SeqIs DEF StagesOK, IsSeq
<1>3. PipelineTypeOK'
  BY <1>1, <1>2, OnwardIs DEF PipelineTypeOK, Steps
<1>4. CheckpointOK'
  BY <1>2 DEF CheckpointOK, StagesOK
<1>5. CursorOK(cursor)'
  BY OnwardIs DEF CursorOK
<1> QED  BY <1>3, <1>4, <1>5, NoProduct DEF PipelineIInv

LEMMA NoStateOK ==
  ASSUME rec \in Recipes
  PROVE  StagesOK(NoState.stages) /\ NoState = [stages |-> NoState.stages, files |-> NoState.files]
<1>1. Len(rec.stages) \in Nat
  BY PipelineAssumption
<1> QED  BY <1>1 DEF NoState, StagesOK, IsSeq

LEMMA InitPipeline == PipelineInit => PipelineIInv
<1> SUFFICES ASSUME PipelineInit
             PROVE  PipelineIInv
  OBVIOUS
<1>1. Valid(rec) /\ MaxCalls \in Nat /\ 1 \in 1..MaxRuns
  BY PipelineAssumption DEF PipelineInit
<1>2. StagesOK(state.stages) /\ StagesOK(saved.stages) /\ Len(state.stages) = 0
      /\ state = [stages |-> state.stages, files |-> state.files]
      /\ saved = [stages |-> saved.stages, files |-> saved.files]
  BY NoStateOK DEF PipelineInit, NoState
<1>3. Len(live) = 0 /\ IsSeq(live) /\ DOMAIN live = {}
  BY DEF PipelineInit, IsSeq
<1>4. PipelineTypeOK
  BY <1>1, <1>2, <1>3, OnwardIs DEF PipelineInit, PipelineTypeOK, Steps
<1>5. CheckpointOK
  BY <1>2, <1>3 DEF PipelineInit, CheckpointOK
<1>6. CursorOK(cursor) /\ ProductOK
  BY OnwardIs DEF PipelineInit, CursorOK, ProductOK, AskedIsChecked, GroupsAgree
<1> QED  BY <1>4, <1>5, <1>6 DEF PipelineIInv

LEMMA StepUnit == PipelineIInv /\ [PipelineNext]_pipeline => PipelineIInv'
<1> SUFFICES ASSUME PipelineIInv, [PipelineNext]_pipeline
             PROVE  PipelineIInv'
  OBVIOUS
<1>1. CASE UNCHANGED pipeline
  <2>1. /\ rec' = rec /\ docs' = docs /\ tree' = tree /\ live' = live /\ state' = state
        /\ saved' = saved /\ shared' = shared /\ cursor' = cursor /\ calls' = calls
        /\ runs' = runs /\ result' = result
    BY <1>1 DEF pipeline
  <2>2. PipelineTypeOK' /\ CheckpointOK'
    BY <2>1 DEF PipelineIInv, PipelineTypeOK, CheckpointOK, StagesOK
  <2>3. CursorOK(cursor)'
    BY <2>1, SameStage DEF PipelineIInv, CursorOK
  <2>4. ProductOK'
    BY <2>1 DEF PipelineIInv, ProductOK, AskedIsChecked, GroupsAgree
  <2> QED  BY <2>2, <2>3, <2>4 DEF PipelineIInv
<1>2. CASE Resume
  <2>1. /\ cursor.pc # "done" /\ runs < MaxRuns /\ runs' = runs + 1 /\ calls' = 0
        /\ docs' \subseteq Doc /\ tree' \subseteq File
        /\ state' = saved /\ live' = << >> /\ shared' = 0 /\ cursor' = AtStage
        /\ rec' = rec /\ saved' = saved /\ result' = result
    BY <1>2 DEF Resume
  <2>2. rec' \in Recipes /\ runs' \in 1..MaxRuns /\ result' = << >>
    BY <2>1, PipelineAssumption DEF PipelineIInv, PipelineTypeOK, ProductOK
  <2>3. StagesOK(state.stages)' /\ state' = [stages |-> state'.stages, files |-> state'.files]
    BY <2>1 DEF PipelineIInv, CheckpointOK, StagesOK
  <2> QED  BY <2>1, <2>2, <2>3, NewRunOK
<1>3. CASE Rerun
  <2>1. /\ rec' \in Recipes /\ docs' \subseteq Doc /\ tree' \subseteq File
        /\ live' = << >> /\ state' = NoState /\ saved' = NoState /\ shared' = 0
        /\ cursor' = AtStage /\ calls' = 0 /\ runs' = 1 /\ result' = << >>
    BY <1>3 DEF Rerun, Fresh
  <2>2. 1 \in 1..MaxRuns
    BY PipelineAssumption
  <2>3. Len(rec'.stages) \in Nat
    BY <2>1, PipelineAssumption
  <2>4. StagesOK(state.stages)' /\ state' = [stages |-> state'.stages, files |-> state'.files]
    BY <2>1, <2>3 DEF NoState, StagesOK, IsSeq
  <2> QED  BY <2>1, <2>2, <2>4, NewRunOK
<1> QED
  BY <1>1, <1>2, <1>3, RehydrateOK, WithinOK, AnswerOK, RemarkOK, EndStageOK, FinishOK
     DEF PipelineNext

\* In every reachable state of a unit the checkpoint holds what the stages made,
\* and every item the area it came from and the evidence its stage asked for.
THEOREM PipelineInvariance == PipelineSpec => []PipelineIInv
<1> QED  BY InitPipeline, StepUnit, PTL DEF PipelineSpec

\* Nothing leaves a unit without the evidence its stage asked for, and every
\* requirement is filed under the area it was extracted from, over checkpoints
\* that were saved, were not, or were cleared, for any recipes and replies.
THEOREM PipelineKept == PipelineSpec => []PipelineInv
<1>1. PipelineIInv => PipelineInv
  BY DEF PipelineIInv, ProductOK, PipelineInv
<1> QED  BY <1>1, PipelineInvariance, PTL

(* ------------------------------------------------------------------- moves *)

\* A document, or none.
IsDoc(x) == x = [refs |-> x.refs, text |-> x.text]

Fields == {"pc", "req", "pairs", "there", "todo", "doc", "read"}

IsMover(m) == m = [f \in Fields |-> m[f]]

\* A move that is about to happen was asked for with paths there may be, and
\* what is about to be saved was there.
MoverOK(m) ==
    /\ IsMover(m)
    /\ m.pc = "move" => m.req \in Requests
    /\ m.pc \in {"rebase", "rewrite"} => m.read # None

WorktreeOK(fs) ==
    /\ fs = [p \in Path |-> fs[p]]
    /\ \A p \in Path : IsDoc(fs[p]) /\ (fs[p] # None => fs[p].text # "none")

MovesIInv == WorktreeOK(files) /\ MoverOK(mover) /\ edits \in Nat

(* Where files go *)

\* What is under a folder begins with it, and what is moved there ends with the
\* rest of its path.
LEMMA UnderIs ==
  ASSUME NEW p \in Path, NEW from \in Folder, NEW to \in Folder, Under(p, from)
  PROVE  LET q == to \o SubSeq(p, Len(from) + 1, Len(p)) IN
         /\ q \in Seq(STRING) /\ Len(q) = Len(to) + (Len(p) - Len(from))
         /\ Len(p) > Len(from) /\ Len(p) \in Nat /\ Len(from) \in Nat /\ Len(to) \in Nat
         /\ \A i \in 1..Len(from) : p[i] = from[i]
         /\ \A i \in 1..(Len(p) - Len(from)) : q[Len(to) + i] = p[Len(from) + i]
         /\ Under(q, to)
<1> DEFINE rest == SubSeq(p, Len(from) + 1, Len(p))
           q == to \o rest
<1>1. p \in Seq(STRING) /\ from \in Seq(STRING) /\ to \in Seq(STRING)
  BY MovesAssumption DEF MovesAssumption
<1>2. Len(p) > Len(from) /\ SubSeq(p, 1, Len(from)) = from
  BY DEF Under
<1>3. Len(p) \in Nat /\ Len(from) \in Nat /\ Len(to) \in Nat
  BY <1>1
<1>4. \A i \in 1..Len(from) : p[i] = from[i]
  <2>1. \A i \in 1..Len(from) : p[i] \in STRING
    BY <1>1, <1>2, <1>3
  <2>2. \A i \in 1..Len(from) : SubSeq(p, 1, Len(from))[i] = p[i]
    BY <1>3, <2>1, SubSeqProperties
  <2> QED  BY <1>2, <2>2
<1>5. /\ rest \in Seq(STRING) /\ Len(rest) = Len(p) - Len(from)
      /\ \A i \in 1..(Len(p) - Len(from)) : rest[i] = p[Len(from) + i]
  <2>1. \A i \in (Len(from) + 1)..Len(p) : p[i] \in STRING
    BY <1>1, <1>2, <1>3
  <2> QED  BY <1>2, <1>3, <2>1, SubSeqProperties
<1> HIDE DEF rest
<1>6. /\ q \in Seq(STRING) /\ Len(q) = Len(to) + Len(rest)
      /\ \A i \in 1..Len(to) : q[i] = to[i]
      /\ \A i \in 1..Len(rest) : q[Len(to) + i] = rest[i]
  <2>1. /\ q \in Seq(STRING) /\ Len(q) = Len(to) + Len(rest)
        /\ \A i \in 1..(Len(to) + Len(rest)) :
              q[i] = IF i <= Len(to) THEN to[i] ELSE rest[i - Len(to)]
    BY <1>1, <1>5, ConcatProperties
  <2>2. Len(rest) \in Nat
    BY <1>5
  <2>3. ASSUME NEW i \in 1..Len(rest)
        PROVE  q[Len(to) + i] = rest[i]
    <3>1. Len(to) + i \in 1..(Len(to) + Len(rest)) /\ ~(Len(to) + i <= Len(to))
          /\ (Len(to) + i) - Len(to) = i
      BY <1>3, <2>2
    <3> QED  BY <2>1, <3>1
  <2> QED  BY <1>3, <2>1, <2>2, <2>3
<1> HIDE DEF q
<1>7. Under(q, to)
  <2>1. \A i \in 1..Len(to) : q[i] \in STRING
    BY <1>1, <1>3, <1>6
  <2>2. /\ SubSeq(q, 1, Len(to)) \in Seq(STRING) /\ Len(SubSeq(q, 1, Len(to))) = Len(to)
        /\ \A i \in 1..Len(to) : SubSeq(q, 1, Len(to))[i] = q[i]
    BY <1>3, <2>1, SubSeqProperties
  <2>3. SubSeq(q, 1, Len(to)) = to
    BY <1>1, <1>6, <2>2, SeqEqual
  <2> QED  BY <1>2, <1>3, <1>5, <1>6, <2>3 DEF Under
<1> QED  BY <1>2, <1>3, <1>4, <1>5, <1>6, <1>7 DEF q, rest

\* A move that is allowed takes every document to a path of its own.
LEMMA MovesApart ==
  ASSUME NEW fs, NEW req \in Requests, Movable(fs, req),
         NEW d \in There(fs), NEW e \in There(fs), Moved(req, d) = Moved(req, e)
  PROVE  d = e
<1>1. d \in Path /\ e \in Path
  BY DEF There
<1>2. CASE ~req.folder
  BY <1>2 DEF Moved, Movable
<1>3. CASE req.folder
  <2>1. req.from \in Folder /\ req.to \in Folder
    BY <1>3 DEF Requests
  <2> DEFINE from == req.from
             to == req.to
             Gone(p) == to \o SubSeq(p, Len(from) + 1, Len(p))
  <2>2. \A p \in There(fs) : ~(Under(p, to))
    BY <1>3 DEF Movable
  <2>3. \A p : Moved(req, p) = IF Under(p, from) THEN Gone(p) ELSE p
    BY <1>3 DEF Moved
  <2> HIDE DEF from, to
  <2>4. CASE Under(d, from) /\ Under(e, from)
    <3>1. Gone(d) = Gone(e)
      BY <2>3, <2>4
    <3>2. /\ Len(Gone(d)) = Len(to) + (Len(d) - Len(from))
          /\ Len(d) > Len(from) /\ Len(d) \in Nat /\ Len(from) \in Nat /\ Len(to) \in Nat
          /\ \A i \in 1..Len(from) : d[i] = from[i]
          /\ \A i \in 1..(Len(d) - Len(from)) : Gone(d)[Len(to) + i] = d[Len(from) + i]
      BY <1>1, <2>1, <2>4, UnderIs DEF from, to
    <3>3. /\ Len(Gone(e)) = Len(to) + (Len(e) - Len(from))
          /\ Len(e) > Len(from) /\ Len(e) \in Nat
          /\ \A i \in 1..Len(from) : e[i] = from[i]
          /\ \A i \in 1..(Len(e) - Len(from)) : Gone(e)[Len(to) + i] = e[Len(from) + i]
      BY <1>1, <2>1, <2>4, UnderIs DEF from, to
    <3> HIDE DEF Gone
    <3>4. Len(d) = Len(e)
      BY <3>1, <3>2, <3>3
    <3>5. ASSUME NEW i \in 1..Len(d)
          PROVE  d[i] = e[i]
      <4>1. CASE i \in 1..Len(from)
        BY <3>2, <3>3, <4>1
      <4>2. CASE ~(i \in 1..Len(from))
        <5>1. i - Len(from) \in 1..(Len(d) - Len(from)) /\ Len(from) + (i - Len(from)) = i
          BY <3>2, <4>2
        <5> QED  BY <3>1, <3>2, <3>3, <3>4, <5>1
      <4> QED  BY <4>1, <4>2
    <3>6. d \in Seq(STRING) /\ e \in Seq(STRING)
      BY <1>1, MovesAssumption DEF MovesAssumption
    <3> QED  BY <3>4, <3>5, <3>6, SeqEqual
  <2>5. ASSUME NEW p \in There(fs), Under(p, from), NEW q \in There(fs), Gone(p) = q
        PROVE  FALSE
    <3>1. p \in Path
      BY DEF There
    <3>2. Under(Gone(p), to)
      BY <2>1, <2>5, <3>1, UnderIs DEF from, to
    <3> QED  BY <2>2, <2>5, <3>2
  <2>6. CASE Under(d, from) /\ ~Under(e, from)
    BY <2>3, <2>5, <2>6
  <2>7. CASE ~Under(d, from) /\ Under(e, from)
    BY <2>3, <2>5, <2>7
  <2>8. CASE ~Under(d, from) /\ ~Under(e, from)
    BY <2>3, <2>8
  <2> QED  BY <2>4, <2>6, <2>7, <2>8
<1> QED  BY <1>2, <1>3

\* A move takes paths to paths.
LEMMA MovesTo ==
  ASSUME NEW req \in Requests, NEW d \in Path
  PROVE  Moved(req, d) \in Path
  BY DEF Requests, Moved

\* What a move leaves is where it was or where it went.
LEMMA RenamedIs ==
  ASSUME NEW fs, NEW req \in Requests, Movable(fs, req), NEW d \in There(fs)
  PROVE  Moved(req, d) \in Path /\ Renamed(fs, req)[Moved(req, d)] = fs[d]
<1> DEFINE p == Moved(req, d)
           from == {q \in There(fs) : Moved(req, q) = p}
<1>1. d \in Path
  BY DEF There
<1>2. p \in Path
  BY <1>1, MovesTo
<1>3. d \in from /\ \A q \in from : q = d
  BY MovesApart
<1>4. Renamed(fs, req)[p] = IF from = {} THEN None ELSE fs[CHOOSE q \in from : TRUE]
  BY <1>2 DEF Renamed
<1> HIDE DEF p, from
<1>5. (CHOOSE q \in from : TRUE) = d
  BY <1>3
<1> QED  BY <1>2, <1>3, <1>4, <1>5 DEF p

(* What each step does *)

\* No document is no document's text.
LEMMA NoneIs == IsDoc(None) /\ None.text = "none"
  BY DEF None, IsDoc

\* A mover that moves nothing.
LEMMA AtRestIs == IsMover(AtRest) /\ AtRest.pc = "idle"
  BY DEF AtRest, IsMover, Fields

\* A text that is there is there, too, after a step that changes no text.
Same == \A p \in Path : files[p] # None => files'[p] # None /\ files'[p].text = files[p].text

\* A move that gives up.
LEMMA FailsIs ==
  ASSUME Fails
  PROVE  MoverOK(mover') /\ files' = files
<1> DEFINE new == [AtRest EXCEPT !.pc = "failed"]
<1>1. IsMover(new) /\ new.pc = "failed"
  BY AtRestIs DEF IsMover, Fields
<1> HIDE DEF new
<1>2. mover' = new /\ files' = files
  BY DEF Fails, new
<1> QED  BY <1>1, <1>2 DEF MoverOK

\* A save writes other references and the same text, or the move gives up.
LEMMA WrittenIs ==
  ASSUME MovesIInv, mover.pc \in {"rebase", "rewrite"}, NEW refs, Written(refs)
  PROVE  WorktreeOK(files') /\ MoverOK(mover') /\ Same
<1>1. IsMover(mover) /\ mover.read # None /\ WorktreeOK(files)
  BY DEF MovesIInv, MoverOK
<1>2. CASE mover' = [mover EXCEPT !.pc = "next", !.read = None]
  <2> DEFINE new == [mover EXCEPT !.pc = "next", !.read = None]
  <2>1. IsMover(new) /\ new.pc = "next"
    BY <1>1 DEF IsMover, Fields
  <2> HIDE DEF new
  <2>2. MoverOK(mover')
    BY <1>2, <2>1 DEF MoverOK, new
  <2>3. CASE files' = files
    BY <1>1, <2>2, <2>3 DEF Same
  <2>4. CASE Saves(mover.doc, [mover.read EXCEPT !.refs = refs])
    <3> DEFINE doc == [mover.read EXCEPT !.refs = refs]
    <3>1. files[mover.doc] = mover.read /\ files' = [files EXCEPT ![mover.doc] = doc]
      BY <2>4 DEF Saves
    <3>2. CASE mover.doc \notin Path
      <4>1. files' = files
        BY <1>1, <3>1, <3>2 DEF WorktreeOK
      <4> QED  BY <1>1, <2>2, <4>1 DEF Same
    <3>3. CASE mover.doc \in Path
      <4>1. IsDoc(mover.read) /\ mover.read.text # "none"
        BY <1>1, <3>1, <3>3 DEF WorktreeOK
      <4>2. IsDoc(doc) /\ doc.text = mover.read.text
        BY <4>1 DEF IsDoc
      <4> HIDE DEF doc
      <4>3. \A p \in Path : files'[p] = IF p = mover.doc THEN doc ELSE files[p]
        BY <1>1, <3>1 DEF WorktreeOK
      <4>4. doc # None
        BY <4>1, <4>2, NoneIs
      <4>5. files' = [p \in Path |-> files'[p]]
        BY <1>1, <3>1 DEF WorktreeOK
      <4>6. WorktreeOK(files')
        BY <1>1, <4>1, <4>2, <4>3, <4>5 DEF WorktreeOK
      <4> QED  BY <2>2, <3>1, <4>2, <4>3, <4>4, <4>6 DEF Same
    <3> QED  BY <3>2, <3>3
  <2> QED  BY <1>2, <2>3, <2>4, FailsIs DEF Written
<1>3. CASE Fails
  BY <1>1, <1>3, FailsIs DEF Same
<1> QED  BY <1>2, <1>3 DEF Written

\* Steps that read.
LEMMA ReadsKeep ==
  ASSUME MovesIInv, Look \/ OwnRead \/ NextDoc \/ Interrupted
  PROVE  MoverOK(mover') /\ files' = files /\ edits' = edits
<1>1. IsMover(mover)
  BY DEF MovesIInv, MoverOK
<1>2. CASE Look
  <2> DEFINE pc == IF mover.req.folder THEN "next" ELSE "own"
             there == There(files)
             todo == IF mover.req.folder THEN There(files)
                     ELSE Referencing(files, mover.req.from)
             new == [mover EXCEPT !.pc = pc, !.there = there, !.todo = todo]
  <2>1. mover' = new /\ files' = files /\ edits' = edits /\ pc \in {"next", "own"}
    BY <1>2 DEF Look
  <2> HIDE DEF pc, there, todo
  <2>3. IsMover(new) /\ new.pc = pc
    BY <1>1 DEF IsMover, Fields
  <2> HIDE DEF new
  <2> QED  BY <2>1, <2>3 DEF MoverOK
<1>3. CASE OwnRead
  <2> DEFINE to == mover.req.to
             pc == IF to \in There(files) THEN "rebase" ELSE "next"
             new == [mover EXCEPT !.pc = pc, !.doc = to, !.read = files[to]]
  <2>1. mover' = new /\ files' = files /\ edits' = edits
    BY <1>3 DEF OwnRead
  <2>2. pc \in {"rebase", "next"} /\ (pc = "rebase" => files[to] # None)
    BY DEF There
  <2> HIDE DEF pc, to
  <2>3. IsMover(new) /\ new.pc = pc /\ new.read = files[to]
    BY <1>1 DEF IsMover, Fields
  <2> HIDE DEF new
  <2> QED  BY <2>1, <2>2, <2>3 DEF MoverOK
<1>4. CASE NextDoc
  <2>1. files' = files /\ edits' = edits
    BY <1>4 DEF NextDoc
  <2>2. CASE mover' = [AtRest EXCEPT !.pc = "done", !.req = mover.req]
    <3> DEFINE new == [AtRest EXCEPT !.pc = "done", !.req = mover.req]
    <3>1. IsMover(new) /\ new.pc = "done"
      BY AtRestIs DEF IsMover, Fields
    <3> HIDE DEF new
    <3> QED  BY <2>1, <2>2, <3>1 DEF MoverOK, new
  <2>3. CASE mover' = [AtRest EXCEPT !.pc = "failed"]
    BY <2>1, <2>3, FailsIs DEF Fails
  <2>4. ASSUME NEW d \in mover.todo, files[d] # None,
               mover' = [mover EXCEPT !.pc = "rewrite", !.todo = @ \ {d},
                                      !.doc = d, !.read = files[d]]
        PROVE  MoverOK(mover')
    <3> DEFINE todo == mover.todo \ {d}
               new == [mover EXCEPT !.pc = "rewrite", !.todo = todo, !.doc = d, !.read = files[d]]
    <3>1. mover' = new
      BY <1>1, <2>4 DEF IsMover
    <3> HIDE DEF todo
    <3>2. IsMover(new) /\ new.pc = "rewrite" /\ new.read = files[d]
      BY <1>1 DEF IsMover, Fields
    <3> HIDE DEF new
    <3> QED  BY <2>4, <3>1, <3>2 DEF MoverOK
  <2> QED  BY <1>4, <2>1, <2>2, <2>3, <2>4 DEF NextDoc
<1>5. CASE Interrupted
  BY <1>5, FailsIs DEF Interrupted
<1> QED  BY <1>2, <1>3, <1>4, <1>5

\* The files go where the move takes them.
LEMMA MoveKeeps ==
  ASSUME MovesIInv, MoveFiles
  PROVE  /\ WorktreeOK(files') /\ MoverOK(mover')
         /\ \A d \in There(files) : \E p \in Path :
               files'[p] # None /\ files'[p].text = files[d].text
               /\ p \in {d, Moved(mover.req, d)}
<1>1. IsMover(mover) /\ WorktreeOK(files) /\ mover.req \in Requests
  BY DEF MovesIInv, MoverOK, MoveFiles
<1>2. CASE Fails
  BY <1>1, <1>2, FailsIs DEF There
<1>3. CASE Movable(files, mover.req) /\ files' = Renamed(files, mover.req)
           /\ mover' = [mover EXCEPT !.pc = "look"]
  <2> DEFINE new == [mover EXCEPT !.pc = "look"]
  <2>1. IsMover(new) /\ new.pc = "look"
    BY <1>1 DEF IsMover, Fields
  <2> HIDE DEF new
  <2>2. MoverOK(mover')
    BY <1>3, <2>1 DEF MoverOK, new
  <2>3. files' = [p \in Path |-> files'[p]]
    BY <1>3 DEF Renamed
  <2>4. ASSUME NEW p \in Path
        PROVE  IsDoc(files'[p]) /\ (files'[p] # None => files'[p].text # "none")
    <3> DEFINE from == {q \in There(files) : Moved(mover.req, q) = p}
    <3>1. files'[p] = IF from = {} THEN None ELSE files[CHOOSE q \in from : TRUE]
      BY <1>3 DEF Renamed
    <3>2. \A q \in from : q \in Path
      BY DEF There
    <3> HIDE DEF from
    <3>3. files'[p] = None \/ \E q \in Path : files'[p] = files[q]
      BY <3>1, <3>2
    <3> QED  BY <1>1, <3>3, NoneIs DEF WorktreeOK
  <2>5. WorktreeOK(files')
    BY <2>3, <2>4 DEF WorktreeOK
  <2>6. ASSUME NEW d \in There(files)
        PROVE  \E p \in Path : files'[p] # None /\ files'[p].text = files[d].text
                               /\ p \in {d, Moved(mover.req, d)}
    <3>1. Moved(mover.req, d) \in Path /\ files'[Moved(mover.req, d)] = files[d]
      BY <1>1, <1>3, RenamedIs
    <3>2. files[d] # None
      BY DEF There
    <3> QED  BY <3>1, <3>2
  <2> QED  BY <2>2, <2>5, <2>6
<1> QED  BY <1>2, <1>3 DEF MoveFiles

\* A request.
LEMMA StartMoveKeeps ==
  ASSUME NEW req \in Requests, StartMove(req)
  PROVE  MoverOK(mover') /\ files' = files /\ edits' = edits
<1> DEFINE pairs == IF req.folder THEN {p \in There(files) : Under(p, req.from)} ELSE {req.from}
           new == [AtRest EXCEPT !.req = req, !.pc = "move", !.pairs = pairs]
<1>1. mover' = new /\ files' = files /\ edits' = edits
  BY DEF StartMove
<1> HIDE DEF pairs
<1>2. IsMover(new) /\ new.pc = "move" /\ new.req = req
  BY AtRestIs DEF IsMover, Fields
<1> HIDE DEF new
<1> QED  BY <1>1, <1>2 DEF MoverOK

\* Somebody else's edit.
LEMMA EditKeeps ==
  ASSUME MovesIInv, NEW d \in Path, NEW doc, Edit(d, doc),
         IsDoc(doc), doc # None => doc.text # "none"
  PROVE  MovesIInv' /\ edits' # edits
<1>1. WorktreeOK(files) /\ edits \in Nat /\ files' = [files EXCEPT ![d] = doc]
      /\ mover' = mover /\ edits' = edits + 1
  BY DEF Edit, MovesIInv
<1>2. files' = [p \in Path |-> files'[p]]
      /\ \A p \in Path : files'[p] = IF p = d THEN doc ELSE files[p]
  BY <1>1 DEF WorktreeOK
<1>3. WorktreeOK(files')
  BY <1>1, <1>2 DEF WorktreeOK
<1> QED  BY <1>1, <1>3 DEF MovesIInv

\* The action property, for one step.
TextsKept ==
    edits' = edits => \A d \in There(files) :
        \E p \in Path : files'[p] # None /\ files'[p].text = files[d].text
                        /\ p \in {d, Moved(mover.req, d)}

\* What is still where it was with its text is kept.
LEMMA SameKeeps == Same \/ files' = files => TextsKept
  BY DEF Same, TextsKept, There

\* Every step of a move, and every edit, keeps the invariant, and no step of a
\* move loses a text.
LEMMA StepMoves == MovesIInv /\ [MovesNext]_moves => MovesIInv' /\ [TextsKept]_moves
<1> SUFFICES ASSUME MovesIInv, [MovesNext]_moves
             PROVE  MovesIInv' /\ [TextsKept]_moves
  OBVIOUS
<1>1. CASE UNCHANGED moves
  BY <1>1 DEF moves, MovesIInv
<1>2. ASSUME NEW req \in Requests, StartMove(req)
      PROVE  MovesIInv' /\ TextsKept
  BY <1>2, StartMoveKeeps, SameKeeps DEF MovesIInv
<1>3. CASE MoveFiles
  BY <1>3, MoveKeeps DEF MovesIInv, TextsKept, MoveFiles
<1>4. CASE Look \/ OwnRead \/ NextDoc \/ Interrupted
  BY <1>4, ReadsKeep, SameKeeps DEF MovesIInv
<1>5. CASE OwnSave
  <2>1. mover.pc \in {"rebase", "rewrite"} /\ Written(Rebased(mover.doc)) /\ edits' = edits
    BY <1>5 DEF OwnSave
  <2> QED  BY <2>1, WrittenIs, SameKeeps DEF MovesIInv
<1>6. CASE SaveDoc
  <2>1. mover.pc \in {"rebase", "rewrite"} /\ (\E refs : Written(refs)) /\ edits' = edits
    BY <1>6 DEF SaveDoc
  <2> QED  BY <2>1, WrittenIs, SameKeeps DEF MovesIInv
<1>7. ASSUME NEW d \in Path, NEW refs, Edit(d, [refs |-> refs, text |-> "u"])
      PROVE  MovesIInv' /\ TextsKept
  <2> DEFINE doc == [refs |-> refs, text |-> "u"]
  <2>1. IsDoc(doc) /\ doc.text # "none"
    BY DEF IsDoc
  <2> QED  BY <1>7, <2>1, EditKeeps DEF TextsKept
<1>8. ASSUME NEW d \in Path, Edit(d, None)
      PROVE  MovesIInv' /\ TextsKept
  BY <1>8, NoneIs, EditKeeps DEF TextsKept
<1> QED
  BY <1>1, <1>2, <1>3, <1>4, <1>5, <1>6, <1>7, <1>8 DEF MovesNext

\* A branch begins with documents that have texts.
LEMMA InitMoves == MovesInit => MovesIInv
<1> SUFFICES ASSUME MovesInit
             PROVE  MovesIInv
  OBVIOUS
<1>1. PICK refs : files = [p \in Path |-> IF p \in First THEN [refs |-> refs[p], text |-> "t"]
                                          ELSE None]
  BY DEF MovesInit
<1>2. \A p \in Path : IsDoc(files[p]) /\ (files[p] # None => files[p].text # "none")
  BY <1>1, NoneIs DEF IsDoc
<1>3. files = [p \in Path |-> files[p]]
  BY <1>1
<1> QED  BY <1>2, <1>3, AtRestIs DEF MovesInit, MovesIInv, WorktreeOK, MoverOK

\* No step of a move of a document or a folder loses or changes what an author
\* wrote, whoever edits meanwhile and wherever the move stops.
THEOREM TextsStay == MovesSpec => TextsSurvive
<1>1. MovesIInv /\ [MovesNext]_moves => [TextsKept]_moves
  BY StepMoves
<1> QED  BY <1>1, InitMoves, StepMoves, PTL DEF MovesSpec, TextsSurvive, TextsKept

(* Resolving a relative path *)

\* The beginning of a path.
LEMMA PrefixIs ==
  ASSUME NEW s \in Seq(STRING), NEW m \in 0..Len(s)
  PROVE  /\ SubSeq(s, 1, m) \in Seq(STRING) /\ Len(SubSeq(s, 1, m)) = m
         /\ \A i \in 1..m : SubSeq(s, 1, m)[i] = s[i]
<1>1. Len(s) \in Nat /\ m \in Nat
  OBVIOUS
<1>2. \A i \in 1..m : s[i] \in STRING
  BY <1>1
<1> QED  BY <1>1, <1>2, SubSeqProperties

\* One segment more, one less, all of them.
LEMMA PrefixesAre ==
  ASSUME NEW s \in Seq(STRING)
  PROVE  /\ \A m \in 0..(Len(s) - 1) : Append(SubSeq(s, 1, m), s[m + 1]) = SubSeq(s, 1, m + 1)
         /\ \A m \in 1..Len(s) : SubSeq(SubSeq(s, 1, m), 1, m - 1) = SubSeq(s, 1, m - 1)
         /\ SubSeq(s, 1, Len(s)) = s
<1>0. Len(s) \in Nat
  OBVIOUS
<1>1. ASSUME NEW m \in 0..(Len(s) - 1)
      PROVE  Append(SubSeq(s, 1, m), s[m + 1]) = SubSeq(s, 1, m + 1)
  <2> DEFINE a == SubSeq(s, 1, m)
             b == SubSeq(s, 1, m + 1)
             c == Append(a, s[m + 1])
  <2>1. m \in 0..Len(s) /\ m + 1 \in 0..Len(s) /\ m + 1 \in 1..Len(s) /\ m \in Nat
    BY <1>0
  <2>2. a \in Seq(STRING) /\ Len(a) = m /\ \A i \in 1..m : a[i] = s[i]
    BY <2>1, PrefixIs
  <2>3. b \in Seq(STRING) /\ Len(b) = m + 1 /\ \A i \in 1..(m + 1) : b[i] = s[i]
    BY <2>1, PrefixIs
  <2>4. s[m + 1] \in STRING
    BY <2>1
  <2> HIDE DEF a, b
  <2>5. c \in Seq(STRING) /\ Len(c) = m + 1 /\ c[m + 1] = s[m + 1]
        /\ \A i \in 1..m : c[i] = a[i]
    BY <2>2, <2>4, AppendProperties
  <2> HIDE DEF c
  <2>6. ASSUME NEW i \in 1..(m + 1)
        PROVE  c[i] = b[i]
    <3>1. i \in 1..m \/ i = m + 1
      BY <2>1
    <3> QED  BY <2>2, <2>3, <2>5, <3>1
  <2>7. c = b
    BY <2>3, <2>5, <2>6, SeqEqual
  <2> QED  BY <2>7 DEF a, b, c
<1>2. ASSUME NEW m \in 1..Len(s)
      PROVE  SubSeq(SubSeq(s, 1, m), 1, m - 1) = SubSeq(s, 1, m - 1)
  <2> DEFINE a == SubSeq(s, 1, m)
             b == SubSeq(s, 1, m - 1)
             c == SubSeq(a, 1, m - 1)
  <2>1. m \in 0..Len(s) /\ m - 1 \in 0..Len(s) /\ m \in Nat /\ m - 1 \in 0..m
        /\ \A i \in 1..(m - 1) : i \in 1..m
    BY <1>0
  <2>2. a \in Seq(STRING) /\ Len(a) = m /\ \A i \in 1..m : a[i] = s[i]
    BY <2>1, PrefixIs
  <2>3. b \in Seq(STRING) /\ Len(b) = m - 1 /\ \A i \in 1..(m - 1) : b[i] = s[i]
    BY <2>1, PrefixIs
  <2> HIDE DEF a, b
  <2>4. c \in Seq(STRING) /\ Len(c) = m - 1 /\ \A i \in 1..(m - 1) : c[i] = a[i]
    BY <2>1, <2>2, PrefixIs
  <2> HIDE DEF c
  <2>5. \A i \in 1..(m - 1) : c[i] = b[i]
    BY <2>1, <2>2, <2>3, <2>4
  <2>6. c = b
    BY <2>3, <2>4, <2>5, SeqEqual
  <2> QED  BY <2>6 DEF a, b, c
<1>3. SubSeq(s, 1, Len(s)) = s
  <2> DEFINE a == SubSeq(s, 1, Len(s))
  <2>1. a \in Seq(STRING) /\ Len(a) = Len(s) /\ \A i \in 1..Len(s) : a[i] = s[i]
    <3>1. Len(s) \in 0..Len(s)
      BY <1>0
    <3> QED  BY <3>1, PrefixIs
  <2> HIDE DEF a
  <2>2. a = s
    BY <2>1, SeqEqual
  <2> QED  BY <2>2 DEF a
<1> QED  BY <1>1, <1>2, <1>3

\* relLink goes up to the deepest folder the two share.
LEMMA SharedIs ==
  ASSUME NEW dir \in Seq(STRING), NEW p \in Seq(STRING), p # << >>
  PROVE  /\ Shared(dir, p) \in 0..Len(dir) /\ Shared(dir, p) < Len(p)
         /\ SubSeq(dir, 1, Shared(dir, p)) = SubSeq(p, 1, Shared(dir, p))
<1> DEFINE same == {i \in 0..Len(dir) : i < Len(p) /\ SubSeq(dir, 1, i) = SubSeq(p, 1, i)}
           S == {i + 1 : i \in same}
<1>1. Len(dir) \in Nat /\ Len(p) \in Nat /\ Len(p) > 0
  OBVIOUS
<1>2. 0 \in same
  <2>1. SubSeq(dir, 1, 0) = << >> /\ SubSeq(p, 1, 0) = << >>
    <3>1. 0 \in 0..Len(dir) /\ 0 \in 0..Len(p)
      BY <1>1
    <3>2. /\ SubSeq(dir, 1, 0) \in Seq(STRING) /\ Len(SubSeq(dir, 1, 0)) = 0
          /\ SubSeq(p, 1, 0) \in Seq(STRING) /\ Len(SubSeq(p, 1, 0)) = 0
      BY <3>1, PrefixIs
    <3> QED  BY <3>2, EmptySeq
  <2> QED  BY <1>1, <2>1
<1>3. \A i \in same : i \in 0..Len(dir)
  OBVIOUS
<1>4. Shared(dir, p) = CHOOSE i \in same : \A j \in same : j <= i
  BY DEF Shared
<1>5. \A i \in same : i \in 0..Len(dir) /\ i < Len(p) /\ SubSeq(dir, 1, i) = SubSeq(p, 1, i)
  OBVIOUS
<1> HIDE DEF same
<1>6. PICK k \in S : \A j \in S : j <= k
  <2>1. Len(dir) + 1 \in Nat
    BY <1>1
  <2>2. \A i \in S : i \in 1..(Len(dir) + 1)
    BY <1>1, <1>3
  <2>3. S # {}
    BY <1>2
  <2> HIDE DEF S
  <2> QED  BY <2>1, <2>2, <2>3, GreatestNat
<1>7. PICK i \in same : k = i + 1
  OBVIOUS
<1>8. \A j \in same : j <= i
  <2>1. ASSUME NEW j \in same
        PROVE  j <= i
    <3>1. j + 1 \in S
      OBVIOUS
    <3>2. j + 1 <= i + 1
      BY <1>6, <1>7, <3>1
    <3> QED  BY <1>1, <1>3, <3>2
  <2> QED  BY <2>1
<1>9. Shared(dir, p) \in same
  BY <1>4, <1>8
<1> QED  BY <1>5, <1>9
\* A path that was split: no dots.
IsPath(p) == p \in Seq(STRING) /\ p # << >> /\ \A i \in DOMAIN p : p[i] \notin {".", ".."}

\* As many steps up as the folder is deep below what is shared, then down.
LEMMA RelativeIs ==
  ASSUME NEW dir \in Seq(STRING), NEW p \in Seq(STRING), p # << >>
  PROVE  LET i == Shared(dir, p)
             a == Len(dir) - i
             rel == Relative(dir, p)
         IN /\ Len(rel) = a + (Len(p) - i)
            /\ \A k \in 1..a : rel[k] = ".."
            /\ \A k \in 1..(Len(p) - i) : rel[a + k] = p[i + k]
<1> DEFINE i == Shared(dir, p)
           a == Len(dir) - i
           Segs == STRING \cup {".."}
           up == [k \in 1..a |-> ".."]
           down == SubSeq(p, i + 1, Len(p))
<1>1. i \in 0..Len(dir) /\ i < Len(p) /\ Len(dir) \in Nat /\ Len(p) \in Nat
  BY SharedIs
<1> HIDE DEF i
<1>2. a \in Nat /\ up \in Seq(Segs) /\ Len(up) = a /\ \A k \in 1..a : up[k] = ".."
  <2>1. a \in Nat
    BY <1>1
  <2> HIDE DEF a
  <2>2. up \in [1..a -> Segs]
    OBVIOUS
  <2>3. up \in Seq(Segs)
    BY <2>1, <2>2
  <2>4. Len(up) = a
    BY <2>1
  <2> QED  BY <2>1, <2>3, <2>4
<1>3. /\ down \in Seq(Segs) /\ Len(down) = Len(p) - i
      /\ \A k \in 1..(Len(p) - i) : down[k] = p[i + k]
  <2>1. \A k \in (i + 1)..Len(p) : p[k] \in Segs
    BY <1>1
  <2>2. i + 1 \in Int /\ Len(p) \in Int /\ i + 1 <= Len(p) /\ Len(p) - (i + 1) + 1 = Len(p) - i
    BY <1>1
  <2>3. \A k \in 1..(Len(p) - i) : (i + 1) + k - 1 = i + k
    BY <1>1
  <2> QED  BY <2>1, <2>2, <2>3, SubSeqProperties
<1> HIDE DEF a, up, down
<1>4. Relative(dir, p) = up \o down
  BY DEF Relative, i, a, up, down
<1>5. /\ Len(up \o down) = a + (Len(p) - i)
      /\ \A k \in 1..(a + (Len(p) - i)) :
            (up \o down)[k] = IF k <= a THEN up[k] ELSE down[k - a]
  <2>1. /\ Len(up \o down) = Len(up) + Len(down)
        /\ \A k \in 1..(Len(up) + Len(down)) :
              (up \o down)[k] = IF k <= Len(up) THEN up[k] ELSE down[k - Len(up)]
    BY <1>2, <1>3, ConcatProperties
  <2> QED  BY <1>2, <1>3, <2>1, Zenon
<1>6. ASSUME NEW k \in 1..a
      PROVE  (up \o down)[k] = ".."
  <2>1. k \in 1..(a + (Len(p) - i)) /\ k <= a
    BY <1>1, <1>2
  <2> QED  BY <1>2, <1>5, <2>1
<1>7. ASSUME NEW k \in 1..(Len(p) - i)
      PROVE  (up \o down)[a + k] = p[i + k]
  <2>1. a + k \in 1..(a + (Len(p) - i)) /\ ~(a + k <= a) /\ (a + k) - a = k
    BY <1>1, <1>2
  <2> QED  BY <1>3, <1>5, <2>1
<1> QED  BY <1>4, <1>5, <1>6, <1>7 DEF i, a

\* Resolving the path that relLink makes, from the folder it was made for, gives
\* the document it was made for: what rewriting puts in a body leads where it
\* should, whatever the two have in common.
THEOREM ResolvedRelative ==
  ASSUME NEW dir \in Seq(STRING), NEW p, IsPath(p)
  PROVE  Resolved(dir, Relative(dir, p)) = p
<1> DEFINE i == Shared(dir, p)
           a == Len(dir) - i
           rel == Relative(dir, p)
           n == Len(rel)
           At(F, k) == IF k = 0 THEN dir
                       ELSE IF rel[k] = ".." THEN SubSeq(F[k - 1], 1, Len(F[k - 1]) - 1)
                       ELSE IF rel[k] = "." THEN F[k - 1] ELSE Append(F[k - 1], rel[k])
           Found(F) == F = [k \in 0..n |-> At(F, k)]
           parts == CHOOSE F : Found(F)
           up(k) == SubSeq(dir, 1, Len(dir) - k)
           down(k) == SubSeq(p, 1, i + (k - a))
           g == [k \in 0..n |-> IF k <= a THEN up(k) ELSE down(k)]
<1>0. p \in Seq(STRING) /\ p # << >> /\ \A k \in DOMAIN p : p[k] \notin {".", ".."}
  BY DEF IsPath
<1>1. /\ i \in 0..Len(dir) /\ i < Len(p) /\ Len(dir) \in Nat /\ Len(p) \in Nat
      /\ SubSeq(dir, 1, i) = SubSeq(p, 1, i)
  BY <1>0, SharedIs
<1>2. /\ n = a + (Len(p) - i)
      /\ \A k \in 1..a : rel[k] = ".."
      /\ \A k \in 1..(Len(p) - i) : rel[a + k] = p[i + k]
  BY <1>0, RelativeIs
<1>3. Resolved(dir, rel) = parts[n]
  BY Zenon DEF Resolved
<1> HIDE DEF i, rel, n
<1>4. a \in Nat /\ n \in Nat /\ n > a /\ n - a = Len(p) - i
  BY <1>1, <1>2
<1>5. ASSUME NEW k \in 1..n
      PROVE  g[k] = At(g, k)
  <2>1. k \in 0..n /\ k - 1 \in 0..n /\ k # 0
    BY <1>4
  <2>2. g[k] = (IF k <= a THEN up(k) ELSE down(k))
        /\ g[k - 1] = (IF k - 1 <= a THEN up(k - 1) ELSE down(k - 1))
    BY <2>1
  <2> HIDE DEF g
  <2>3. CASE k <= a
    <3>1. k \in 1..a /\ k - 1 <= a /\ Len(dir) - (k - 1) \in 1..Len(dir)
          /\ (Len(dir) - (k - 1)) - 1 = Len(dir) - k /\ Len(dir) - (k - 1) \in 0..Len(dir)
      BY <1>1, <1>4, <2>3
    <3>2. SubSeq(up(k - 1), 1, (Len(dir) - (k - 1)) - 1) = up(k)
          /\ Len(up(k - 1)) = Len(dir) - (k - 1)
      BY <3>1, PrefixesAre, PrefixIs
    <3>3. rel[k] = ".."
      BY <1>2, <3>1
    <3> HIDE DEF up, down, a
    <3>4. g[k - 1] = up(k - 1) /\ g[k] = up(k)
      BY <2>2, <2>3, <3>1
    <3> QED  BY <2>1, <3>1, <3>2, <3>3, <3>4
  <2>4. CASE ~(k <= a)
    <3> DEFINE m == i + (k - 1 - a)
    <3>1. /\ k - a \in 1..(Len(p) - i) /\ a + (k - a) = k /\ i + (k - a) = m + 1
          /\ m \in 0..(Len(p) - 1) /\ m + 1 \in DOMAIN p
      BY <1>0, <1>1, <1>4, <2>4
    <3>2. rel[k] = p[m + 1] /\ rel[k] \notin {".", ".."}
      BY <1>0, <1>2, <3>1
    <3>3. g[k - 1] = SubSeq(p, 1, m)
      <4>1. CASE k - 1 <= a
        <5>1. k - 1 = a /\ m = i /\ Len(dir) - (k - 1) = i
          BY <1>1, <1>4, <2>4, <4>1
        <5> QED  BY <1>1, <2>2, <4>1, <5>1
      <4>2. CASE ~(k - 1 <= a)
        BY <2>2, <4>2
      <4> QED  BY <4>1, <4>2
    <3>4. g[k] = SubSeq(p, 1, m + 1)
      BY <2>2, <2>4, <3>1
    <3> HIDE DEF m
    <3>5. Append(SubSeq(p, 1, m), p[m + 1]) = SubSeq(p, 1, m + 1)
      BY <1>0, <3>1, PrefixesAre
    <3> QED  BY <2>1, <3>2, <3>3, <3>4, <3>5
  <2> QED  BY <2>3, <2>4
<1>6. g[0] = dir /\ g = [k \in 0..n |-> g[k]] /\ g[n] = p
  <2>1. 0 \in 0..n /\ n \in 0..n /\ 0 <= a /\ ~(n <= a) /\ Len(dir) - 0 = Len(dir)
        /\ i + (n - a) = Len(p)
    BY <1>1, <1>4
  <2>2. up(0) = dir /\ down(n) = p
    BY <1>0, <2>1, PrefixesAre
  <2> HIDE DEF up, down, a
  <2> QED  BY <2>1, <2>2
<1> HIDE DEF g
<1>7. Found(g)
  <2>1. \A k \in 0..n : g[k] = At(g, k)
    <3>1. \A k \in 0..n : k = 0 \/ k \in 1..n
      BY <1>4
    <3> QED  BY <1>5, <1>6, <3>1
  <2> HIDE DEF At
  <2> QED  BY <1>6, <2>1
<1>8. Found(parts)
  <2> HIDE DEF Found
  <2> QED  BY <1>7
<1> HIDE DEF parts
<1>9. \A k \in 0..n : parts[k] = At(parts, k)
  <2> HIDE DEF At
  <2> QED  BY <1>8
<1> DEFINE P == {k \in 0..n : parts[k] = g[k]}
<1>10. 0 \in P
  BY <1>4, <1>6, <1>9
<1>11. ASSUME NEW k \in 0..(n - 1), k \in P
       PROVE  k + 1 \in P
  <2>1. k + 1 \in 1..n /\ k + 1 \in 0..n /\ (k + 1) - 1 = k /\ k + 1 # 0
    BY <1>4
  <2>2. parts[k] = g[k]
    BY <1>11
  <2>3. At(parts, k + 1) = At(g, k + 1)
    BY <2>1, <2>2
  <2> HIDE DEF At
  <2>4. parts[k + 1] = g[k + 1]
    BY <1>5, <1>9, <2>1, <2>3
  <2> QED  BY <2>1, <2>4
<1>12. n \in P
  <2>1. n \in 0..n
    BY <1>4
  <2> HIDE DEF P
  <2> QED  BY <1>4, <1>10, <1>11, <2>1, UpFrom
<1> QED  BY <1>3, <1>6, <1>12 DEF rel

(* Rewriting, pair by pair *)

\* The pairs in some order, each once.
LEMMA PairsInTurn ==
  ASSUME NEW S, IsFiniteSet(S)
  PROVE  /\ Len(SetToSeq(S)) \in Nat
         /\ \A k \in 1..Len(SetToSeq(S)) : SetToSeq(S)[k] \in S
         /\ \A p \in S : \E k \in 1..Len(SetToSeq(S)) : SetToSeq(S)[k] = p
         /\ \A k, m \in 1..Len(SetToSeq(S)) : SetToSeq(S)[k] = SetToSeq(S)[m] => k = m
<1> DEFINE n == Cardinality(S)
           s == SetToSeq(S)
<1>1. n \in Nat /\ ExistsBijection(1..n, S)
  BY FS_CardinalityType
<1>2. PICK f \in [1..n -> S] : IsInjective(f)
  BY <1>1 DEF ExistsBijection, Bijection, Injection, IsInjective
<1>3. s = CHOOSE h \in [1..n -> S] : IsInjective(h)
  BY Zenon DEF SetToSeq
<1>4. s \in [1..n -> S] /\ IsInjective(s)
  BY <1>2, <1>3
<1> HIDE DEF s
<1>5. s \in Injection(1..n, S)
  BY <1>4 DEF Injection
<1>6. s \in Surjection(1..n, S)
  <2>1. IsFiniteSet(1..n) /\ Cardinality(1..n) = n
    BY <1>1, FS_Interval
  <2> QED  BY <1>5, <2>1, FS_Injection
<1>7. Len(s) = n
  BY <1>1, <1>4
<1>8. \A p \in S : \E k \in 1..n : s[k] = p
  BY <1>6 DEF Surjection
<1> QED  BY <1>1, <1>4, <1>7, <1>8 DEF s, IsInjective

\* What the references of d are after each pair.
Turns(h, refs, d) ==
    LET s == SetToSeq(mover.pairs)
    IN /\ h[0] = refs
       /\ \A k \in 1..Len(s) :
             h[k] = RewriteRefs(h[k - 1], Dir(d), s[k], Moved(mover.req, s[k]))

\* What the code applies to a document is the last of these.
LEMMA RewrittenIs ==
  ASSUME IsFiniteSet(mover.pairs), NEW refs, NEW d
  PROVE  \E h : Turns(h, refs, d) /\ Rewritten(refs, d) = h[Len(SetToSeq(mover.pairs))]
<1> DEFINE s == SetToSeq(mover.pairs)
           n == Len(s)
           At(F, k) == IF k = 0 THEN refs
                       ELSE RewriteRefs(F[k - 1], Dir(d), s[k], Moved(mover.req, s[k]))
           Found(F) == F = [k \in 0..n |-> At(F, k)]
           next == CHOOSE F : Found(F)
           P == {m \in 0..n : \E F : F = [k \in 0..m |-> At(F, k)]}
<1>1. n \in Nat
  BY PairsInTurn
<1>2. Rewritten(refs, d) = next[n]
  BY Zenon DEF Rewritten
<1> HIDE DEF n
<1>3. 0 \in P
  <2> DEFINE F == [k \in 0..0 |-> refs]
  <2>1. F = [k \in 0..0 |-> At(F, k)]
    OBVIOUS
  <2>2. 0 \in 0..n
    BY <1>1
  <2> HIDE DEF At, F
  <2> QED  BY <2>1, <2>2
<1>4. ASSUME NEW m \in 0..(n - 1), m \in P
      PROVE  m + 1 \in P
  <2>1. PICK F : F = [k \in 0..m |-> At(F, k)]
    BY <1>4
  <2> DEFINE G == [k \in 0..(m + 1) |-> IF k = m + 1 THEN At(F, m + 1) ELSE F[k]]
  <2>2. m \in Nat /\ m + 1 \in 0..n
    BY <1>1
  <2>3. \A k \in 0..m : G[k] = F[k]
    BY <2>2
  <2>4. \A k \in 0..m : F[k] = At(F, k)
    <3> HIDE DEF At
    <3> QED  BY <2>1
  <2>5. G[m + 1] = At(F, m + 1)
    BY <2>2
  <2>6. G = [k \in 0..(m + 1) |-> G[k]]
    OBVIOUS
  <2> HIDE DEF G
  <2>7. ASSUME NEW k \in 0..(m + 1)
        PROVE  G[k] = At(G, k)
    <3>1. CASE k = m + 1
      <4>1. m + 1 # 0 /\ (m + 1) - 1 = m /\ m \in 0..m
        BY <2>2
      <4>2. At(G, m + 1) = At(F, m + 1)
        BY <2>3, <4>1
      <4> HIDE DEF At
      <4> QED  BY <2>5, <3>1, <4>2
    <3>2. CASE k # m + 1
      <4>1. k \in 0..m /\ (k # 0 => k - 1 \in 0..m)
        BY <2>2, <3>2
      <4>2. At(G, k) = At(F, k)
        BY <2>3, <4>1
      <4> HIDE DEF At
      <4> QED  BY <2>3, <2>4, <4>1, <4>2
    <3> QED  BY <3>1, <3>2
  <2> HIDE DEF At
  <2>8. G = [k \in 0..(m + 1) |-> At(G, k)]
    BY <2>6, <2>7
  <2> QED  BY <2>2, <2>8
<1>5. n \in P
  <2>1. n \in 0..n
    BY <1>1
  <2> HIDE DEF P
  <2> QED  BY <1>1, <1>3, <1>4, <2>1, UpFrom
<1>6. Found(next)
  <2>1. PICK F : F = [k \in 0..n |-> At(F, k)]
    BY <1>5
  <2>2. Found(F)
    BY <2>1
  <2> HIDE DEF Found
  <2> QED  BY <2>2
<1> HIDE DEF next
<1>7. \A k \in 0..n : next[k] = At(next, k)
  <2> HIDE DEF At
  <2> QED  BY <1>6
<1>8. next[0] = refs
  BY <1>1, <1>7
<1>9. \A k \in 1..n : next[k] = RewriteRefs(next[k - 1], Dir(d), s[k], Moved(mover.req, s[k]))
  <2>1. \A k \in 1..n : k \in 0..n /\ k # 0
    BY <1>1
  <2> QED  BY <1>7, <2>1
<1>10. Turns(next, refs, d)
  BY <1>8, <1>9 DEF Turns, n
<1> QED  BY <1>2, <1>10 DEF n

\* A reference to what is at the path to now.
Redirected(r, dir, to) == IF r.place = "body" THEN InBody(Relative(dir, to)) ELSE InFront(to)

\* One pair does not touch a reference that does not name it, and redirects one
\* that does.
LEMMA PairDoes ==
  ASSUME NEW refs, NEW dir, NEW from, NEW to, NEW r \in refs
  PROVE  /\ ~Names(dir, r, from) => r \in RewriteRefs(refs, dir, from, to)
         /\ Names(dir, r, from) => Redirected(r, dir, to) \in RewriteRefs(refs, dir, from, to)
<1> DEFINE f(x) == IF ~Names(dir, x, from) THEN x
                   ELSE IF x.place = "body" THEN InBody(Relative(dir, to)) ELSE InFront(to)
<1>1. f(r) \in RewriteRefs(refs, dir, from, to)
  BY DEF RewriteRefs
<1> QED  BY <1>1 DEF Redirected

\* All pairs: a reference that names none stays.
LEMMA UnnamedStays ==
  ASSUME IsFiniteSet(mover.pairs), NEW refs, NEW d, NEW r \in refs,
         \A p \in mover.pairs : ~Names(Dir(d), r, p)
  PROVE  r \in Rewritten(refs, d)
<1> DEFINE s == SetToSeq(mover.pairs)
           n == Len(s)
<1>1. n \in Nat /\ \A k \in 1..n : s[k] \in mover.pairs
  BY PairsInTurn
<1>2. PICK h : Turns(h, refs, d) /\ Rewritten(refs, d) = h[n]
  BY RewrittenIs
<1>3. h[0] = refs
      /\ \A k \in 1..n : h[k] = RewriteRefs(h[k - 1], Dir(d), s[k], Moved(mover.req, s[k]))
  BY <1>2 DEF Turns
<1> HIDE DEF s, n
<1> DEFINE P == {k \in 0..n : r \in h[k]}
<1>4. 0 \in P
  BY <1>1, <1>3
<1>5. ASSUME NEW k \in 0..(n - 1), k \in P
      PROVE  k + 1 \in P
  <2>1. k + 1 \in 1..n /\ k + 1 \in 0..n /\ (k + 1) - 1 = k /\ r \in h[k]
    BY <1>1, <1>5
  <2>2. ~Names(Dir(d), r, s[k + 1])
    BY <1>1, <2>1
  <2>3. r \in RewriteRefs(h[k], Dir(d), s[k + 1], Moved(mover.req, s[k + 1]))
    BY <2>1, <2>2, PairDoes
  <2>4. h[k + 1] = RewriteRefs(h[k], Dir(d), s[k + 1], Moved(mover.req, s[k + 1]))
    BY <1>3, <2>1
  <2> QED  BY <2>1, <2>3, <2>4
<1>6. n \in P
  <2>1. n \in 0..n
    BY <1>1
  <2> HIDE DEF P
  <2> QED  BY <1>1, <1>4, <1>5, <2>1, UpFrom
<1> QED  BY <1>2, <1>6 DEF n, s

\* All pairs: a reference that names one is redirected there and stays so.
LEMMA NamedFollows ==
  ASSUME IsFiniteSet(mover.pairs), NEW refs, NEW d, NEW r \in refs,
         NEW t \in mover.pairs, Names(Dir(d), r, t),
         \A p \in mover.pairs : Names(Dir(d), r, p) => p = t,
         \A p \in mover.pairs : ~Names(Dir(d), Redirected(r, Dir(d), Moved(mover.req, t)), p)
  PROVE  Redirected(r, Dir(d), Moved(mover.req, t)) \in Rewritten(refs, d)
<1> DEFINE s == SetToSeq(mover.pairs)
           n == Len(s)
           q == Redirected(r, Dir(d), Moved(mover.req, t))
<1>1. /\ n \in Nat /\ \A k \in 1..n : s[k] \in mover.pairs
      /\ \A k, m \in 1..n : s[k] = s[m] => k = m
  BY PairsInTurn
<1>2. PICK h : Turns(h, refs, d) /\ Rewritten(refs, d) = h[n]
  BY RewrittenIs
<1>3. h[0] = refs
      /\ \A k \in 1..n : h[k] = RewriteRefs(h[k - 1], Dir(d), s[k], Moved(mover.req, s[k]))
  BY <1>2 DEF Turns
<1>4. PICK i \in 1..n : s[i] = t
  BY PairsInTurn
<1> HIDE DEF s, n
<1> DEFINE P == {k \in 0..n : IF k < i THEN r \in h[k] ELSE q \in h[k]}
<1>5. 0 \in P
  BY <1>1, <1>3
<1>6. ASSUME NEW k \in 0..(n - 1), k \in P
      PROVE  k + 1 \in P
  <2> DEFINE to == Moved(mover.req, s[k + 1])
  <2>1. /\ k + 1 \in 1..n /\ k + 1 \in 0..n /\ (k + 1) - 1 = k /\ i \in Int /\ k \in Int
        /\ IF k < i THEN r \in h[k] ELSE q \in h[k]
    BY <1>1, <1>6
  <2>2. h[k + 1] = RewriteRefs(h[k], Dir(d), s[k + 1], to) /\ s[k + 1] \in mover.pairs
    BY <1>1, <1>3, <2>1
  <2>3. CASE k + 1 < i
    <3>1. k < i /\ s[k + 1] # t
      BY <1>1, <1>4, <2>1, <2>3
    <3>2. ~Names(Dir(d), r, s[k + 1])
      BY <2>2, <3>1
    <3>3. r \in h[k]
      BY <2>1, <3>1
    <3> HIDE DEF to, q
    <3>4. r \in RewriteRefs(h[k], Dir(d), s[k + 1], to)
      BY <3>2, <3>3, PairDoes
    <3> QED  BY <2>1, <2>2, <2>3, <3>4
  <2>4. CASE k + 1 = i
    <3>1. k < i /\ s[k + 1] = t /\ ~(k + 1 < i)
      BY <1>4, <2>1, <2>4
    <3>2. q \in h[k + 1]
      BY <2>1, <2>2, <3>1, PairDoes
    <3> HIDE DEF q
    <3> QED  BY <2>1, <3>1, <3>2
  <2>5. CASE k + 1 > i
    <3>1. ~(k < i) /\ ~(k + 1 < i)
      BY <2>1, <2>5
    <3>2. ~Names(Dir(d), q, s[k + 1])
      BY <2>2
    <3> HIDE DEF q
    <3>3. q \in h[k + 1]
      BY <2>1, <2>2, <3>1, <3>2, PairDoes
    <3> QED  BY <2>1, <3>1, <3>3
  <2> QED  BY <2>1, <2>3, <2>4, <2>5
<1>7. n \in P
  <2>1. n \in 0..n
    BY <1>1
  <2> HIDE DEF P
  <2> QED  BY <1>1, <1>5, <1>6, <2>1, UpFrom
<1>8. q \in h[n]
  BY <1>1, <1>7
<1> QED  BY <1>2, <1>8 DEF n, s

(* What becomes of one reference *)

\* What a request moves.
PairsOf(fs, req) == IF req.folder THEN {p \in There(fs) : Under(p, req.from)} ELSE {req.from}

\* A move of what the request found, and the files are where it takes them.
Underway ==
    /\ mover.req \in Requests /\ mover.req.from # mover.req.to
    /\ Movable(origin, mover.req) /\ mover.pairs = PairsOf(origin, mover.req)
    /\ There(files) = {Moved(mover.req, d) : d \in There(origin)}

\* Documents have no relative paths.
LEMMA PathIs ==
  ASSUME NEW p \in Path
  PROVE  IsPath(p) /\ Dir(p) \in Seq(STRING)
<1>1. p \in Seq(STRING) /\ p # << >> /\ \A i \in DOMAIN p : p[i] \notin {".", ".."}
  BY MovesAssumption DEF MovesAssumption
<1>2. Len(p) - 1 \in 0..Len(p)
  BY <1>1
<1> QED  BY <1>1, <1>2, PrefixIs DEF IsPath, Dir

\* Only what the request names moves, to where nothing was.
LEMMA PairsAre ==
  ASSUME Underway
  PROVE  /\ IsFiniteSet(mover.pairs) /\ mover.pairs \subseteq There(origin)
         /\ \A p \in There(origin) : p \in mover.pairs <=> Moved(mover.req, p) # p
         /\ \A p, q \in mover.pairs : Moved(mover.req, p) # q
         /\ \A p \in There(origin) : p \in Path /\ Moved(mover.req, p) \in Path
                                     /\ Moved(mover.req, p) \in There(files)
<1> DEFINE req == mover.req
<1>0. req \in Requests /\ Movable(origin, req) /\ mover.pairs = PairsOf(origin, req)
      /\ req.from # req.to /\ There(files) = {Moved(req, d) : d \in There(origin)}
  BY DEF Underway
<1> HIDE DEF req
<1>1. \A p \in There(origin) : p \in Path /\ Moved(req, p) \in Path
                              /\ Moved(req, p) \in There(files)
  BY <1>0, MovesTo DEF There
<1>2. mover.pairs \subseteq There(origin)
  BY <1>0 DEF PairsOf, Movable
<1>3. IsFiniteSet(mover.pairs)
  <2>1. mover.pairs \in SUBSET Path
    BY <1>1, <1>2
  <2> QED  BY <2>1, FS_Subset, MovesAssumption DEF MovesAssumption
<1>4. CASE ~req.folder
  <2>1. mover.pairs = {req.from} /\ \A p : Moved(req, p) = IF p = req.from THEN req.to ELSE p
    BY <1>0, <1>4 DEF PairsOf, Moved
  <2> QED  BY <1>0, <1>1, <1>2, <1>3, <2>1 DEF req
<1>5. CASE req.folder
  <2>1. /\ \A p : p \in mover.pairs <=> p \in There(origin) /\ Under(p, req.from)
        /\ \A p : ~Under(p, req.from) => Moved(req, p) = p
        /\ \A p : Under(p, req.from) =>
                    Moved(req, p) = req.to \o SubSeq(p, Len(req.from) + 1, Len(p))
    BY <1>0, <1>5 DEF PairsOf, Moved
  <2>2. req.from \in Folder /\ req.to \in Folder
    BY <1>0, <1>5 DEF Requests
  <2>3. \A p \in There(origin) : ~Under(p, req.to)
    BY <1>0, <1>5 DEF Movable
  <2>4. ASSUME NEW p \in mover.pairs
        PROVE  Under(Moved(req, p), req.to)
    <3> DEFINE q == req.to \o SubSeq(p, Len(req.from) + 1, Len(p))
    <3>1. p \in Path /\ Under(p, req.from) /\ Moved(req, p) = q
      BY <1>1, <1>2, <2>1
    <3>2. Under(q, req.to)
      BY <2>2, <3>1, UnderIs
    <3> HIDE DEF q
    <3> QED  BY <3>1, <3>2
  <2> QED  BY <1>1, <1>2, <1>3, <2>1, <2>3, <2>4 DEF req
<1> QED  BY <1>4, <1>5

\* A reference in the body, made to lead to p, does.
LEMMA BodyReads ==
  ASSUME NEW dir \in Seq(STRING), NEW p, IsPath(p), NEW there
  PROVE  LET q == InBody(Relative(dir, p)) IN
         /\ q.place = "body" /\ Reads(dir, q, there) = p
         /\ \A x : Names(dir, q, x) <=> x = p
  BY ResolvedRelative DEF InBody, Reads, Names, Href

\* One in the frontmatter, too, if p is there, and it names nothing else but
\* what it could be read as.
LEMMA FrontReads ==
  ASSUME NEW dir \in Seq(STRING), NEW there, NEW p \in there
  PROVE  LET q == InFront(p) IN
         /\ q.place # "body" /\ Reads(dir, q, there) = p
         /\ \A x : IsPath(x) /\ Names(dir, q, x) => x = p \/ x = Resolved(dir, p)
  BY ResolvedRelative DEF InFront, Reads, Names, Spells

\* In the frontmatter, what is named is one of the two readings.
LEMMA NamesReading ==
  ASSUME NEW dir \in Seq(STRING), NEW r, r.place # "body", NEW p, IsPath(p), Names(dir, r, p)
  PROVE  p = r.segs \/ (~r.slash /\ p = Resolved(dir, r.segs))
  BY ResolvedRelative DEF Names, Spells

\* A reference that has one reading names one document.
LEMMA NamesOne ==
  ASSUME Underway, NEW d \in There(origin), NEW t, NEW r, Refers(d, r, t),
         Names(Dir(d), r, t), NEW p \in There(origin), Names(Dir(d), r, p)
  PROVE  p = t
<1>1. d \in Path /\ t \in There(origin) /\ ~Ambiguous(d, r, t)
  BY DEF Refers, There
<1>2. IsPath(p) /\ IsPath(t) /\ Dir(d) \in Seq(STRING)
  BY <1>1, PathIs DEF There
<1>3. CASE r.place = "body"
  BY <1>3 DEF Names
<1>4. CASE r.place # "body"
  <2>1. p = r.segs \/ (~r.slash /\ p = Resolved(Dir(d), r.segs))
    BY <1>2, <1>4, NamesReading
  <2>2. t = r.segs \/ (~r.slash /\ t = Resolved(Dir(d), r.segs))
    BY <1>2, <1>4, NamesReading
  <2>3. ~r.slash => ~TwoReadings(d, r.segs)
    BY <1>1, <1>4 DEF Ambiguous
  <2> QED  BY <1>1, <2>1, <2>2, <2>3 DEF TwoReadings
<1> QED  BY <1>3, <1>4

\* A document that stays refers to one that stays as it did.
LEMMA RestStays ==
  ASSUME Underway, NEW d \in There(origin), NEW t, NEW r, Refers(d, r, t),
         Moved(mover.req, t) = t, Names(Dir(d), r, t)
  PROVE  /\ Reads(Dir(d), r, There(files)) = t
         /\ \A p \in mover.pairs : ~Names(Dir(d), r, p)
<1>1. d \in Path /\ t \in There(origin) /\ ~Ambiguous(d, r, t)
      /\ t = Reads(Dir(d), r, There(origin))
  BY DEF Refers, There
<1>2. IsPath(t) /\ Dir(d) \in Seq(STRING) /\ t \in There(files) /\ t \notin mover.pairs
  BY <1>1, PathIs, PairsAre DEF There
<1>3. \A p \in mover.pairs : ~Names(Dir(d), r, p)
  BY <1>2, PairsAre, NamesOne
<1>4. CASE r.place = "body"
  BY <1>1, <1>3, <1>4 DEF Reads
<1>5. CASE r.place # "body"
  <2>1. t = r.segs \/ (~r.slash /\ t = Resolved(Dir(d), r.segs))
    BY <1>2, <1>5, NamesReading
  <2>2. ~r.slash => ~TwoReadings(d, r.segs)
    BY <1>1, <1>5 DEF Ambiguous
  <2> QED  BY <1>2, <1>3, <1>5, <2>1, <2>2 DEF TwoReadings, Reads
<1> QED  BY <1>3, <1>4, <1>5

\* A document that stays is made to refer to where the other one went.
LEMMA RestMoves ==
  ASSUME Underway, NEW d \in There(origin), NEW t, NEW r, Refers(d, r, t),
         Moved(mover.req, d) = d, Moved(mover.req, t) # t
  PROVE  LET q == Redirected(r, Dir(d), Moved(mover.req, t)) IN
         /\ Reads(Dir(d), q, There(files)) = Moved(mover.req, t)
         /\ \A p \in mover.pairs : ~Names(Dir(d), q, p)
<1> DEFINE tt == Moved(mover.req, t)
           q == Redirected(r, Dir(d), tt)
<1>1. d \in Path /\ t \in There(origin) /\ ~Ambiguous(d, r, t)
  BY DEF Refers, There
<1>2. /\ tt \in Path /\ tt \in There(files) /\ tt # t /\ t \in mover.pairs
      /\ \A p \in mover.pairs : p # tt /\ p \in There(origin) /\ p \in Path
  BY <1>1, PairsAre
<1>3. IsPath(tt) /\ Dir(d) \in Seq(STRING) /\ \A p \in mover.pairs : IsPath(p)
  BY <1>1, <1>2, PathIs
<1>4. CASE r.place = "body"
  BY <1>2, <1>3, <1>4, BodyReads DEF Redirected
<1>5. CASE r.place # "body"
  <2>1. q = InFront(tt)
    BY <1>5 DEF Redirected
  <2>2. ~TwoReadings(d, tt)
    BY <1>1, <1>2, <1>5 DEF Ambiguous
  <2> HIDE DEF q, tt
  <2>3. Reads(Dir(d), q, There(files)) = tt
    BY <1>2, <1>3, <2>1, FrontReads
  <2>4. ASSUME NEW p \in mover.pairs, Names(Dir(d), q, p)
        PROVE  FALSE
    <3>1. p = Resolved(Dir(d), tt)
      BY <1>2, <1>3, <2>1, <2>4, FrontReads
    <3> QED  BY <1>2, <2>2, <3>1 DEF TwoReadings
  <2> QED  BY <2>3, <2>4 DEF q, tt
<1> QED  BY <1>4, <1>5

\* The references of a document where it is now, its own rebased.
Own(d) ==
    LET dd == Moved(mover.req, d)
    IN IF dd = d THEN origin[d].refs
       ELSE RebaseLinks(origin[d].refs, Dir(d), Dir(dd), There(files))

\* A document that moved still refers to one that stayed.
LEMMA MovedFollows ==
  ASSUME Underway, NEW d \in There(origin), NEW t, NEW r, Refers(d, r, t),
         Moved(mover.req, d) # d, Moved(mover.req, t) = t,
         r.place = "body" \/ r.segs[1] \in {".", ".."}
  PROVE  \E q \in Own(d) :
            /\ Reads(Dir(Moved(mover.req, d)), q, There(files)) = t
            /\ \A p \in mover.pairs : ~Names(Dir(Moved(mover.req, d)), q, p)
<1> DEFINE dd == Moved(mover.req, d)
           old == Dir(d)
           new == Dir(dd)
           there == There(files)
           f(x) == LET at == Resolved(old, x.segs)
                   IN IF \/ old = new \/ x.slash \/ at \notin there
                         \/ x.place = "front" /\ x.segs[1] \notin {".", ".."}
                      THEN x
                      ELSE IF x.place = "body" THEN InBody(Relative(new, at)) ELSE InFront(at)
<1>1. /\ d \in Path /\ t \in There(origin) /\ ~Ambiguous(d, r, t) /\ r \in origin[d].refs
      /\ t = Reads(old, r, There(origin))
  BY DEF Refers, There
<1>2. /\ dd \in Path /\ t \in Path /\ t \in there /\ t \notin mover.pairs
      /\ \A p \in mover.pairs : p \in There(origin) /\ p \in Path
  BY <1>1, PairsAre
<1>3. /\ IsPath(t) /\ old \in Seq(STRING) /\ new \in Seq(STRING)
      /\ \A p \in mover.pairs : IsPath(p)
  BY <1>1, <1>2, PathIs
<1>4. f(r) \in Own(d)
  BY <1>1 DEF Own, RebaseLinks
<1>5. CASE r.place = "body" /\ (r.slash \/ old = new)
  <2>1. f(r) = r
    BY <1>5
  <2>2. Reads(new, r, there) = t /\ \A p : Names(new, r, p) <=> p = t
    BY <1>1, <1>5 DEF Reads, Names, Href
  <2> HIDE DEF f
  <2> QED  BY <1>2, <1>4, <2>1, <2>2
<1>6. CASE r.place = "body" /\ ~r.slash /\ old # new
  <2>1. Resolved(old, r.segs) = t
    BY <1>1, <1>6 DEF Reads, Href
  <2>2. f(r) = InBody(Relative(new, t))
    BY <1>2, <1>6, <2>1
  <2> HIDE DEF f, old, new
  <2> QED  BY <1>2, <1>3, <1>4, <2>2, BodyReads DEF new
<1>7. CASE r.place # "body"
  <2>1. r.segs[1] \in {".", ".."}
    BY <1>7
  <2>2. r.segs \notin Path
    <3>1. SUFFICES ASSUME r.segs \in Path
                   PROVE  FALSE
      OBVIOUS
    <3>2. IsPath(r.segs)
      BY <3>1, PathIs
    <3>3. 1 \in DOMAIN r.segs
      BY <3>2 DEF IsPath
    <3> QED  BY <2>1, <3>2, <3>3 DEF IsPath
  <2>3. There(origin) \subseteq Path /\ there \subseteq Path
    BY DEF There
  <2>4. ~r.slash /\ Resolved(old, r.segs) = t /\ r.segs \notin there
    BY <1>1, <1>7, <2>2, <2>3 DEF Reads
  <2>5. CASE old = new
    <3>1. f(r) = r
      BY <2>5
    <3>2. Reads(new, r, there) = t
      BY <1>2, <1>7, <2>4, <2>5 DEF Reads
    <3>3. ASSUME NEW p \in mover.pairs, Names(new, r, p)
          PROVE  FALSE
      <4>1. p = r.segs \/ p = Resolved(new, r.segs)
        BY <1>3, <1>7, <3>3, NamesReading
      <4> QED  BY <1>2, <2>2, <2>4, <2>5, <4>1
    <3> HIDE DEF f, old, new
    <3> QED  BY <1>4, <3>1, <3>2, <3>3 DEF new
  <2>6. CASE old # new
    <3>1. f(r) = InFront(t)
      BY <1>2, <1>7, <2>1, <2>4, <2>6
    <3>2. Reads(new, InFront(t), there) = t
      BY <1>2, <1>3, FrontReads
    <3>3. ~TwoReadings(dd, t)
      BY <1>1, <1>7 DEF Ambiguous
    <3>4. ASSUME NEW p \in mover.pairs, Names(new, InFront(t), p)
          PROVE  FALSE
      <4>1. p = t \/ p = Resolved(new, t)
        BY <1>2, <1>3, <3>4, FrontReads
      <4> QED  BY <1>1, <1>2, <3>3, <4>1 DEF TwoReadings
    <3> HIDE DEF f, old, new
    <3> QED  BY <1>4, <3>1, <3>2, <3>4 DEF new
  <2> QED  BY <2>5, <2>6
<1> QED  BY <1>5, <1>6, <1>7

(* The links of the branch while a move is under way *)

\* What a move still has before it, and has done.
InTurn == {"own", "rebase", "next", "rewrite"}

Waits(d) ==
    \/ Moved(mover.req, d) \in mover.todo
    \/ mover.pc = "rewrite" /\ mover.doc = Moved(mover.req, d)

\* The references of d until it is rewritten.
Before(d) == IF mover.req.folder \/ mover.pc \in {"own", "rebase"} THEN origin[d].refs ELSE Own(d)

\* Its references when every pair has been applied to it.
Final(d) == Rewritten(Own(d), Moved(mover.req, d))

\* A document is as it was while it waits, or because it names nothing that
\* moved, and else it has been rewritten.
NamesNone(d) ==
    /\ ~mover.req.folder
    /\ d # mover.req.from => \A r \in origin[d].refs : ~Names(Dir(d), r, mover.req.from)

Progress(d) ==
    LET now == files[Moved(mover.req, d)].refs
    IN \/ now = Before(d) /\ (Waits(d) \/ NamesNone(d))
       \/ /\ now = Final(d)
          /\ ~Waits(d) /\ mover.pc \in {"next", "rewrite"}

Links ==
    /\ mover.pc = "move" =>
          /\ files = origin /\ mover.req \in Requests /\ mover.req.from # mover.req.to
          /\ mover.pairs = PairsOf(origin, mover.req)
    /\ mover.pc = "look" =>
          Underway /\ \A d \in There(origin) : files[Moved(mover.req, d)].refs = origin[d].refs
    /\ mover.pc \in InTurn =>
          /\ Underway /\ mover.there = There(files) /\ mover.todo \subseteq There(files)
          /\ \A d \in There(origin) : Progress(d)
    /\ mover.pc \in {"own", "rebase"} => ~mover.req.folder
    /\ mover.pc = "rebase" => mover.doc = mover.req.to
    /\ mover.pc = "rewrite" => mover.doc \notin mover.todo
    /\ mover.pc \in {"rebase", "rewrite"} =>
          mover.doc \in There(files) /\ mover.read = files[mover.doc]
    /\ mover.pc = "done" => RestReaches /\ MovedReachRest

\* What was there is there, under the path the move takes it to.
LEMMA ThereAfter ==
  ASSUME NEW fs, NEW req \in Requests, Movable(fs, req)
  PROVE  There(Renamed(fs, req)) = {Moved(req, d) : d \in There(fs)}
<1> DEFINE after == Renamed(fs, req)
<1>1. ASSUME NEW d \in There(fs)
      PROVE  Moved(req, d) \in There(after)
  <2>1. Moved(req, d) \in Path /\ after[Moved(req, d)] = fs[d]
    BY RenamedIs
  <2> HIDE DEF after
  <2> QED  BY <2>1 DEF There
<1>2. ASSUME NEW p \in There(after)
      PROVE  \E d \in There(fs) : p = Moved(req, d)
  <2> DEFINE from == {q \in There(fs) : Moved(req, q) = p}
  <2>1. p \in Path /\ after[p] # None
    BY DEF There
  <2>2. after[p] = IF from = {} THEN None ELSE fs[CHOOSE q \in from : TRUE]
    BY <2>1 DEF Renamed
  <2> HIDE DEF from, after
  <2>3. from # {}
    BY <2>1, <2>2
  <2> QED  BY <2>3 DEF from
<1> HIDE DEF after
<1> QED  BY <1>1, <1>2 DEF after

\* The rewriting depends on the request and its pairs alone.
RewrittenFor(set, req, refs, d) ==
    LET pairs == SetToSeq(set)
        next[i \in 0..Len(pairs)] ==
            IF i = 0 THEN refs
            ELSE RewriteRefs(next[i - 1], Dir(d), pairs[i], Moved(req, pairs[i]))
    IN next[Len(pairs)]

\* A step that changes neither the request nor which files there are.
SameMove ==
    /\ mover'.req = mover.req /\ mover'.pairs = mover.pairs
    /\ origin' = origin /\ There(files)' = There(files)

\* It changes nothing that the rewriting is about.
LEMMA SameMoveKeeps ==
  ASSUME SameMove
  PROVE  /\ Underway => Underway'
         /\ \A d : /\ Own(d)' = Own(d) /\ Final(d)' = Final(d)
                   /\ NamesNone(d)' <=> NamesNone(d)
<1>1. Underway => Underway'
  BY DEF SameMove, Underway
<1>2. ASSUME NEW d
      PROVE  Own(d)' = Own(d) /\ (NamesNone(d)' <=> NamesNone(d))
  BY DEF SameMove, Own, NamesNone
<1>3. ASSUME NEW d
      PROVE  Final(d)' = Final(d)
  <2>1. Final(d) = RewrittenFor(mover.pairs, mover.req, Own(d), Moved(mover.req, d))
    BY Zenon DEF Final, Rewritten, RewrittenFor
  <2>2. Final(d)' = RewrittenFor(mover'.pairs, mover'.req, Own(d)', Moved(mover'.req, d))
    BY Zenon DEF Final, Rewritten, RewrittenFor
  <2> QED  BY <1>2, <2>1, <2>2 DEF SameMove
<1> QED  BY <1>1, <1>2, <1>3

\* A document is rebased from where it was.
LEMMA RebasedIs ==
  ASSUME Underway, mover.there = There(files), NEW d \in There(origin),
         mover.read.refs = origin[d].refs
  PROVE  Rebased(Moved(mover.req, d)) = Own(d)
<1> DEFINE dd == Moved(mover.req, d)
<1>1. mover.req \in Requests /\ Movable(origin, mover.req) /\ mover.pairs \subseteq There(origin)
      /\ (d \in mover.pairs <=> dd # d)
  BY PairsAre DEF Underway
<1>2. \A p \in mover.pairs : Moved(mover.req, p) = dd => p = d
  BY <1>1, MovesApart
<1>3. CASE d \in mover.pairs
  <2>1. OldOf(dd) = d
    <3> HIDE DEF dd
    <3>1. Moved(mover.req, d) = dd
      BY DEF dd
    <3> QED  BY <1>2, <1>3, <3>1 DEF OldOf
  <2>2. dd \in {Moved(mover.req, p) : p \in mover.pairs}
    BY <1>3
  <2>3. dd # d
    BY <1>1, <1>3
  <2> QED  BY <2>1, <2>2, <2>3 DEF Rebased, Own
<1>4. CASE d \notin mover.pairs
  <2>1. dd = d /\ dd \notin {Moved(mover.req, p) : p \in mover.pairs}
    BY <1>1, <1>2, <1>4
  <2> QED  BY <2>1 DEF Rebased, Own
<1> QED  BY <1>3, <1>4

\* When nothing is left to rewrite, the links are kept.
LEMMA DoneLinks ==
  ASSUME Underway, mover.pc = "next", mover.todo = {}, \A d \in There(origin) : Progress(d)
  PROVE  RestReaches /\ MovedReachRest
<1>1. ASSUME NEW d \in There(origin)
      PROVE  /\ d \in Path /\ Moved(mover.req, d) \in There(files)
             /\ LET now == files[Moved(mover.req, d)].refs
                IN \/ now = Own(d) /\ NamesNone(d)
                   \/ now = Rewritten(Own(d), Moved(mover.req, d))
  <2>1. Progress(d) /\ ~Waits(d)
    BY DEF Waits
  <2>2. NamesNone(d) => Before(d) = Own(d)
    BY DEF NamesNone, Before
  <2> QED  BY <2>1, <2>2, PairsAre DEF Progress, Final
<1>2. IsFiniteSet(mover.pairs) /\ mover.pairs \subseteq There(origin)
      /\ \A p \in There(origin) : p \in mover.pairs <=> Moved(mover.req, p) # p
  BY PairsAre
<1>3. ASSUME NEW d \in There(origin), NEW t \in There(origin), NEW r \in origin[d].refs,
             Moved(mover.req, d) = d, Refers(d, r, t), Names(Dir(d), r, t)
      PROVE  Follows(d, t)
  <2> DEFINE tt == Moved(mover.req, t)
             now == files[d].refs
  <2>1. Own(d) = origin[d].refs
    BY <1>3 DEF Own
  <2>2. tt \in There(files) /\ d \in There(files)
    BY <1>1, <1>3
  <2>3. SUFFICES \E q \in now : Reads(Dir(d), q, There(files)) = tt
    BY <1>3, <2>2 DEF Follows, Targets
  <2>4. (now = origin[d].refs /\ NamesNone(d)) \/ now = Rewritten(origin[d].refs, d)
    BY <1>1, <1>3, <2>1
  <2>5. CASE tt = t
    <3>1. Reads(Dir(d), r, There(files)) = tt /\ \A p \in mover.pairs : ~Names(Dir(d), r, p)
      BY <1>3, <2>5, RestStays
    <3>2. now = Rewritten(origin[d].refs, d) => r \in now
      BY <1>2, <3>1, UnnamedStays
    <3> QED  BY <2>4, <3>1, <3>2
  <2>6. CASE tt # t
    <3>1. t \in mover.pairs /\ d \notin mover.pairs
      BY <1>2, <1>3, <2>6
    <3>2. ~NamesNone(d)
      <4>1. SUFFICES ASSUME ~mover.req.folder
                     PROVE  t = mover.req.from /\ d # mover.req.from
        BY <1>3 DEF NamesNone
      <4>2. mover.pairs = {mover.req.from}
        BY <4>1 DEF Underway, PairsOf
      <4> QED  BY <3>1, <4>2
    <3> DEFINE q == Redirected(r, Dir(d), tt)
    <3>3. Reads(Dir(d), q, There(files)) = tt /\ \A p \in mover.pairs : ~Names(Dir(d), q, p)
      BY <1>3, <2>6, RestMoves
    <3>4. \A p \in mover.pairs : Names(Dir(d), r, p) => p = t
      BY <1>2, <1>3, NamesOne
    <3>5. q \in Rewritten(origin[d].refs, d)
      BY <1>2, <1>3, <3>1, <3>3, <3>4, NamedFollows
    <3> HIDE DEF q, tt
    <3> QED  BY <2>4, <3>2, <3>3, <3>5
  <2> QED  BY <2>5, <2>6
<1>4. ASSUME NEW d \in There(origin), NEW t \in There(origin), NEW r \in origin[d].refs,
             Moved(mover.req, d) # d, Moved(mover.req, t) = t, Refers(d, r, t),
             r.place = "body" \/ r.segs[1] \in {".", ".."}
      PROVE  Follows(d, t)
  <2> DEFINE dd == Moved(mover.req, d)
             now == files[dd].refs
  <2>1. t \in There(files) /\ dd \in There(files)
    BY <1>1, <1>4
  <2>2. PICK q \in Own(d) : Reads(Dir(dd), q, There(files)) = t
                            /\ \A p \in mover.pairs : ~Names(Dir(dd), q, p)
    BY <1>4, MovedFollows
  <2>3. now = Own(d) \/ now = Rewritten(Own(d), dd)
    BY <1>1
  <2>4. q \in Rewritten(Own(d), dd)
    BY <1>2, <2>2, UnnamedStays
  <2>5. q \in now
    BY <2>2, <2>3, <2>4
  <2> QED  BY <1>4, <2>1, <2>2, <2>5 DEF Follows, Targets
<1> QED  BY <1>3, <1>4 DEF RestReaches, MovedReachRest

LinksIInv == MovesIInv /\ (origin # NoFiles => Links)

\* A move that has stopped promises nothing.
LEMMA FailedLinks ==
  ASSUME Fails \/ mover' = [AtRest EXCEPT !.pc = "failed"]
  PROVE  Links'
<1>1. mover' = [AtRest EXCEPT !.pc = "failed"]
  BY DEF Fails
<1>2. mover'.pc = "failed"
  BY <1>1, AtRestIs DEF IsMover, Fields
<1> QED  BY <1>2 DEF Links, InTurn

\* A request is about the files as they are.
LEMMA StartMoveLinks ==
  ASSUME NEW req \in Requests, StartMove(req)
  PROVE  Links'
<1> DEFINE pairs == PairsOf(files, req)
           new == [AtRest EXCEPT !.req = req, !.pc = "move", !.pairs = pairs]
<1>1. mover' = new /\ files' = files /\ origin' = files /\ req.from # req.to
  BY DEF StartMove, PairsOf
<1> HIDE DEF pairs
<1>2. new.pc = "move" /\ new.req = req /\ new.pairs = pairs
  BY AtRestIs DEF IsMover, Fields
<1> HIDE DEF new
<1>3. mover'.pc = "move" /\ mover'.req = req /\ mover'.pairs = PairsOf(files, req)
  BY <1>1, <1>2 DEF pairs
<1> QED  BY <1>1, <1>3 DEF Links, InTurn

\* The files are moved as they are.
LEMMA MoveFilesLinks ==
  ASSUME MovesIInv, Links, MoveFiles
  PROVE  Links'
<1> DEFINE req == mover.req
<1>1. mover.pc = "move" /\ files = origin /\ req \in Requests /\ req.from # req.to
      /\ mover.pairs = PairsOf(origin, req) /\ origin' = origin
  BY DEF MoveFiles, Links
<1>2. CASE Movable(files, req) /\ files' = Renamed(files, req)
           /\ mover' = [mover EXCEPT !.pc = "look"]
  <2> DEFINE new == [mover EXCEPT !.pc = "look"]
  <2>1. IsMover(mover)
    BY DEF MovesIInv, MoverOK
  <2>2. new.pc = "look" /\ new.req = req /\ new.pairs = mover.pairs
    BY <2>1 DEF IsMover, Fields
  <2> HIDE DEF new
  <2>3. mover'.pc = "look" /\ mover'.req = req /\ mover'.pairs = mover.pairs
    BY <1>2, <2>2 DEF new
  <2>4. There(files)' = {Moved(req, d) : d \in There(origin)}
    <3>1. There(Renamed(files, req)) = {Moved(req, d) : d \in There(files)}
      BY <1>1, <1>2, ThereAfter
    <3>2. There(files)' = There(Renamed(files, req))
      BY <1>2 DEF There
    <3> QED  BY <1>1, <3>1, <3>2
  <2>5. \A d \in There(origin) : files'[Moved(req, d)] = origin[d]
    BY <1>1, <1>2, RenamedIs
  <2> HIDE DEF req
  <2>6. Underway'
    BY <1>1, <1>2, <2>3, <2>4 DEF Underway
  <2>7. (\A d \in There(origin) : files[Moved(mover.req, d)].refs = origin[d].refs)'
    BY <1>1, <2>3, <2>5
  <2> QED  BY <2>3, <2>6, <2>7 DEF Links, InTurn
<1> QED  BY <1>2, FailedLinks DEF MoveFiles

\* What is listed for rewriting is all that names what moved.
LEMMA LookLinks ==
  ASSUME MovesIInv, Links, Look
  PROVE  Links'
<1> DEFINE req == mover.req
           pc == IF req.folder THEN "next" ELSE "own"
           todo == IF req.folder THEN There(files) ELSE Referencing(files, req.from)
<1>1. mover.pc = "look" /\ Underway /\ origin' = origin /\ files' = files
      /\ \A d \in There(origin) : files[Moved(req, d)].refs = origin[d].refs
  BY DEF Look, Links
<1>2. mover' = [mover EXCEPT !.pc = pc, !.there = There(files), !.todo = todo]
  BY DEF Look
<1> HIDE DEF pc, todo, req
<1>3. /\ mover'.pc = pc /\ mover'.req = req /\ mover'.pairs = mover.pairs
      /\ mover'.there = There(files) /\ mover'.todo = todo
  <2> DEFINE there == There(files)
             new == [mover EXCEPT !.pc = pc, !.there = there, !.todo = todo]
  <2>1. IsMover(mover)
    BY DEF MovesIInv, MoverOK
  <2> HIDE DEF there
  <2>2. /\ new.pc = pc /\ new.req = mover.req /\ new.pairs = mover.pairs
        /\ new.there = there /\ new.todo = todo
    BY <2>1 DEF IsMover, Fields
  <2> HIDE DEF new
  <2> QED  BY <1>2, <2>2 DEF new, there, req
<1>4. SameMove
  BY <1>1, <1>3 DEF SameMove, req, There
<1>5. Underway'
  BY <1>1, <1>4, SameMoveKeeps
<1>6. \/ pc = "next" /\ req.folder /\ todo = There(files)
      \/ pc = "own" /\ ~req.folder /\ todo = Referencing(files, req.from)
  <2>1. CASE req.folder
    <3>1. pc = "next"
      BY <2>1 DEF pc
    <3>2. todo = There(files)
      BY <2>1 DEF todo
    <3> QED  BY <2>1, <3>1, <3>2
  <2>2. CASE ~req.folder
    <3>1. pc = "own"
      BY <2>2 DEF pc
    <3>2. todo = Referencing(files, req.from)
      BY <2>2 DEF todo
    <3> QED  BY <2>2, <3>1, <3>2
  <2> QED  BY <2>1, <2>2
<1>7. todo \subseteq There(files)
  BY <1>6 DEF Referencing
<1>8. ASSUME NEW d \in There(origin)
      PROVE  Progress(d)'
  <2>1. files'[Moved(mover'.req, d)].refs = origin'[d].refs
    BY <1>1, <1>3
  <2>2. Before(d)' = origin'[d].refs
    BY <1>3, <1>6 DEF Before
  <2>3. CASE req.folder
    <3>1. Moved(req, d) \in There(files)
      BY <1>1, PairsAre DEF req
    <3>2. Waits(d)'
      BY <1>3, <1>6, <2>3, <3>1 DEF Waits
    <3> QED  BY <2>1, <2>2, <3>2 DEF Progress
  <2>4. CASE ~req.folder /\ d = req.from
    <3>1. NamesNone(d)'
      BY <1>3, <2>4 DEF NamesNone
    <3> QED  BY <2>1, <2>2, <3>1 DEF Progress
  <2>5. CASE ~req.folder /\ d # req.from
    <3>1. Moved(req, d) = d /\ d \in There(files)
      BY <1>1, <2>5, PairsAre DEF req, Moved
    <3>2. files[d].refs = origin[d].refs
      BY <1>1, <3>1
    <3>3. CASE d \in todo
      <4>1. Waits(d)'
        BY <1>3, <3>1, <3>3 DEF Waits
      <4> QED  BY <2>1, <2>2, <4>1 DEF Progress
    <3>4. CASE d \notin todo
      <4>1. \A r \in origin[d].refs : ~Names(Dir(d), r, req.from)
        BY <1>6, <2>5, <3>1, <3>2, <3>4 DEF Referencing
      <4>2. NamesNone(d)'
        BY <1>1, <1>3, <2>5, <4>1 DEF NamesNone
      <4> QED  BY <2>1, <2>2, <4>2 DEF Progress
    <3> QED  BY <3>3, <3>4
  <2> QED  BY <2>3, <2>4, <2>5
<1>9. (/\ Underway /\ mover.there = There(files) /\ mover.todo \subseteq There(files)
       /\ \A d \in There(origin) : Progress(d))'
  BY <1>1, <1>3, <1>5, <1>7, <1>8 DEF There
<1> QED  BY <1>3, <1>6, <1>9 DEF Links, InTurn

\* The document that moved is read where it is now.
LEMMA OwnReadLinks ==
  ASSUME MovesIInv, Links, OwnRead
  PROVE  Links'
<1> DEFINE to == mover.req.to
           pc == IF to \in There(files) THEN "rebase" ELSE "next"
           new == [mover EXCEPT !.pc = pc, !.doc = to, !.read = files[to]]
<1>1. /\ mover.pc = "own" /\ Underway /\ mover.there = There(files)
      /\ mover.todo \subseteq There(files) /\ ~mover.req.folder
      /\ (\A d \in There(origin) : Progress(d))
      /\ files' = files /\ origin' = origin /\ mover' = new
  BY DEF OwnRead, Links, InTurn
<1>2. to \in There(files)
  <2>1. mover.req.from \in There(origin) /\ Moved(mover.req, mover.req.from) = to
    BY <1>1 DEF Underway, Movable, Moved
  <2> QED  BY <1>1, <2>1, PairsAre
<1>3. pc = "rebase" /\ IsMover(mover)
  BY <1>2 DEF MovesIInv, MoverOK
<1> HIDE DEF pc
<1>4. /\ new.pc = "rebase" /\ new.req = mover.req /\ new.pairs = mover.pairs
      /\ new.there = mover.there /\ new.todo = mover.todo /\ new.doc = to /\ new.read = files[to]
  BY <1>3 DEF IsMover, Fields
<1> HIDE DEF new
<1>5. /\ mover'.pc = "rebase" /\ mover'.req = mover.req /\ mover'.pairs = mover.pairs
      /\ mover'.there = mover.there /\ mover'.todo = mover.todo
      /\ mover'.doc = to /\ mover'.read = files[to]
  BY <1>1, <1>4
<1>6. SameMove /\ Underway'
  <2>1. SameMove
    BY <1>1, <1>5 DEF SameMove, There
  <2> QED  BY <1>1, <2>1, SameMoveKeeps
<1>7. ASSUME NEW d \in There(origin)
      PROVE  Progress(d)'
  <2>1. files[Moved(mover.req, d)].refs = origin[d].refs /\ (Waits(d) \/ NamesNone(d))
    BY <1>1 DEF Progress, Before
  <2>2. Before(d)' = origin[d].refs /\ (Waits(d) => Waits(d)') /\ (NamesNone(d)' <=> NamesNone(d))
    BY <1>1, <1>5, <1>6, SameMoveKeeps DEF Before, Waits
  <2>3. files'[Moved(mover'.req, d)].refs = origin[d].refs
    BY <1>1, <1>5, <2>1
  <2> QED  BY <2>1, <2>2, <2>3 DEF Progress
<1>8. (/\ Underway /\ mover.there = There(files) /\ mover.todo \subseteq There(files)
       /\ \A d \in There(origin) : Progress(d))'
  BY <1>1, <1>5, <1>6, <1>7 DEF There
<1>9. (~mover.req.folder /\ mover.doc = mover.req.to
       /\ mover.doc \in There(files) /\ mover.read = files[mover.doc])'
  BY <1>1, <1>2, <1>5 DEF There
<1> QED  BY <1>5, <1>8, <1>9 DEF Links, InTurn

\* The next document is read, or there is none.
LEMMA NextDocLinks ==
  ASSUME MovesIInv, Links, NextDoc
  PROVE  Links'
<1>1. /\ mover.pc = "next" /\ Underway /\ mover.there = There(files)
      /\ mover.todo \subseteq There(files)
      /\ (\A d \in There(origin) : Progress(d))
      /\ files' = files /\ origin' = origin /\ IsMover(mover)
  BY DEF NextDoc, Links, InTurn, MovesIInv, MoverOK
<1>2. CASE mover' = [AtRest EXCEPT !.pc = "failed"]
  BY <1>2, FailedLinks
<1>3. CASE mover.todo = {} /\ mover' = [AtRest EXCEPT !.pc = "done", !.req = mover.req]
  <2> DEFINE new == [AtRest EXCEPT !.pc = "done", !.req = mover.req]
  <2>1. new.pc = "done" /\ new.req = mover.req
    BY AtRestIs DEF IsMover, Fields
  <2> HIDE DEF new
  <2>2. mover'.pc = "done" /\ mover'.req = mover.req
    BY <1>3, <2>1 DEF new
  <2>3. RestReaches /\ MovedReachRest
    BY <1>1, <1>3, DoneLinks
  <2>4. \A d, t : Follows(d, t)' = Follows(d, t)
    BY <1>1, <2>2 DEF Follows, Targets, There
  <2>5. \A d, r, t : Refers(d, r, t)' = Refers(d, r, t)
    BY <1>1, <2>2 DEF Refers, Ambiguous, TwoReadings, There
  <2>6. There(origin)' = There(origin)
    BY <1>1 DEF There
  <2>7. RestReaches'
    BY <1>1, <2>2, <2>3, <2>4, <2>5, <2>6 DEF RestReaches
  <2>8. MovedReachRest'
    BY <1>1, <2>2, <2>3, <2>4, <2>5, <2>6 DEF MovedReachRest
  <2> QED  BY <2>2, <2>7, <2>8 DEF Links, InTurn
<1>4. ASSUME NEW e \in mover.todo,
             mover' = [mover EXCEPT !.pc = "rewrite", !.todo = @ \ {e},
                                    !.doc = e, !.read = files[e]]
      PROVE  Links'
  <2> DEFINE todo == mover.todo \ {e}
             new == [mover EXCEPT !.pc = "rewrite", !.todo = todo, !.doc = e, !.read = files[e]]
  <2>1. mover' = new
    BY <1>1, <1>4 DEF IsMover
  <2> HIDE DEF todo
  <2>2. /\ new.pc = "rewrite" /\ new.req = mover.req /\ new.pairs = mover.pairs
        /\ new.there = mover.there /\ new.todo = todo /\ new.doc = e /\ new.read = files[e]
    BY <1>1 DEF IsMover, Fields
  <2> HIDE DEF new
  <2>3. /\ mover'.pc = "rewrite" /\ mover'.req = mover.req /\ mover'.pairs = mover.pairs
        /\ mover'.there = mover.there /\ mover'.todo = mover.todo \ {e}
        /\ mover'.doc = e /\ mover'.read = files[e]
    BY <2>1, <2>2 DEF todo
  <2>4. SameMove /\ Underway'
    <3>1. SameMove
      BY <1>1, <2>3 DEF SameMove, There
    <3> QED  BY <1>1, <3>1, SameMoveKeeps
  <2>5. ASSUME NEW d \in There(origin)
        PROVE  Progress(d)'
    <3> DEFINE dd == Moved(mover.req, d)
               now == files[dd].refs
    <3>1. /\ Before(d)' = Before(d) /\ (NamesNone(d)' <=> NamesNone(d)) /\ (Waits(d)' <=> Waits(d))
          /\ Final(d)' = Final(d)
      <4>1. Own(d)' = Own(d) /\ Final(d)' = Final(d) /\ (NamesNone(d)' <=> NamesNone(d))
        BY <2>4, SameMoveKeeps
      <4>2. Before(d)' = Before(d)
        BY <1>1, <2>3, <4>1 DEF Before
      <4>3. Waits(d)' <=> Waits(d)
        BY <1>1, <1>4, <2>3 DEF Waits
      <4> QED  BY <4>1, <4>2, <4>3
    <3>2. files'[Moved(mover'.req, d)].refs = now
      BY <1>1, <2>3
    <3>3. Progress(d)
      BY <1>1
    <3> QED  BY <2>3, <3>1, <3>2, <3>3 DEF Progress
  <2>6. (/\ Underway /\ mover.there = There(files) /\ mover.todo \subseteq There(files)
         /\ \A d \in There(origin) : Progress(d))'
    BY <1>1, <2>3, <2>4, <2>5 DEF There
  <2>7. (/\ mover.doc \in There(files) /\ mover.read = files[mover.doc]
         /\ mover.doc \notin mover.todo)'
    BY <1>1, <1>4, <2>3 DEF There
  <2> QED  BY <2>3, <2>6, <2>7 DEF Links, InTurn
<1> QED  BY <1>2, <1>3, <1>4 DEF NextDoc

\* A save that goes through writes these references and nothing else.
LEMMA WrittenDoes ==
  ASSUME MovesIInv, mover.pc \in {"rebase", "rewrite"}, mover.doc \in There(files),
         mover.read = files[mover.doc], origin' = origin, NEW refs, Written(refs)
  PROVE  \/ Fails
         \/ /\ SameMove /\ mover'.pc = "next" /\ mover'.there = mover.there
            /\ mover'.todo = mover.todo
            /\ \A p \in There(files) :
                  files'[p].refs = IF p = mover.doc THEN refs ELSE files[p].refs
<1>1. IsMover(mover) /\ mover.read # None /\ WorktreeOK(files)
  BY DEF MovesIInv, MoverOK
<1>2. CASE mover' = [mover EXCEPT !.pc = "next", !.read = None]
           /\ \/ refs = mover.read.refs /\ files' = files
              \/ Saves(mover.doc, [mover.read EXCEPT !.refs = refs])
  <2> DEFINE new == [mover EXCEPT !.pc = "next", !.read = None]
  <2>1. /\ new.pc = "next" /\ new.req = mover.req /\ new.pairs = mover.pairs
        /\ new.there = mover.there /\ new.todo = mover.todo
    BY <1>1 DEF IsMover, Fields
  <2> HIDE DEF new
  <2>2. /\ mover'.pc = "next" /\ mover'.req = mover.req /\ mover'.pairs = mover.pairs
        /\ mover'.there = mover.there /\ mover'.todo = mover.todo
    BY <1>2, <2>1 DEF new
  <2>3. CASE refs = mover.read.refs /\ files' = files
    <3>1. There(files)' = There(files)
      BY <2>3 DEF There
    <3> QED  BY <2>2, <2>3, <3>1 DEF SameMove
  <2>4. CASE Saves(mover.doc, [mover.read EXCEPT !.refs = refs])
    <3> DEFINE doc == [mover.read EXCEPT !.refs = refs]
    <3>1. files' = [files EXCEPT ![mover.doc] = doc] /\ mover.doc \in Path
      BY <2>4 DEF Saves, There
    <3>2. IsDoc(mover.read) /\ mover.read.text # "none"
      BY <1>1, <3>1 DEF WorktreeOK
    <3>3. doc.refs = refs /\ doc.text = mover.read.text
      BY <3>2 DEF IsDoc
    <3>4. doc # None
      BY <3>2, <3>3, NoneIs
    <3> HIDE DEF doc
    <3>5. \A p \in Path : files'[p] = IF p = mover.doc THEN doc ELSE files[p]
      BY <1>1, <3>1 DEF WorktreeOK
    <3>6. There(files)' = There(files)
      BY <3>4, <3>5 DEF There
    <3>7. \A p \in There(files) :
             files'[p].refs = IF p = mover.doc THEN refs ELSE files[p].refs
      BY <3>3, <3>5 DEF There
    <3> QED  BY <1>2, <2>2, <3>6, <3>7 DEF SameMove
  <2> QED  BY <1>2, <2>3, <2>4
<1> QED  BY <1>2 DEF Written

\* The document that moved is saved with its own links rebased.
LEMMA OwnSaveLinks ==
  ASSUME MovesIInv, Links, OwnSave
  PROVE  Links'
<1>1. /\ mover.pc = "rebase" /\ Underway /\ mover.there = There(files)
      /\ mover.todo \subseteq There(files) /\ ~mover.req.folder
      /\ (\A d \in There(origin) : Progress(d))
      /\ mover.doc \in There(files) /\ mover.read = files[mover.doc]
      /\ mover.doc = mover.req.to /\ origin' = origin
  BY DEF OwnSave, Links, InTurn
<1> DEFINE from == mover.req.from
<1>2. from \in There(origin) /\ Moved(mover.req, from) = mover.doc
      /\ \A d : d # from => Moved(mover.req, d) = d
  BY <1>1 DEF Underway, Movable, Moved
<1>3. \A d \in There(origin) : /\ files[Moved(mover.req, d)].refs = origin[d].refs
                               /\ Waits(d) \/ NamesNone(d)
  BY <1>1 DEF Progress, Before
<1> HIDE DEF from
<1>4. Rebased(mover.doc) = Own(from)
  BY <1>1, <1>2, <1>3, RebasedIs
<1>5. Written(Own(from))
  BY <1>4 DEF OwnSave
<1>6. CASE Fails
  BY <1>6, FailedLinks
<1>7. CASE /\ SameMove /\ mover'.pc = "next" /\ mover'.there = mover.there
           /\ mover'.todo = mover.todo
           /\ \A p \in There(files) :
                 files'[p].refs = IF p = mover.doc THEN Own(from) ELSE files[p].refs
  <2>1. Underway' /\ mover'.req = mover.req /\ There(origin)' = There(origin)
        /\ There(files)' = There(files)
    BY <1>1, <1>7, SameMoveKeeps DEF SameMove, There
  <2>2. ASSUME NEW d \in There(origin)
        PROVE  Progress(d)'
    <3> DEFINE dd == Moved(mover.req, d)
    <3>1. Own(d)' = Own(d) /\ (NamesNone(d)' <=> NamesNone(d)) /\ (Waits(d) => Waits(d)')
      BY <1>1, <1>7, <2>1, SameMoveKeeps DEF Waits
    <3>2. Before(d)' = Own(d)
      BY <1>1, <1>7, <2>1, <3>1 DEF Before
    <3>3. dd \in There(files)
      BY <1>1, PairsAre
    <3>4. files'[dd].refs = Own(d)
      <4>1. CASE d = from
        BY <1>2, <1>7, <3>3, <4>1
      <4>2. CASE d # from
        <5>1. dd = d /\ dd # mover.doc
          <6>1. dd = d
            BY <1>2, <4>2
          <6>2. mover.doc \notin There(origin)
            BY <1>1 DEF Underway, Movable
          <6> QED  BY <6>1, <6>2
        <5>2. Own(d) = origin[d].refs
          BY <5>1 DEF Own
        <5> QED  BY <1>3, <1>7, <3>3, <5>1, <5>2
      <4> QED  BY <4>1, <4>2
    <3>5. files'[Moved(mover'.req, d)].refs = Own(d)
      BY <2>1, <3>4
    <3> QED  BY <1>3, <3>1, <3>2, <3>5 DEF Progress
  <2>3. (/\ Underway /\ mover.there = There(files) /\ mover.todo \subseteq There(files)
         /\ \A d \in There(origin) : Progress(d))'
    BY <1>1, <1>7, <2>1, <2>2
  <2> QED  BY <1>7, <2>3 DEF Links, InTurn
<1> QED  BY <1>1, <1>5, <1>6, <1>7, WrittenDoes

\* A document that refers to what moved is saved with that rewritten.
LEMMA SaveDocLinks ==
  ASSUME MovesIInv, Links, SaveDoc
  PROVE  Links'
<1>1. /\ mover.pc = "rewrite" /\ Underway /\ mover.there = There(files)
      /\ mover.todo \subseteq There(files) /\ mover.doc \notin mover.todo
      /\ (\A d \in There(origin) : Progress(d))
      /\ mover.doc \in There(files) /\ mover.read = files[mover.doc] /\ origin' = origin
  BY DEF SaveDoc, Links, InTurn
<1>2. PICK e \in There(origin) : mover.doc = Moved(mover.req, e)
  BY <1>1 DEF Underway
<1>3. mover.read.refs = Before(e)
  BY <1>1, <1>2 DEF Progress, Waits
<1>4. (IF mover.req.folder THEN Rebased(mover.doc) ELSE mover.read.refs) = Own(e)
  <2>1. CASE mover.req.folder
    BY <1>1, <1>2, <1>3, <2>1, RebasedIs DEF Before
  <2>2. CASE ~mover.req.folder
    BY <1>1, <1>3, <2>2 DEF Before
  <2> QED  BY <2>1, <2>2
<1>5. Written(Final(e))
  BY <1>2, <1>4 DEF SaveDoc, Final
<1>6. CASE Fails
  BY <1>6, FailedLinks
<1>7. CASE /\ SameMove /\ mover'.pc = "next" /\ mover'.there = mover.there
           /\ mover'.todo = mover.todo
           /\ \A p \in There(files) :
                 files'[p].refs = IF p = mover.doc THEN Final(e) ELSE files[p].refs
  <2>1. Underway' /\ mover'.req = mover.req /\ There(origin)' = There(origin)
        /\ There(files)' = There(files)
    BY <1>1, <1>7, SameMoveKeeps DEF SameMove, There
  <2>2. ASSUME NEW d \in There(origin)
        PROVE  Progress(d)'
    <3> DEFINE dd == Moved(mover.req, d)
    <3>1. /\ Own(d)' = Own(d) /\ Final(d)' = Final(d) /\ (NamesNone(d)' <=> NamesNone(d))
          /\ (Waits(d)' <=> dd \in mover.todo)
      BY <1>1, <1>7, <2>1, SameMoveKeeps DEF Waits
    <3>2. Before(d)' = Before(d)
      BY <1>1, <1>7, <2>1, <3>1 DEF Before
    <3>3. dd \in There(files)
      BY <1>1, PairsAre
    <3>4. CASE d = e
      <4>1. files'[Moved(mover'.req, d)].refs = Final(d) /\ ~Waits(d)'
        BY <1>1, <1>2, <1>7, <2>1, <3>1, <3>3, <3>4
      <4> QED  BY <1>7, <3>1, <4>1 DEF Progress
    <3>5. CASE d # e
      <4>1. dd # mover.doc
        BY <1>1, <1>2, <3>5, MovesApart DEF Underway
      <4>2. files'[Moved(mover'.req, d)].refs = files[dd].refs /\ (Waits(d)' <=> Waits(d))
        BY <1>1, <1>7, <2>1, <3>1, <3>3, <4>1 DEF Waits
      <4>3. Progress(d)
        BY <1>1
      <4> QED  BY <1>7, <3>1, <3>2, <4>2, <4>3 DEF Progress
    <3> QED  BY <3>4, <3>5
  <2>3. (/\ Underway /\ mover.there = There(files) /\ mover.todo \subseteq There(files)
         /\ \A d \in There(origin) : Progress(d))'
    BY <1>1, <1>7, <2>1, <2>2
  <2> QED  BY <1>7, <2>3 DEF Links, InTurn
<1> QED  BY <1>1, <1>5, <1>6, <1>7, WrittenDoes

\* Every step keeps the links' invariant; an edit ends the promise.
LEMMA StepLinks == LinksIInv /\ [MovesNext]_moves => LinksIInv'
<1> SUFFICES ASSUME LinksIInv, [MovesNext]_moves, origin' # NoFiles
             PROVE  Links'
  BY StepMoves DEF LinksIInv
<1>1. MovesIInv
  BY DEF LinksIInv
<1>2. ASSUME NEW req \in Requests, StartMove(req)
      PROVE  Links'
  BY <1>2, StartMoveLinks
<1>3. ASSUME NEW d \in Path, NEW doc, Edit(d, doc)
      PROVE  Links'
  BY <1>3 DEF Edit
<1>4. CASE Interrupted
  BY <1>4, FailedLinks DEF Interrupted
<1>5. CASE MoveFiles \/ Look \/ OwnRead \/ OwnSave \/ NextDoc \/ SaveDoc
  <2>1. Links
    BY <1>5 DEF LinksIInv, MoveFiles, Look, OwnRead, OwnSave, NextDoc, SaveDoc, NoFiles
  <2> QED  BY <1>1, <1>5, <2>1, MoveFilesLinks, LookLinks, OwnReadLinks, OwnSaveLinks,
              NextDocLinks, SaveDocLinks
<1>6. CASE UNCHANGED moves
  <2>1. Links
    BY <1>6 DEF LinksIInv, moves, NoFiles
  <2>2. mover' = mover /\ files' = files /\ origin' = origin
    BY <1>6 DEF moves
  <2>3. SameMove
    BY <2>2 DEF SameMove, There
  <2>4. /\ \A d : Own(d)' = Own(d) /\ Final(d)' = Final(d) /\ (NamesNone(d)' <=> NamesNone(d))
        /\ Underway => Underway'
    BY <2>3, SameMoveKeeps
  <2>5. \A d : Progress(d) => Progress(d)'
    BY <2>2, <2>4 DEF Progress, Before, Waits
  <2>6. (RestReaches => RestReaches') /\ (MovedReachRest => MovedReachRest')
    BY <2>2 DEF RestReaches, MovedReachRest, Refers, Follows, Ambiguous, TwoReadings,
                Targets, There
  <2>7. There(files)' = There(files) /\ There(origin)' = There(origin)
    BY <2>2 DEF There
  <2> QED  BY <2>1, <2>2, <2>4, <2>5, <2>6, <2>7 DEF Links, PairsOf
<1> QED  BY <1>2, <1>3, <1>4, <1>5, <1>6 DEF MovesNext

\* Where every document is on its way, at each step of a move.
THEOREM LinksInvariance == MovesSpec => []LinksIInv
<1>1. MovesInit => LinksIInv
  BY InitMoves DEF MovesInit, LinksIInv
<1> QED  BY <1>1, StepLinks, PTL DEF MovesSpec

\* After a move of a document or a folder that nobody disturbed, every document
\* that stayed refers to what it referred to, and those that moved to those
\* that stayed, in every repository.
THEOREM LinksAreKept == MovesSpec => []LinksFollow
<1>1. LinksIInv => LinksFollow
  BY DEF LinksIInv, Links, LinksFollow, Calm
<1> QED  BY <1>1, LinksInvariance, PTL

(* -------------------------------------------------------- the source cache *)

ReadPlaces == {"idle", "head", "look", "snapshot", "put", "done"}
History    == {h \in Seq(Commit) : Len(h) >= 1}
KeptEntry  == [source : Source, sha : Commit, content : Seq(Commit)]
ReadState  == [pc : ReadPlaces, source : Source \cup {""}, sha : Commit \cup {""},
               got : Seq(Commit), began : Nat]

\* What a reader holds is of its kind once it reads a source.
WellTyped(d) ==
    /\ d \in ReadState
    /\ d.pc # "idle" => d.source \in Source
    /\ d.pc \in {"look", "snapshot", "put"} => d.sha \in Commit

SourceTypes ==
    /\ heads \in [Source -> History]
    /\ kept \in Seq(KeptEntry)
    /\ \A r \in Reader : WellTyped(reader[r])
    /\ reader \in [Reader -> ReadState]

\* What is filed under a head is from no earlier than that head was first there.
FiledFrom(e, h) == \A k \in DOMAIN e.content : e.content[k] \in HeadsFrom(h, e.sha)

KeptOK == \A i \in DOMAIN kept : FiledFrom(kept[i], heads[kept[i].source])

\* A reader of a source with history h looks for a head the source has had since it
\* came, and what it reads after is at that head or at one that followed.
ReadOK(d, h) ==
    /\ d.pc # "idle" => d.began \in 1..Len(h)
    /\ d.pc \in {"head", "look"} => d.got = <<>>
    /\ d.pc \in {"look", "snapshot", "put"} => \E j \in d.began..Len(h) : h[j] = d.sha
    /\ d.pc \in {"snapshot", "put"} =>
          \A k \in DOMAIN d.got : d.got[k] \in HeadsSince(h, d.began) \cap HeadsFrom(h, d.sha)
    /\ d.pc = "done" =>
          \A k \in DOMAIN d.got :
              \/ d.got[k] \in HeadsSince(h, d.began)
              \/ CameBack(h, d.sha) /\ d.got[k] \in HeadsFrom(h, d.sha)

ReaderOK == \A r \in Reader : ReadOK(reader[r], heads[reader[r].source])

SourceIInv == SourceTypes /\ KeptOK /\ ReaderOK

\* A reader that reads nothing.
LEMMA NoReadIs == WellTyped(NoRead) /\ NoRead.pc = "idle" /\ \A h : ReadOK(NoRead, h)
  BY DEF NoRead, ReadState, ReadPlaces, WellTyped, ReadOK

\* A longer history has the heads of the shorter.
LEMMA HeadsGrow ==
  ASSUME NEW g \in History, NEW h \in History,
         Len(g) <= Len(h), \A i \in 1..Len(g) : h[i] = g[i]
  PROVE  /\ \A n \in Nat \ {0} : HeadsSince(g, n) \subseteq HeadsSince(h, n)
         /\ \A c : HeadsFrom(g, c) \subseteq HeadsFrom(h, c)
         /\ \A c : CameBack(g, c) => CameBack(h, c)
<1>1. Len(g) \in Nat /\ Len(h) \in Nat
  BY DEF History
<1>2. ASSUME NEW n \in Nat \ {0}, NEW x \in HeadsSince(g, n) PROVE x \in HeadsSince(h, n)
  <2>1. PICK i \in n..Len(g) : x = g[i]
    BY DEF HeadsSince
  <2>2. i \in n..Len(h) /\ i \in 1..Len(g)
    BY <1>1
  <2> QED  BY <2>1, <2>2 DEF HeadsSince
<1>3. ASSUME NEW c, NEW x \in HeadsFrom(g, c) PROVE x \in HeadsFrom(h, c)
  <2>1. PICK i \in 1..Len(g) : x = g[i] /\ \E j \in 1..i : g[j] = c
    BY DEF HeadsFrom
  <2>2. PICK j \in 1..i : g[j] = c
    BY <2>1
  <2>3. i \in 1..Len(h) /\ h[i] = x /\ j \in 1..Len(g) /\ h[j] = c
    BY <1>1, <2>1, <2>2
  <2> QED  BY <2>2, <2>3 DEF HeadsFrom
<1>4. ASSUME NEW c, CameBack(g, c) PROVE CameBack(h, c)
  <2>1. PICK i \in 1..Len(g), j \in 1..Len(g) : i # j /\ g[i] = c /\ g[j] = c
    BY <1>4 DEF CameBack
  <2>2. i \in 1..Len(h) /\ j \in 1..Len(h)
    BY <1>1
  <2> QED  BY <2>1, <2>2 DEF CameBack
<1> QED  BY <1>2, <1>3, <1>4

\* The head a source is at follows every head it has had.
LEMMA HeadFollows ==
  ASSUME NEW h \in History, NEW n \in 1..Len(h), NEW j \in n..Len(h)
  PROVE  /\ h[Len(h)] \in Commit
         /\ h[Len(h)] \in HeadsSince(h, n)
         /\ h[Len(h)] \in HeadsFrom(h, h[j])
<1>1. Len(h) \in Nat /\ Len(h) \in n..Len(h) /\ j \in 1..Len(h) /\ Len(h) \in 1..Len(h)
  BY DEF History
<1>2. h[Len(h)] \in Commit
  BY <1>1 DEF History
<1> QED  BY <1>1, <1>2 DEF HeadsSince, HeadsFrom

\* What followed a head is of the time since a later moment at which the branch was
\* there too, unless the branch had left it and come back.
LEMMA SinceOrBack ==
  ASSUME NEW h \in History, NEW n \in 1..Len(h), NEW j \in n..Len(h), NEW c, h[j] = c,
         NEW x \in HeadsFrom(h, c)
  PROVE  x \in HeadsSince(h, n) \/ CameBack(h, c)
<1>1. PICK i \in 1..Len(h) : x = h[i] /\ \E k \in 1..i : h[k] = c
  BY DEF HeadsFrom
<1>2. PICK k \in 1..i : h[k] = c
  BY <1>1
<1>3. Len(h) \in Nat
  BY DEF History
<1>4. j \in 1..Len(h) /\ k \in 1..Len(h)
  BY <1>2, <1>3
<1>5. CASE k = j
  <2>1. i \in n..Len(h)
    BY <1>2, <1>3, <1>5
  <2> QED  BY <1>1, <2>1 DEF HeadsSince
<1>6. CASE k # j
  BY <1>2, <1>4, <1>6 DEF CameBack
<1> QED  BY <1>5, <1>6

\* What holds of a reader, and of an entry, still does when the source moves.
LEMMA StillRead ==
  ASSUME NEW g \in History, NEW h \in History,
         Len(g) <= Len(h), \A i \in 1..Len(g) : h[i] = g[i],
         NEW d, d \in ReadState, ReadOK(d, g)
  PROVE  ReadOK(d, h)
<1>0. d.began \in Nat
  BY DEF ReadState
<1>1. Len(g) \in Nat /\ Len(h) \in Nat /\ d.began \in Nat
  BY <1>0 DEF History
<1>2. d.pc # "idle" => d.began \in 1..Len(h) /\ d.began \in Nat \ {0}
  BY <1>1 DEF ReadOK
<1>3. d.pc \in {"look", "snapshot", "put"} => \E j \in d.began..Len(h) : h[j] = d.sha
  <2> SUFFICES ASSUME d.pc \in {"look", "snapshot", "put"}
               PROVE  \E j \in d.began..Len(h) : h[j] = d.sha
    OBVIOUS
  <2>1. PICK j \in d.began..Len(g) : g[j] = d.sha
    BY DEF ReadOK
  <2>2. j \in d.began..Len(h) /\ j \in 1..Len(g)
    BY <1>1, <1>2
  <2> QED  BY <2>1, <2>2
<1>4. d.pc # "idle" => HeadsSince(g, d.began) \subseteq HeadsSince(h, d.began)
  BY <1>2, HeadsGrow
<1>5. HeadsFrom(g, d.sha) \subseteq HeadsFrom(h, d.sha) /\ (CameBack(g, d.sha) => CameBack(h, d.sha))
  BY HeadsGrow
<1> QED  BY <1>2, <1>3, <1>4, <1>5 DEF ReadOK

LEMMA StillFiled ==
  ASSUME NEW g \in History, NEW h \in History,
         Len(g) <= Len(h), \A i \in 1..Len(g) : h[i] = g[i],
         NEW e, FiledFrom(e, g)
  PROVE  FiledFrom(e, h)
<1>1. HeadsFrom(g, e.sha) \subseteq HeadsFrom(h, e.sha)
  BY HeadsGrow
<1> QED  BY <1>1 DEF FiledFrom

\* A step of one reader disturbs no other.
LEMMA OneReads ==
  ASSUME SourceIInv, NEW r \in Reader, NEW new, WellTyped(new), ReadOK(new, heads[new.source]),
         reader' = [reader EXCEPT ![r] = new], heads' = heads
  PROVE  /\ reader' \in [Reader -> ReadState]
         /\ \A q \in Reader : WellTyped(reader'[q])
         /\ ReaderOK'
<1>1. new \in ReadState /\ reader \in [Reader -> ReadState]
  BY DEF WellTyped, SourceIInv, SourceTypes
<1>2. \A q \in Reader : reader'[q] = IF q = r THEN new ELSE reader[q]
  BY <1>1
<1>3. \A q \in Reader : ReadOK(reader'[q], heads[reader'[q].source])
  BY <1>2 DEF SourceIInv, ReaderOK
<1> QED  BY <1>1, <1>2, <1>3 DEF SourceIInv, SourceTypes, ReaderOK

\* The inductive invariant holds before the first request.
LEMMA InitSource == SourceInit => SourceIInv
<1> SUFFICES ASSUME SourceInit PROVE SourceIInv
  OBVIOUS
<1>1. PICK c \in Commit : heads = [s \in Source |-> <<c>>]
  BY DEF SourceInit
<1>2. <<c>> \in History
  BY DEF History
<1>3. heads \in [Source -> History]
  BY <1>1, <1>2
<1>4. NoRead \in ReadState
  BY NoReadIs DEF WellTyped
<1>5. SourceTypes
  BY <1>3, <1>4, NoReadIs DEF SourceInit, SourceTypes
<1>6. KeptOK /\ ReaderOK
  BY NoReadIs DEF SourceInit, KeptOK, ReaderOK
<1> QED  BY <1>5, <1>6 DEF SourceIInv

\* Filing an entry files no other than it.
LEMMA PutFiles ==
  ASSUME SourceIInv, NEW e \in KeptEntry, FiledFrom(e, heads[e.source])
  PROVE  /\ Put(e) \in Seq(KeptEntry)
         /\ \A i \in DOMAIN Put(e) : FiledFrom(Put(e)[i], heads[Put(e)[i].source])
<1>1. kept \in Seq(KeptEntry) /\ \A i \in DOMAIN kept : FiledFrom(kept[i], heads[kept[i].source])
  BY DEF SourceIInv, SourceTypes, KeptOK
<1>2. CASE Put(e) = kept
  BY <1>1, <1>2
<1>3. CASE Put(e) = Append(kept, e)
  BY <1>1, <1>3
<1>4. CASE Put(e) = Append(Tail(kept), e) /\ kept # <<>>
  <2>1. Tail(kept) \in Seq(KeptEntry) /\ Len(Tail(kept)) = Len(kept) - 1
    BY <1>1, <1>4
  <2>2. \A i \in 1..(Len(kept) - 1) : Tail(kept)[i] = kept[i + 1] /\ i + 1 \in DOMAIN kept
    BY <1>1, <1>4
  <2>3. \A i \in 1..(Len(kept) - 1) : FiledFrom(Tail(kept)[i], heads[Tail(kept)[i].source])
    BY <1>1, <2>2
  <2> QED  BY <1>4, <2>1, <2>3
<1>5. CASE Put(e) = Append(Tail(kept), e) /\ kept = <<>>
  BY <1>5
<1> QED
  BY <1>2, <1>3, <1>4, <1>5 DEF Put

\* Every step of a reader, and every move of a source's branch, keeps it.
LEMMA StepSource == SourceIInv /\ [SourceNext]_sources => SourceIInv'
<1> SUFFICES ASSUME SourceIInv, [SourceNext]_sources PROVE SourceIInv'
  OBVIOUS
<1>0. /\ heads \in [Source -> History] /\ kept \in Seq(KeptEntry)
      /\ \A r \in Reader : /\ WellTyped(reader[r]) /\ reader[r] \in ReadState
                           /\ ReadOK(reader[r], heads[reader[r].source])
  BY DEF SourceIInv, SourceTypes, ReaderOK
<1>a. ASSUME NEW r \in Reader, NEW new, WellTyped(new), ReadOK(new, heads[new.source]),
             reader' = [reader EXCEPT ![r] = new], UNCHANGED <<heads, kept>>
      PROVE  SourceIInv'
  <2>1. /\ reader' \in [Reader -> ReadState]
        /\ \A q \in Reader : WellTyped(reader'[q])
        /\ ReaderOK'
    BY <1>a, OneReads
  <2>2. SourceTypes'
    BY <1>0, <1>a, <2>1 DEF SourceTypes
  <2>3. KeptOK'
    BY <1>a DEF SourceIInv, KeptOK
  <2> QED  BY <2>1, <2>2, <2>3 DEF SourceIInv
<1>b. ASSUME NEW r \in Reader, reader' = [reader EXCEPT ![r] = NoRead], UNCHANGED <<heads, kept>>
      PROVE  SourceIInv'
  BY <1>a, <1>b, NoReadIs
<1>1. ASSUME NEW r \in Reader, NEW s \in Source, Request(r, s) PROVE SourceIInv'
  <2> DEFINE new == [NoRead EXCEPT !.pc = "head", !.source = s, !.began = Len(heads[s])]
  <2>1. heads[s] \in History
    BY <1>0
  <2>2. Len(heads[s]) \in Nat /\ Len(heads[s]) \in 1..Len(heads[s])
    BY <2>1 DEF History
  <2>a. NoRead \in ReadState /\ NoRead.got = <<>>
    BY NoReadIs DEF WellTyped, NoRead
  <2>3. /\ new \in ReadState /\ new.pc = "head" /\ new.source = s
        /\ new.began = Len(heads[s]) /\ new.got = <<>>
    BY <2>a, <2>2 DEF ReadState, ReadPlaces
  <2>4. reader' = [reader EXCEPT ![r] = new] /\ UNCHANGED <<heads, kept>>
    BY <1>1 DEF Request
  <2> HIDE DEF new
  <2>5. WellTyped(new)
    BY <2>3 DEF WellTyped
  <2>6. ReadOK(new, heads[new.source])
    BY <2>2, <2>3 DEF ReadOK
  <2> QED  BY <1>a, <2>4, <2>5, <2>6
<1>2. ASSUME NEW r \in Reader, ReadHead(r) PROVE SourceIInv'
  <2>1. CASE reader' = [reader EXCEPT ![r] = NoRead]
    BY <1>b, <1>2, <2>1 DEF ReadHead
  <2>2. CASE reader' = [reader EXCEPT ![r].pc = "look", ![r].sha = Now(reader[r].source)]
    <3> DEFINE h == heads[reader[r].source]
               new == [reader[r] EXCEPT !.pc = "look", !.sha = h[Len(h)]]
    <3>1. reader[r] \in ReadState /\ reader[r].source \in Source /\ reader[r].pc = "head"
      BY <1>0, <1>2 DEF ReadHead, WellTyped
    <3>2. h \in History
      BY <1>0, <3>1
    <3>3. reader[r].began \in 1..Len(h) /\ reader[r].got = <<>>
      BY <1>0, <3>1 DEF ReadOK
    <3>4. h[Len(h)] \in Commit /\ Len(h) \in reader[r].began..Len(h)
      BY <3>2, <3>3 DEF History
    <3>5. reader' = [reader EXCEPT ![r] = new] /\ UNCHANGED <<heads, kept>>
      BY <1>2, <2>2 DEF ReadHead, Now
    <3> HIDE DEF h
    <3>6. /\ new \in ReadState /\ new.pc = "look" /\ new.source = reader[r].source
          /\ new.sha = h[Len(h)] /\ new.began = reader[r].began /\ new.got = reader[r].got
      BY <3>1, <3>4 DEF ReadState, ReadPlaces
    <3> HIDE DEF new
    <3>7. WellTyped(new)
      BY <3>1, <3>4, <3>6 DEF WellTyped
    <3>8. ReadOK(new, h)
      BY <3>3, <3>4, <3>6 DEF ReadOK
    <3>9. ReadOK(new, heads[new.source])
      BY <3>6, <3>8 DEF h
    <3> QED  BY <1>a, <3>5, <3>7, <3>9
  <2> QED  BY <1>2, <2>1, <2>2 DEF ReadHead
<1>3. ASSUME NEW r \in Reader, LookUp(r) PROVE SourceIInv'
  <2> DEFINE h == heads[reader[r].source]
  <2>1. reader[r] \in ReadState /\ reader[r].pc = "look"
    BY <1>0, <1>3 DEF LookUp
  <2>2. reader[r].source \in Source /\ reader[r].sha \in Commit
    BY <1>0, <2>1 DEF WellTyped
  <2>3. h \in History
    BY <1>0, <2>2
  <2>4. /\ reader[r].began \in 1..Len(h) /\ reader[r].got = <<>>
        /\ \E j \in reader[r].began..Len(h) : h[j] = reader[r].sha
    BY <1>0, <2>1 DEF ReadOK
  <2>5. UNCHANGED <<heads, kept>>
    BY <1>3 DEF LookUp
  <2>6. CASE reader' = [reader EXCEPT ![r].pc = "snapshot"]
    <3> DEFINE new == [reader[r] EXCEPT !.pc = "snapshot"]
    <3>1. reader' = [reader EXCEPT ![r] = new]
      BY <2>6
    <3>2. /\ new \in ReadState /\ new.pc = "snapshot" /\ new.source = reader[r].source
          /\ new.sha = reader[r].sha /\ new.began = reader[r].began /\ new.got = <<>>
      BY <2>1, <2>4 DEF ReadState, ReadPlaces
    <3> HIDE DEF new, h
    <3>3. WellTyped(new)
      BY <2>2, <3>2 DEF WellTyped
    <3>4. ReadOK(new, h)
      BY <2>4, <3>2 DEF ReadOK
    <3>5. ReadOK(new, heads[new.source])
      BY <3>2, <3>4 DEF h
    <3> QED  BY <1>a, <2>5, <3>1, <3>3, <3>5
  <2>7. ASSUME NEW e \in Hits(reader[r].source, reader[r].sha),
               reader' = [reader EXCEPT ![r].pc = "done", ![r].got = e.content]
        PROVE  SourceIInv'
    <3> DEFINE new == [reader[r] EXCEPT !.pc = "done", !.got = e.content]
    <3>1. PICK i \in DOMAIN kept : kept[i] = e
      BY DEF Hits, ToSet
    <3>2. e \in KeptEntry /\ e.sha = reader[r].sha /\ e.source = reader[r].source
      BY <1>0, <3>1 DEF Hits
    <3>3. FiledFrom(e, h)
      BY <3>1, <3>2 DEF SourceIInv, KeptOK
    <3>4. reader' = [reader EXCEPT ![r] = new]
      BY <2>7
    <3>5. /\ new \in ReadState /\ new.pc = "done" /\ new.source = reader[r].source
          /\ new.sha = reader[r].sha /\ new.began = reader[r].began /\ new.got = e.content
      BY <2>1, <3>2 DEF ReadState, ReadPlaces, KeptEntry
    <3> HIDE DEF new, h
    <3>6. WellTyped(new)
      BY <2>2, <3>5 DEF WellTyped
    <3>7. \A k \in DOMAIN e.content : e.content[k] \in HeadsFrom(h, reader[r].sha)
      BY <3>2, <3>3 DEF FiledFrom
    <3>8. \A k \in DOMAIN e.content :
              e.content[k] \in HeadsSince(h, reader[r].began) \/ CameBack(h, reader[r].sha)
      BY <2>3, <2>4, <3>7, SinceOrBack
    <3>9. ReadOK(new, h)
      BY <2>4, <3>5, <3>7, <3>8 DEF ReadOK
    <3>10. ReadOK(new, heads[new.source])
      BY <3>5, <3>9 DEF h
    <3> QED  BY <1>a, <2>5, <3>4, <3>6, <3>10
  <2> QED  BY <1>3, <2>6, <2>7 DEF LookUp
<1>4. ASSUME NEW r \in Reader, Snapshot(r) PROVE SourceIInv'
  <2> DEFINE h == heads[reader[r].source]
  <2>1. reader[r] \in ReadState /\ reader[r].pc = "snapshot"
    BY <1>0, <1>4 DEF Snapshot
  <2>2. reader[r].source \in Source /\ reader[r].sha \in Commit
    BY <1>0, <2>1 DEF WellTyped
  <2>3. h \in History
    BY <1>0, <2>2
  <2>4. /\ reader[r].began \in 1..Len(h)
        /\ \E j \in reader[r].began..Len(h) : h[j] = reader[r].sha
        /\ \A k \in DOMAIN reader[r].got :
               reader[r].got[k] \in HeadsSince(h, reader[r].began) \cap HeadsFrom(h, reader[r].sha)
    BY <1>0, <2>1 DEF ReadOK
  <2>5. UNCHANGED <<heads, kept>>
    BY <1>4 DEF Snapshot
  <2>6. CASE reader' = [reader EXCEPT ![r] = NoRead]
    BY <1>b, <2>5, <2>6
  <2>7. CASE reader' = [reader EXCEPT ![r].got = Append(@, Now(reader[r].source))]
    <3> DEFINE got == Append(reader[r].got, h[Len(h)])
               new == [reader[r] EXCEPT !.got = got]
    <3>1. reader' = [reader EXCEPT ![r] = new]
      BY <2>7 DEF Now
    <3>2. /\ h[Len(h)] \in Commit
          /\ h[Len(h)] \in HeadsSince(h, reader[r].began) \cap HeadsFrom(h, reader[r].sha)
      BY <2>3, <2>4, HeadFollows
    <3> HIDE DEF h
    <3>3. reader[r].got \in Seq(Commit)
      BY <2>1 DEF ReadState
    <3>4. /\ got \in Seq(Commit)
          /\ \A k \in DOMAIN got :
                 got[k] \in HeadsSince(h, reader[r].began) \cap HeadsFrom(h, reader[r].sha)
      <4>1. got \in Seq(Commit) /\ Len(got) = Len(reader[r].got) + 1
        BY <3>2, <3>3
      <4>2. \A k \in DOMAIN got :
                got[k] = IF k \in DOMAIN reader[r].got THEN reader[r].got[k] ELSE h[Len(h)]
        BY <3>2, <3>3
      <4> QED  BY <2>4, <3>2, <4>1, <4>2
    <3> HIDE DEF got
    <3>5. /\ new \in ReadState /\ new.pc = "snapshot" /\ new.source = reader[r].source
          /\ new.sha = reader[r].sha /\ new.began = reader[r].began /\ new.got = got
      BY <2>1, <3>4 DEF ReadState
    <3> HIDE DEF new
    <3>6. WellTyped(new)
      BY <2>2, <3>5 DEF WellTyped
    <3>7. ReadOK(new, h)
      BY <2>4, <3>4, <3>5 DEF ReadOK
    <3>8. ReadOK(new, heads[new.source])
      BY <3>5, <3>7 DEF h
    <3> QED  BY <1>a, <2>5, <3>1, <3>6, <3>8
  <2>8. CASE reader' = [reader EXCEPT ![r].pc = "put"]
    <3> DEFINE new == [reader[r] EXCEPT !.pc = "put"]
    <3>1. reader' = [reader EXCEPT ![r] = new]
      BY <2>8
    <3>2. /\ new \in ReadState /\ new.pc = "put" /\ new.source = reader[r].source
          /\ new.sha = reader[r].sha /\ new.began = reader[r].began /\ new.got = reader[r].got
      BY <2>1 DEF ReadState, ReadPlaces
    <3> HIDE DEF new, h
    <3>3. WellTyped(new)
      BY <2>2, <3>2 DEF WellTyped
    <3>4. ReadOK(new, h)
      BY <2>4, <3>2 DEF ReadOK
    <3>5. ReadOK(new, heads[new.source])
      BY <3>2, <3>4 DEF h
    <3> QED  BY <1>a, <2>5, <3>1, <3>3, <3>5
  <2> QED  BY <1>4, <2>6, <2>7, <2>8 DEF Snapshot
<1>5. ASSUME NEW r \in Reader, PutSnapshot(r) PROVE SourceIInv'
  <2> DEFINE h == heads[reader[r].source]
             new == [reader[r] EXCEPT !.pc = "done"]
             e == [source |-> reader[r].source, sha |-> reader[r].sha, content |-> reader[r].got]
  <2>1. reader[r] \in ReadState /\ reader[r].pc = "put"
    BY <1>0, <1>5 DEF PutSnapshot
  <2>2. reader[r].source \in Source /\ reader[r].sha \in Commit
    BY <1>0, <2>1 DEF WellTyped
  <2>3. /\ reader[r].began \in 1..Len(h)
        /\ \A k \in DOMAIN reader[r].got :
               reader[r].got[k] \in HeadsSince(h, reader[r].began) \cap HeadsFrom(h, reader[r].sha)
    BY <1>0, <2>1 DEF ReadOK
  <2>4. kept' = Put(e) /\ heads' = heads /\ reader' = [reader EXCEPT ![r] = new]
    BY <1>5 DEF PutSnapshot
  <2>5. e \in KeptEntry /\ FiledFrom(e, heads[e.source])
    BY <2>1, <2>2, <2>3 DEF ReadState, KeptEntry, FiledFrom
  <2>6. /\ new \in ReadState /\ new.pc = "done" /\ new.source = reader[r].source
        /\ new.sha = reader[r].sha /\ new.began = reader[r].began /\ new.got = reader[r].got
    BY <2>1 DEF ReadState, ReadPlaces
  <2> HIDE DEF new, h, e
  <2>7. WellTyped(new)
    BY <2>2, <2>6 DEF WellTyped
  <2>8. ReadOK(new, h)
    BY <2>3, <2>6 DEF ReadOK
  <2>9. ReadOK(new, heads[new.source])
    BY <2>6, <2>8 DEF h
  <2>10. /\ reader' \in [Reader -> ReadState]
         /\ \A q \in Reader : WellTyped(reader'[q])
         /\ ReaderOK'
    BY <2>4, <2>7, <2>9, OneReads
  <2>11. /\ Put(e) \in Seq(KeptEntry)
         /\ \A i \in DOMAIN Put(e) : FiledFrom(Put(e)[i], heads[Put(e)[i].source])
    BY <2>5, PutFiles
  <2>12. SourceTypes'
    BY <1>0, <2>4, <2>10, <2>11 DEF SourceTypes
  <2>13. KeptOK'
    BY <2>4, <2>11 DEF KeptOK
  <2> QED  BY <2>10, <2>12, <2>13 DEF SourceIInv
<1>6. ASSUME NEW r \in Reader, Served(r) PROVE SourceIInv'
  BY <1>b, <1>6 DEF Served
<1>7. ASSUME NEW s \in Source, Moves(s) PROVE SourceIInv'
  <2>1. PICK c \in Commit : heads' = [heads EXCEPT ![s] = Append(@, c)]
    BY <1>7 DEF Moves
  <2>2. UNCHANGED <<kept, reader>>
    BY <1>7 DEF Moves
  <2>3. \A x \in Source : /\ heads[x] \in History /\ heads'[x] \in History
                          /\ Len(heads[x]) <= Len(heads'[x])
                          /\ \A i \in 1..Len(heads[x]) : heads'[x][i] = heads[x][i]
    <3> TAKE x \in Source
    <3>1. heads[x] \in History /\ heads[x] \in Seq(Commit)
      BY <1>0 DEF History
    <3>2. CASE x = s
      <4>1. heads'[x] = Append(heads[x], c)
        BY <1>0, <2>1, <3>2
      <4> QED  BY <3>1, <4>1 DEF History
    <3>3. CASE x # s
      <4>1. heads'[x] = heads[x]
        BY <1>0, <2>1, <3>3
      <4> QED  BY <3>1, <4>1 DEF History
    <3> QED  BY <3>2, <3>3
  <2>4. heads' \in [Source -> History]
    BY <1>0, <2>1, <2>3
  <2>5. SourceTypes'
    BY <2>2, <2>4 DEF SourceIInv, SourceTypes
  <2>6. ASSUME NEW i \in DOMAIN kept PROVE FiledFrom(kept[i], heads'[kept[i].source])
    <3>0. kept[i] \in KeptEntry
      BY <1>0
    <3>1. kept[i].source \in Source
      BY <3>0 DEF KeptEntry
    <3>2. FiledFrom(kept[i], heads[kept[i].source])
      BY DEF SourceIInv, KeptOK
    <3> QED  BY <2>3, <3>1, <3>2, StillFiled
  <2>7. KeptOK'
    BY <2>2, <2>6 DEF KeptOK
  <2>8. ASSUME NEW r \in Reader PROVE ReadOK(reader[r], heads'[reader[r].source])
    <3>1. CASE reader[r].pc = "idle"
      BY <3>1 DEF ReadOK
    <3>2. CASE reader[r].pc # "idle"
      <4>1. reader[r].source \in Source /\ reader[r] \in ReadState
        BY <1>0, <3>2 DEF WellTyped
      <4> QED  BY <1>0, <2>3, <4>1, StillRead
    <3> QED  BY <3>1, <3>2
  <2>9. ReaderOK'
    BY <2>2, <2>8 DEF ReaderOK
  <2> QED  BY <2>5, <2>7, <2>9 DEF SourceIInv
<1>8. CASE UNCHANGED sources
  BY <1>8 DEF sources, SourceIInv, SourceTypes, KeptOK, ReaderOK
<1> QED
  BY <1>1, <1>2, <1>3, <1>4, <1>5, <1>6, <1>7, <1>8 DEF SourceNext

\* Everything a request answers from is at a head the source had since the request
\* came, unless the branch came back to the head the request found; and then it is at
\* no head before the first time it was there (sourceSnapshot, srcCache, and the
\* forced fetch of a read-only source).
THEOREM Freshness == SourceSpec => []SourceIsFresh
<1>1. SourceInit => SourceIInv
  BY InitSource
<1>2. SourceIInv /\ [SourceNext]_sources => SourceIInv'
  BY StepSource
<1>3. SourceIInv => SourceIsFresh
  BY DEF SourceIInv, ReaderOK, ReadOK, SourceIsFresh
<1> QED
  BY <1>1, <1>2, <1>3, PTL DEF SourceSpec

(* ------------------------------------------------------------------ filters *)

\* Positions i + 1 .. n of a pattern can be cut to fit elements j + 1 .. len: those
\* in any take any run of elements, another i takes one, m with <<i, m>> in one.
Fit(n, len, any, one, i, j) ==
    \E f \in [i..n -> 0..len] :
        /\ f[i] = j /\ f[n] = len
        /\ \A k \in (i + 1)..n : /\ f[k - 1] <= f[k]
                                 /\ k \in any \/ (f[k] = f[k - 1] + 1 /\ <<k, f[k]>> \in one)

Stars(pat) == {k \in DOMAIN pat : pat[k] = "*"}
Singles(pat, s) == {p \in (DOMAIN pat) \X (DOMAIN s) : pat[p[1]] \in {"?", s[p[2]]}}

\* What is left of the pattern from i fits what is left of the segment from j.
Rest(pat, s, i, j) == Fit(Len(pat), Len(s), Stars(pat), Singles(pat, s), i, j)

WalkTypeOK ==
    /\ walk = [pat |-> walk.pat, s |-> walk.s, pi |-> walk.pi, si |-> walk.si,
               star |-> walk.star, mark |-> walk.mark, verdict |-> walk.verdict]
    /\ walk.pat \in Seq(Char) /\ walk.s \in Seq(Char)
    /\ \A i \in DOMAIN walk.s : walk.s[i] # "*"
    /\ walk.pi \in 1..(Len(walk.pat) + 1) /\ walk.si \in 1..(Len(walk.s) + 1)
    /\ walk.star \in 0..(walk.pi - 1) /\ walk.mark \in 0..walk.si

\* Since the last star the walk went on one by one.
BlockOK ==
    walk.star > 0 =>
        /\ walk.mark > 0 /\ walk.si - walk.mark = walk.pi - walk.star - 1
        /\ \A k \in (walk.star + 1)..(walk.pi - 1) :
              /\ k \notin Stars(walk.pat)
              /\ <<k, walk.mark + k - walk.star - 1>> \in Singles(walk.pat, walk.s)

\* What is to be found: a fit from here or, after a star, from where it has got
\* to or anywhere further on.  Stars before the last need not be looked at again.
WalkOK ==
    /\ walk.verdict # "none" => (walk.verdict = "match") = Spelled(walk.pat, walk.s)
    /\ walk.verdict = "none" /\ walk.star = 0 =>
           (Spelled(walk.pat, walk.s) <=> Rest(walk.pat, walk.s, walk.pi - 1, walk.si - 1))
    /\ walk.verdict = "none" /\ walk.star > 0 =>
           (Spelled(walk.pat, walk.s) <=>
               \E k \in (walk.mark - 1)..Len(walk.s) : Rest(walk.pat, walk.s, walk.star, k))

GlobIInv == WalkTypeOK /\ BlockOK /\ WalkOK


\* At the end of a pattern everything is to be used up.
LEMMA FitEnd ==
  ASSUME NEW n \in Nat, NEW len \in Nat, NEW any, NEW one, NEW j \in 0..len
  PROVE  Fit(n, len, any, one, n, j) <=> j = len
<1>1. ASSUME j = len
      PROVE  Fit(n, len, any, one, n, j)
  <2> DEFINE f == [k \in n..n |-> j]
  <2>1. f \in [n..n -> 0..len] /\ f[n] = len /\ f[n] = j
    BY <1>1
  <2>2. \A k \in (n + 1)..n : FALSE
    OBVIOUS
  <2> HIDE DEF f
  <2> QED  BY <2>1, <2>2 DEF Fit
<1>2. ASSUME Fit(n, len, any, one, n, j)
      PROVE  j = len
  BY <1>2 DEF Fit
<1> QED  BY <1>1, <1>2

\* The next position of the pattern takes what is up to some k.
LEMMA FitStep ==
  ASSUME NEW n \in Nat, NEW len \in Nat, NEW any, NEW one,
         NEW i \in 0..(n - 1), NEW j \in 0..len
  PROVE  Fit(n, len, any, one, i, j) <=>
           \E k \in j..len : /\ i + 1 \in any \/ (k = j + 1 /\ <<i + 1, k>> \in one)
                             /\ Fit(n, len, any, one, i + 1, k)
<1>1. ASSUME Fit(n, len, any, one, i, j)
      PROVE  \E k \in j..len : /\ i + 1 \in any \/ (k = j + 1 /\ <<i + 1, k>> \in one)
                               /\ Fit(n, len, any, one, i + 1, k)
  <2>1. PICK f \in [i..n -> 0..len] :
           /\ f[i] = j /\ f[n] = len
           /\ \A k \in (i + 1)..n :
                 /\ f[k - 1] <= f[k]
                 /\ k \in any \/ (f[k] = f[k - 1] + 1 /\ <<k, f[k]>> \in one)
    BY <1>1 DEF Fit
  <2> DEFINE g == [k \in (i + 1)..n |-> f[k]]
  <2>2. g \in [(i + 1)..n -> 0..len] /\ g[n] = len /\ g[i + 1] = f[i + 1]
    BY <2>1
  <2>3. \A k \in (i + 2)..n : /\ g[k - 1] <= g[k]
                              /\ k \in any \/ (g[k] = g[k - 1] + 1 /\ <<k, g[k]>> \in one)
    <3>1. \A k \in (i + 2)..n : k \in (i + 1)..n /\ g[k] = f[k] /\ g[k - 1] = f[k - 1]
      OBVIOUS
    <3> HIDE DEF g
    <3> QED  BY <2>1, <3>1
  <2>4. /\ f[i] <= f[i + 1] /\ f[i + 1] \in 0..len
        /\ i + 1 \in any \/ (f[i + 1] = f[i] + 1 /\ <<i + 1, f[i + 1]>> \in one)
    <3>1. i + 1 \in (i + 1)..n /\ (i + 1) - 1 = i /\ i + 1 \in i..n
      OBVIOUS
    <3> QED  BY <2>1, <3>1
  <2>5. Fit(n, len, any, one, i + 1, f[i + 1])
    <3>1. (i + 1) + 1 = i + 2
      OBVIOUS
    <3> HIDE DEF g
    <3> QED  BY <2>2, <2>3, <3>1 DEF Fit
  <2> QED  BY <2>1, <2>4, <2>5
<1>2. ASSUME NEW k \in j..len,
             i + 1 \in any \/ (k = j + 1 /\ <<i + 1, k>> \in one),
             Fit(n, len, any, one, i + 1, k)
      PROVE  Fit(n, len, any, one, i, j)
  <2>1. PICK g \in [(i + 1)..n -> 0..len] :
           /\ g[i + 1] = k /\ g[n] = len
           /\ \A m \in (i + 2)..n :
                 /\ g[m - 1] <= g[m]
                 /\ m \in any \/ (g[m] = g[m - 1] + 1 /\ <<m, g[m]>> \in one)
    <3>1. (i + 1) + 1 = i + 2
      OBVIOUS
    <3> QED  BY <1>2, <3>1 DEF Fit
  <2> DEFINE f == [m \in i..n |-> IF m = i THEN j ELSE g[m]]
  <2>2. f \in [i..n -> 0..len] /\ f[i] = j /\ f[n] = len /\ f[i + 1] = k
    <3>1. \A m \in i..n : m = i \/ m \in (i + 1)..n
      OBVIOUS
    <3> QED  BY <2>1, <3>1
  <2>3. \A m \in (i + 2)..n : f[m] = g[m] /\ f[m - 1] = g[m - 1]
    OBVIOUS
  <2>4. \A m \in (i + 1)..n : m = i + 1 \/ m \in (i + 2)..n
    OBVIOUS
  <2>5. j <= k /\ (i + 1) - 1 = i
    OBVIOUS
  <2> HIDE DEF f
  <2>6. ASSUME NEW m \in (i + 1)..n
        PROVE  /\ f[m - 1] <= f[m]
               /\ m \in any \/ (f[m] = f[m - 1] + 1 /\ <<m, f[m]>> \in one)
    <3>1. CASE m = i + 1
      BY <1>2, <2>2, <2>5, <3>1
    <3>2. CASE m \in (i + 2)..n
      BY <2>1, <2>3, <3>2
    <3> QED  BY <2>4, <3>1, <3>2
  <2> QED  BY <2>2, <2>6 DEF Fit
<1> QED  BY <1>1, <1>2

\* What a segment pattern means, as a fit.
LEMMA SpelledRest ==
  ASSUME NEW pat \in Seq(Char), NEW s \in Seq(Char)
  PROVE  Spelled(pat, s) <=> Rest(pat, s, 0, 0)
<1>1. Len(pat) \in Nat /\ Len(s) \in Nat
  OBVIOUS
<1>2. ASSUME NEW f \in [0..Len(pat) -> 0..Len(s)], NEW i \in 1..Len(pat)
      PROVE  (pat[i] = "*" \/ (f[i] = f[i - 1] + 1 /\ pat[i] \in {"?", s[f[i]]}))
             <=> (i \in Stars(pat) \/ (f[i] = f[i - 1] + 1 /\ <<i, f[i]>> \in Singles(pat, s)))
  <2>1. i \in 0..Len(pat) /\ i - 1 \in 0..Len(pat) /\ i \in DOMAIN pat
    BY <1>1
  <2>2. i \in Stars(pat) <=> pat[i] = "*"
    BY <2>1 DEF Stars
  <2>3. f[i] = f[i - 1] + 1 => f[i] \in DOMAIN s
    BY <1>1, <2>1
  <2>4. f[i] \in DOMAIN s => (<<i, f[i]>> \in Singles(pat, s) <=> pat[i] \in {"?", s[f[i]]})
    BY <2>1 DEF Singles
  <2> QED  BY <2>2, <2>3, <2>4
<1>3. Spelled(pat, s) <=>
        \E f \in [0..Len(pat) -> 0..Len(s)] :
            /\ f[0] = 0 /\ f[Len(pat)] = Len(s)
            /\ \A i \in 1..Len(pat) :
                  /\ f[i - 1] <= f[i]
                  /\ pat[i] = "*" \/ (f[i] = f[i - 1] + 1 /\ pat[i] \in {"?", s[f[i]]})
  BY Zenon DEF Spelled, Cut
<1>4. Rest(pat, s, 0, 0) <=>
        \E f \in [0..Len(pat) -> 0..Len(s)] :
            /\ f[0] = 0 /\ f[Len(pat)] = Len(s)
            /\ \A i \in 1..Len(pat) :
                  /\ f[i - 1] <= f[i]
                  /\ i \in Stars(pat) \/ (f[i] = f[i - 1] + 1 /\ <<i, f[i]>> \in Singles(pat, s))
  <2>1. 0 + 1 = 1
    OBVIOUS
  <2> QED  BY <2>1, Zenon DEF Rest, Fit
<1> QED  BY <1>2, <1>3, <1>4, Zenon

\* The next character of the pattern is no star.
LEMMA RestOne ==
  ASSUME NEW pat \in Seq(Char), NEW s \in Seq(Char),
         NEW i \in 0..(Len(pat) - 1), NEW j \in 0..Len(s), i + 1 \notin Stars(pat)
  PROVE  Rest(pat, s, i, j) <=> /\ j < Len(s) /\ <<i + 1, j + 1>> \in Singles(pat, s)
                                /\ Rest(pat, s, i + 1, j + 1)
<1>1. Len(pat) \in Nat /\ Len(s) \in Nat
  OBVIOUS
<1>2. Rest(pat, s, i, j) <=> \E k \in j..Len(s) :
          /\ i + 1 \in Stars(pat) \/ (k = j + 1 /\ <<i + 1, k>> \in Singles(pat, s))
          /\ Rest(pat, s, i + 1, k)
  BY <1>1, FitStep DEF Rest
<1>3. j + 1 \in j..Len(s) <=> j < Len(s)
  BY <1>1
<1> QED  BY <1>2, <1>3

\* The next character of the pattern is a star.
LEMMA RestStar ==
  ASSUME NEW pat \in Seq(Char), NEW s \in Seq(Char),
         NEW i \in 0..(Len(pat) - 1), NEW j \in 0..Len(s), i + 1 \in Stars(pat)
  PROVE  Rest(pat, s, i, j) <=> \E k \in j..Len(s) : Rest(pat, s, i + 1, k)
<1>1. Len(pat) \in Nat /\ Len(s) \in Nat
  OBVIOUS
<1> QED  BY <1>1, FitStep DEF Rest

\* The next t characters of the pattern are no stars.
LEMMA RestBlock ==
  ASSUME NEW pat \in Seq(Char), NEW s \in Seq(Char),
         NEW i \in 0..Len(pat), NEW j \in 0..Len(s), NEW n \in Nat, i + n <= Len(pat),
         \A k \in 1..n : i + k \notin Stars(pat)
  PROVE  Rest(pat, s, i, j) <=>
             /\ j + n <= Len(s)
             /\ \A k \in 1..n : <<i + k, j + k>> \in Singles(pat, s)
             /\ Rest(pat, s, i + n, j + n)
<1> DEFINE On(t) == /\ j + t <= Len(s)
                    /\ \A k \in 1..t : <<i + k, j + k>> \in Singles(pat, s)
                    /\ Rest(pat, s, i + t, j + t)
           P == {t \in 0..n : Rest(pat, s, i, j) <=> On(t)}
<1>0. Len(pat) \in Nat /\ Len(s) \in Nat
  OBVIOUS
<1>1. 0 \in P
  BY <1>0
<1>2. ASSUME NEW t \in 0..(n - 1), t \in P
      PROVE  t + 1 \in P
  <2>1. t + 1 \in 0..n /\ t + 1 \in 1..n /\ i + t \in 0..(Len(pat) - 1)
        /\ (i + t) + 1 = i + (t + 1) /\ (j + t) + 1 = j + (t + 1)
    BY <1>0
  <2>2. i + (t + 1) \notin Stars(pat)
    BY <2>1
  <2>3. j + t <= Len(s) =>
          (Rest(pat, s, i + t, j + t) <=> /\ j + t < Len(s)
                                          /\ <<i + (t + 1), j + (t + 1)>> \in Singles(pat, s)
                                          /\ Rest(pat, s, i + (t + 1), j + (t + 1)))
    <3>1. j + t <= Len(s) => j + t \in 0..Len(s)
      BY <1>0
    <3>2. (i + t) + 1 \notin Stars(pat)
      BY <2>1, <2>2
    <3>3. ASSUME j + t \in 0..Len(s)
          PROVE  Rest(pat, s, i + t, j + t) <=>
                   /\ j + t < Len(s) /\ <<(i + t) + 1, (j + t) + 1>> \in Singles(pat, s)
                   /\ Rest(pat, s, (i + t) + 1, (j + t) + 1)
      BY <2>1, <3>2, <3>3, RestOne
    <3> QED  BY <2>1, <3>1, <3>3
  <2>4. /\ (\A k \in 1..(t + 1) : <<i + k, j + k>> \in Singles(pat, s))
           <=> /\ \A k \in 1..t : <<i + k, j + k>> \in Singles(pat, s)
               /\ <<i + (t + 1), j + (t + 1)>> \in Singles(pat, s)
        /\ (j + (t + 1) <= Len(s)) <=> (j + t < Len(s))
        /\ j + t < Len(s) => j + t <= Len(s)
    <3>1. \A k \in 1..(t + 1) : k \in 1..t \/ k = t + 1
      BY <2>1
    <3>2. t + 1 \in 1..(t + 1) /\ \A k \in 1..t : k \in 1..(t + 1)
      BY <2>1
    <3>3. (\A k \in 1..(t + 1) : <<i + k, j + k>> \in Singles(pat, s))
           <=> /\ \A k \in 1..t : <<i + k, j + k>> \in Singles(pat, s)
               /\ <<i + (t + 1), j + (t + 1)>> \in Singles(pat, s)
      BY <3>1, <3>2
    <3>4. /\ (j + (t + 1) <= Len(s)) <=> (j + t < Len(s))
          /\ j + t < Len(s) => j + t <= Len(s)
      BY <1>0
    <3> QED  BY <3>3, <3>4
  <2>5. On(t + 1) <=> On(t)
    BY <2>3, <2>4
  <2> HIDE DEF On
  <2> QED  BY <1>2, <2>1, <2>5
<1>3. n \in 0..n
  OBVIOUS
<1>4. n \in P
  <2> HIDE DEF P
  <2> QED  BY <1>1, <1>2, <1>3, UpFrom
<1> QED  BY <1>4

\* With the segment used up, the rest of the pattern is to be stars.
LEMMA RestStars ==
  ASSUME NEW pat \in Seq(Char), NEW s \in Seq(Char), NEW i \in 0..Len(pat)
  PROVE  Rest(pat, s, i, Len(s)) <=> \A k \in (i + 1)..Len(pat) : pat[k] = "*"
<1> DEFINE n == Len(pat)
           len == Len(s)
<1>0. n \in Nat /\ len \in Nat
  OBVIOUS
<1>1. ASSUME \A k \in (i + 1)..n : pat[k] = "*"
      PROVE  Rest(pat, s, i, len)
  <2> DEFINE f == [k \in i..n |-> len]
  <2>1. f \in [i..n -> 0..len] /\ f[i] = len /\ f[n] = len
    BY <1>0
  <2>2. \A k \in (i + 1)..n : k \in Stars(pat) /\ f[k - 1] <= f[k]
    BY <1>0, <1>1 DEF Stars
  <2> HIDE DEF f
  <2> QED  BY <2>1, <2>2 DEF Rest, Fit
<1>2. ASSUME Rest(pat, s, i, len)
      PROVE  \A k \in (i + 1)..n : pat[k] = "*"
  <2>1. PICK f \in [i..n -> 0..len] :
           /\ f[i] = len /\ f[n] = len
           /\ \A k \in (i + 1)..n :
                 /\ f[k - 1] <= f[k]
                 /\ k \in Stars(pat) \/ (f[k] = f[k - 1] + 1 /\ <<k, f[k]>> \in Singles(pat, s))
    BY <1>2 DEF Rest, Fit
  <2> DEFINE P == {t \in 0..(n - i) : f[i + t] = len}
  <2>2. 0 \in P
    BY <1>0, <2>1
  <2>3. ASSUME NEW t \in 0..((n - i) - 1), t \in P
        PROVE  t + 1 \in P
    <3>1. /\ i + (t + 1) \in (i + 1)..n /\ (i + (t + 1)) - 1 = i + t
          /\ i + (t + 1) \in i..n /\ t + 1 \in 0..(n - i)
      BY <1>0
    <3>2. f[i + t] <= f[i + (t + 1)] /\ f[i + (t + 1)] \in 0..len /\ f[i + t] = len
      BY <2>1, <2>3, <3>1
    <3>3. f[i + (t + 1)] = len
      BY <1>0, <3>2
    <3> QED  BY <3>1, <3>3
  <2>4. \A t \in 0..(n - i) : t \in P
    <3>1. n - i \in Nat
      BY <1>0
    <3> HIDE DEF P
    <3> QED  BY <2>2, <2>3, <3>1, UpFrom
  <2>5. \A k \in i..n : f[k] = len
    <3>1. \A k \in i..n : k - i \in 0..(n - i) /\ i + (k - i) = k
      BY <1>0
    <3> QED  BY <2>4, <3>1
  <2>6. ASSUME NEW k \in (i + 1)..n
        PROVE  pat[k] = "*"
    <3>1. k \in i..n /\ k - 1 \in i..n
      BY <1>0
    <3>2. f[k] = len /\ f[k - 1] = len
      BY <2>5, <3>1
    <3>3. ~(f[k] = f[k - 1] + 1)
      BY <1>0, <3>2
    <3>4. k \in Stars(pat)
      BY <2>1, <3>3
    <3> QED  BY <3>4 DEF Stars
  <2> QED  BY <2>6
<1> QED  BY <1>1, <1>2

\* Where the walk is after a star, in terms of what is left from that star.
LEMMA SinceStar ==
  ASSUME WalkTypeOK, BlockOK, walk.star > 0, walk.si <= Len(walk.s) + 1,
         NEW j \in (walk.mark - 1)..Len(walk.s)
  PROVE  LET t == walk.si - walk.mark IN
         Rest(walk.pat, walk.s, walk.star, j) <=>
             /\ j + t <= Len(walk.s)
             /\ \A k \in 1..t : <<walk.star + k, j + k>> \in Singles(walk.pat, walk.s)
             /\ Rest(walk.pat, walk.s, walk.pi - 1, j + t)
<1> DEFINE t == walk.si - walk.mark
<1>1. /\ walk.pat \in Seq(Char) /\ walk.s \in Seq(Char)
      /\ walk.pi \in 1..(Len(walk.pat) + 1) /\ walk.si \in 1..(Len(walk.s) + 1)
      /\ walk.star \in 0..(walk.pi - 1) /\ walk.mark \in 0..walk.si
      /\ Len(walk.pat) \in Nat /\ Len(walk.s) \in Nat
  BY DEF WalkTypeOK
<1>0. /\ walk.pi \in Int /\ walk.si \in Int /\ walk.star \in Int /\ walk.mark \in Int
      /\ walk.pi <= Len(walk.pat) + 1 /\ walk.si <= Len(walk.s) + 1
      /\ 0 <= walk.star /\ walk.star <= walk.pi - 1
      /\ 0 <= walk.mark /\ walk.mark <= walk.si
  BY <1>1
<1>2. walk.mark > 0 /\ t = walk.pi - walk.star - 1
  BY DEF BlockOK
<1>3. t \in Nat /\ walk.star + t = walk.pi - 1 /\ walk.star + t <= Len(walk.pat)
      /\ walk.star \in 0..Len(walk.pat) /\ j \in 0..Len(walk.s)
  <2>1. t \in Nat
    BY <1>0
  <2>2. walk.star + t = walk.pi - 1 /\ walk.star + t <= Len(walk.pat)
    <3>1. t = walk.pi - walk.star - 1 /\ walk.pi \in Int /\ walk.star \in Int
      BY <1>0, <1>2
    <3>2. \A a, b \in Int : a + (b - a - 1) = b - 1
      OBVIOUS
    <3> HIDE DEF t
    <3>3. walk.star + t = walk.pi - 1
      BY <3>1, <3>2
    <3>4. walk.pi - 1 <= Len(walk.pat)
      BY <1>0, <1>1
    <3> QED  BY <3>3, <3>4
  <2>3. walk.star \in 0..Len(walk.pat)
    BY <1>0, <1>1
  <2>4. j \in 0..Len(walk.s)
    BY <1>0, <1>1, <1>2
  <2> QED  BY <2>1, <2>2, <2>3, <2>4
<1>4. \A k \in 1..t : walk.star + k \in (walk.star + 1)..(walk.pi - 1)
  BY SMTT(30), <1>1, <1>2
<1>5. \A k \in 1..t : walk.star + k \notin Stars(walk.pat)
  BY <1>4 DEF BlockOK
<1> HIDE DEF t
<1>6. Rest(walk.pat, walk.s, walk.star, j) <=>
             /\ j + t <= Len(walk.s)
             /\ \A k \in 1..t : <<walk.star + k, j + k>> \in Singles(walk.pat, walk.s)
             /\ Rest(walk.pat, walk.s, walk.star + t, j + t)
  BY <1>1, <1>3, <1>5, RestBlock
<1> QED  BY <1>3, <1>6 DEF t

\* In particular from where the star has got to: what is left where the walk is.
LEMMA FromMark ==
  ASSUME WalkTypeOK, BlockOK, walk.star > 0
  PROVE  /\ walk.mark - 1 \in (walk.mark - 1)..Len(walk.s)
         /\ Rest(walk.pat, walk.s, walk.star, walk.mark - 1)
            <=> Rest(walk.pat, walk.s, walk.pi - 1, walk.si - 1)
<1> DEFINE t == walk.si - walk.mark
           j == walk.mark - 1
<1>1. /\ walk.pi \in 1..(Len(walk.pat) + 1) /\ walk.si \in 1..(Len(walk.s) + 1)
      /\ walk.star \in 0..(walk.pi - 1) /\ walk.mark \in 0..walk.si
      /\ Len(walk.pat) \in Nat /\ Len(walk.s) \in Nat
  BY DEF WalkTypeOK
<1>0. /\ walk.pi \in Int /\ walk.si \in Int /\ walk.star \in Int /\ walk.mark \in Int
      /\ walk.pi <= Len(walk.pat) + 1 /\ walk.si <= Len(walk.s) + 1
      /\ 0 <= walk.star /\ walk.star <= walk.pi - 1
      /\ 0 <= walk.mark /\ walk.mark <= walk.si
  BY <1>1
<1>2. walk.mark > 0 /\ t = walk.pi - walk.star - 1
  BY DEF BlockOK
<1>3. j \in (walk.mark - 1)..Len(walk.s) /\ j + t = walk.si - 1 /\ j + t <= Len(walk.s)
  <2>1. j \in (walk.mark - 1)..Len(walk.s)
    BY SMTT(30), <1>0, <1>1, <1>2
  <2>2. j + t = walk.si - 1
    <3>1. walk.si \in Int /\ walk.mark \in Int
      BY <1>0
    <3>2. \A a, b \in Int : (b - 1) + (a - b) = a - 1
      OBVIOUS
    <3> QED  BY <3>1, <3>2
  <2>3. walk.si - 1 <= Len(walk.s)
    BY <1>0, <1>1
  <2> QED  BY <2>1, <2>2, <2>3
<1>4. ASSUME NEW k \in 1..t
      PROVE  <<walk.star + k, j + k>> \in Singles(walk.pat, walk.s)
  <2>1. /\ walk.star + k \in (walk.star + 1)..(walk.pi - 1)
        /\ walk.mark + (walk.star + k) - walk.star - 1 = j + k
    <3>1. \A a, b, c, i \in Int : i \in 1..(b - a - 1) =>
                 a + i \in (a + 1)..(b - 1) /\ c + (a + i) - a - 1 = (c - 1) + i
      OBVIOUS
    <3>2. /\ walk.star \in Int /\ walk.pi \in Int /\ walk.mark \in Int
          /\ k \in Int /\ k \in 1..(walk.pi - walk.star - 1)
      BY <1>0, <1>2
    <3> QED  BY <3>1, <3>2
  <2>2. <<walk.star + k, walk.mark + (walk.star + k) - walk.star - 1>>
           \in Singles(walk.pat, walk.s)
    BY <2>1 DEF BlockOK
  <2> QED  BY <2>1, <2>2
<1>5. Rest(walk.pat, walk.s, walk.star, j) <=>
             /\ j + t <= Len(walk.s)
             /\ \A k \in 1..t : <<walk.star + k, j + k>> \in Singles(walk.pat, walk.s)
             /\ Rest(walk.pat, walk.s, walk.pi - 1, j + t)
  BY SMTT(30), <1>1, <1>3, SinceStar
<1>6. j + t = walk.si - 1
  BY <1>3
<1>7. Rest(walk.pat, walk.s, walk.star, j) <=> Rest(walk.pat, walk.s, walk.pi - 1, walk.si - 1)
  <2> HIDE DEF t, j
  <2> QED  BY <1>3, <1>4, <1>5, <1>6
<1> QED  BY <1>3, <1>7

\* Nothing fits from a place where pattern and segment disagree.
LEMMA StuckThere ==
  ASSUME WalkTypeOK, Walks, Stuck
  PROVE  ~Rest(walk.pat, walk.s, walk.pi - 1, walk.si - 1)
<1>1. /\ walk.pat \in Seq(Char) /\ walk.s \in Seq(Char)
      /\ walk.pi \in 1..(Len(walk.pat) + 1) /\ walk.si \in 1..Len(walk.s)
      /\ Len(walk.pat) \in Nat /\ Len(walk.s) \in Nat
  BY DEF WalkTypeOK, Walks
<1>2. CASE walk.pi > Len(walk.pat)
  <2>1. walk.pi - 1 = Len(walk.pat) /\ walk.si - 1 \in 0..Len(walk.s)
        /\ walk.si - 1 # Len(walk.s)
    BY <1>1, <1>2
  <2>2. Rest(walk.pat, walk.s, Len(walk.pat), walk.si - 1) <=> walk.si - 1 = Len(walk.s)
    BY <1>1, <2>1, FitEnd DEF Rest
  <2> QED  BY <2>1, <2>2
<1>3. CASE walk.pi <= Len(walk.pat)
  <2>1. /\ walk.pi - 1 \in 0..(Len(walk.pat) - 1) /\ walk.si - 1 \in 0..Len(walk.s)
        /\ (walk.pi - 1) + 1 = walk.pi /\ (walk.si - 1) + 1 = walk.si
    BY <1>1, <1>3
  <2>2. walk.pat[walk.pi] \notin {"?", walk.s[walk.si]} /\ walk.pat[walk.pi] \notin {"*"}
    BY <1>3 DEF Stuck, Agrees, Ahead
  <2>3. walk.pi \notin Stars(walk.pat)
    BY <2>2 DEF Stars
  <2>4. <<walk.pi, walk.si>> \notin Singles(walk.pat, walk.s)
    BY <2>2 DEF Singles
  <2>5. (walk.pi - 1) + 1 \notin Stars(walk.pat)
    BY <2>1, <2>3
  <2>6. Rest(walk.pat, walk.s, walk.pi - 1, walk.si - 1)
           => <<(walk.pi - 1) + 1, (walk.si - 1) + 1>> \in Singles(walk.pat, walk.s)
    BY <1>1, <2>1, <2>5, RestOne
  <2> QED  BY <2>1, <2>4, <2>6
<1> QED  BY <1>1, <1>2, <1>3

\* The bounds of the walk, in a form for arithmetic.
LEMMA WalkBounds ==
  ASSUME WalkTypeOK
  PROVE  /\ walk.pi \in Int /\ walk.si \in Int /\ walk.star \in Int /\ walk.mark \in Int
         /\ Len(walk.pat) \in Nat /\ Len(walk.s) \in Nat
         /\ 1 <= walk.pi /\ walk.pi <= Len(walk.pat) + 1
         /\ 1 <= walk.si /\ walk.si <= Len(walk.s) + 1
         /\ 0 <= walk.star /\ walk.star <= walk.pi - 1
         /\ 0 <= walk.mark /\ walk.mark <= walk.si
<1>1. /\ walk.pat \in Seq(Char) /\ walk.s \in Seq(Char)
      /\ walk.pi \in 1..(Len(walk.pat) + 1) /\ walk.si \in 1..(Len(walk.s) + 1)
      /\ walk.star \in 0..(walk.pi - 1) /\ walk.mark \in 0..walk.si
  BY DEF WalkTypeOK
<1>2. Len(walk.pat) \in Nat /\ Len(walk.s) \in Nat
  BY <1>1
<1>3. walk.pi \in Int /\ walk.si \in Int
  BY <1>1, <1>2
<1> QED  BY <1>1, <1>2, <1>3

\* A step onto the next characters: what was to be found still is.
LEMMA StepKeeps ==
  ASSUME GlobIInv, Step
  PROVE  GlobIInv'
<1> USE DEF GlobIInv
<1>1. WalkTypeOK /\ BlockOK /\ WalkOK /\ Walks
  BY DEF Step
<1>2. /\ walk.pi \in Int /\ walk.si \in Int /\ walk.star \in Int /\ walk.mark \in Int
      /\ Len(walk.pat) \in Nat /\ Len(walk.s) \in Nat
      /\ 1 <= walk.pi /\ walk.pi <= Len(walk.pat) + 1
      /\ 1 <= walk.si /\ walk.si <= Len(walk.s) + 1
      /\ 0 <= walk.star /\ walk.star <= walk.pi - 1
      /\ 0 <= walk.mark /\ walk.mark <= walk.si
  BY <1>1, WalkBounds
<1>3. /\ walk.si <= Len(walk.s) /\ walk.verdict = "none"
      /\ walk.pi <= Len(walk.pat) /\ walk.pat[walk.pi] \in {"?", walk.s[walk.si]}
  BY DEF Step, Walks, Agrees, Ahead
<1>4. walk' = [pat |-> walk.pat, s |-> walk.s, pi |-> walk.pi + 1, si |-> walk.si + 1,
               star |-> walk.star, mark |-> walk.mark, verdict |-> walk.verdict]
  BY <1>1 DEF Step, WalkTypeOK
<1>5. walk.pi \in DOMAIN walk.pat /\ walk.si \in DOMAIN walk.s
      /\ walk.pat \in Seq(Char) /\ walk.s \in Seq(Char)
  <2>1. walk.pat \in Seq(Char) /\ walk.s \in Seq(Char)
    BY <1>1 DEF WalkTypeOK
  <2> QED  BY <1>2, <1>3, <2>1
<1>6. walk.pi \notin Stars(walk.pat) /\ <<walk.pi, walk.si>> \in Singles(walk.pat, walk.s)
  <2>1. walk.s[walk.si] # "*"
    BY <1>1, <1>5 DEF WalkTypeOK
  <2>2. walk.pat[walk.pi] # "*"
    BY <1>3, <2>1
  <2> QED  BY <1>3, <1>5, <2>2 DEF Stars, Singles
<1>7. WalkTypeOK'
  <2>1. \A i \in DOMAIN walk.s : walk.s[i] # "*"
    BY <1>1 DEF WalkTypeOK
  <2>2. walk.pi + 1 \in 1..(Len(walk.pat) + 1)
    BY <1>2, <1>3
  <2>3. walk.si + 1 \in 1..(Len(walk.s) + 1)
    BY SMTT(30), <1>2, <1>3
  <2>4. walk.star \in 0..((walk.pi + 1) - 1)
    BY <1>2
  <2>5. walk.mark \in 0..(walk.si + 1)
    BY <1>2
  <2> QED  BY <1>4, <1>5, <2>1, <2>2, <2>3, <2>4, <2>5 DEF WalkTypeOK
<1>8. BlockOK'
  <2> SUFFICES ASSUME walk.star > 0
               PROVE  /\ walk.mark > 0 /\ (walk.si + 1) - walk.mark = (walk.pi + 1) - walk.star - 1
                      /\ \A k \in (walk.star + 1)..((walk.pi + 1) - 1) :
                            /\ k \notin Stars(walk.pat)
                            /\ <<k, walk.mark + k - walk.star - 1>> \in Singles(walk.pat, walk.s)
    BY <1>4 DEF BlockOK
  <2>1. /\ walk.mark > 0 /\ walk.si - walk.mark = walk.pi - walk.star - 1
        /\ \A k \in (walk.star + 1)..(walk.pi - 1) :
              /\ k \notin Stars(walk.pat)
              /\ <<k, walk.mark + k - walk.star - 1>> \in Singles(walk.pat, walk.s)
    BY <1>1 DEF BlockOK
  <2>2. \A k \in (walk.star + 1)..((walk.pi + 1) - 1) :
           k \in (walk.star + 1)..(walk.pi - 1) \/ k = walk.pi
    BY <1>2
  <2>3. walk.mark + walk.pi - walk.star - 1 = walk.si
    <3>1. walk.si - walk.mark = walk.pi - walk.star - 1
      BY <2>1
    <3> QED  BY <1>2, <3>1
  <2>4. (walk.si + 1) - walk.mark = (walk.pi + 1) - walk.star - 1
    <3>1. walk.si - walk.mark = walk.pi - walk.star - 1
      BY <2>1
    <3>2. (walk.si + 1) - walk.mark = (walk.si - walk.mark) + 1
      BY <1>2
    <3>3. (walk.pi + 1) - walk.star - 1 = (walk.pi - walk.star - 1) + 1
      <4>1. walk.pi \in Int /\ walk.star \in Int
        BY <1>2
      <4>2. \A a, b \in Int : (a + 1) - b - 1 = (a - b - 1) + 1
        OBVIOUS
      <4> QED  BY <4>1, <4>2
    <3> QED  BY <3>1, <3>2, <3>3
  <2> QED  BY <1>6, <2>1, <2>2, <2>3, <2>4
<1>9. WalkOK'
  <2>1. /\ walk.pi - 1 \in 0..(Len(walk.pat) - 1) /\ walk.si - 1 \in 0..Len(walk.s)
        /\ (walk.pi - 1) + 1 = walk.pi /\ (walk.si - 1) + 1 = walk.si
        /\ walk.si - 1 < Len(walk.s)
        /\ (walk.pi + 1) - 1 = walk.pi /\ (walk.si + 1) - 1 = walk.si
    <3>1. walk.pi - 1 \in 0..(Len(walk.pat) - 1)
      BY <1>2, <1>3
    <3>2. walk.si - 1 \in 0..Len(walk.s)
      BY <1>2, <1>3
    <3>3. /\ (walk.pi - 1) + 1 = walk.pi /\ (walk.si - 1) + 1 = walk.si
          /\ walk.si - 1 < Len(walk.s)
          /\ (walk.pi + 1) - 1 = walk.pi /\ (walk.si + 1) - 1 = walk.si
      BY <1>2, <1>3
    <3> QED  BY <3>1, <3>2, <3>3
  <2>2. (walk.pi - 1) + 1 \notin Stars(walk.pat)
    BY <1>6, <2>1
  <2>3. Rest(walk.pat, walk.s, walk.pi - 1, walk.si - 1)
        <=> Rest(walk.pat, walk.s, walk.pi, walk.si)
    <3>1. Rest(walk.pat, walk.s, walk.pi - 1, walk.si - 1) <=>
            /\ walk.si - 1 < Len(walk.s)
            /\ <<(walk.pi - 1) + 1, (walk.si - 1) + 1>> \in Singles(walk.pat, walk.s)
            /\ Rest(walk.pat, walk.s, (walk.pi - 1) + 1, (walk.si - 1) + 1)
      BY <1>5, <2>1, <2>2, RestOne
    <3> QED  BY <1>6, <2>1, <3>1
  <2>4. Rest(walk.pat, walk.s, (walk.pi + 1) - 1, (walk.si + 1) - 1)
        <=> Rest(walk.pat, walk.s, walk.pi - 1, walk.si - 1)
    BY <2>1, <2>3
  <2> QED  BY <1>1, <1>3, <1>4, <2>4 DEF WalkOK
<1> QED  BY <1>7, <1>8, <1>9

\* A star: it may take any run of characters, from where the walk is; the one
\* before it need not be looked at again, as this one can take what that would.
LEMMA StarKeeps ==
  ASSUME GlobIInv, Star
  PROVE  GlobIInv'
<1> USE DEF GlobIInv
<1>1. WalkTypeOK /\ BlockOK /\ WalkOK /\ Walks
  BY DEF Star
<1>2. /\ walk.pi \in Int /\ walk.si \in Int /\ walk.star \in Int /\ walk.mark \in Int
      /\ Len(walk.pat) \in Nat /\ Len(walk.s) \in Nat
      /\ 1 <= walk.pi /\ walk.pi <= Len(walk.pat) + 1
      /\ 1 <= walk.si /\ walk.si <= Len(walk.s) + 1
      /\ 0 <= walk.star /\ walk.star <= walk.pi - 1
      /\ 0 <= walk.mark /\ walk.mark <= walk.si
  BY <1>1, WalkBounds
<1>3. /\ walk.si <= Len(walk.s) /\ walk.verdict = "none"
      /\ walk.pi <= Len(walk.pat) /\ walk.pat[walk.pi] = "*"
  BY DEF Star, Walks, AtStar, Ahead
<1>4. walk' = [pat |-> walk.pat, s |-> walk.s, pi |-> walk.pi + 1, si |-> walk.si,
               star |-> walk.pi, mark |-> walk.si, verdict |-> walk.verdict]
  BY <1>1 DEF Star, WalkTypeOK
<1>5. walk.pi \in DOMAIN walk.pat /\ walk.pat \in Seq(Char) /\ walk.s \in Seq(Char)
  <2>1. walk.pat \in Seq(Char) /\ walk.s \in Seq(Char)
    BY <1>1 DEF WalkTypeOK
  <2> QED  BY <1>2, <1>3, <2>1
<1>6. walk.pi \in Stars(walk.pat)
  BY <1>3, <1>5 DEF Stars
<1>7. WalkTypeOK'
  <2>1. \A i \in DOMAIN walk.s : walk.s[i] # "*"
    BY <1>1 DEF WalkTypeOK
  <2>2. walk.pi + 1 \in 1..(Len(walk.pat) + 1)
    BY <1>2, <1>3
  <2>3. walk.si \in 1..(Len(walk.s) + 1)
    BY <1>2
  <2>4. walk.pi \in 0..((walk.pi + 1) - 1)
    BY <1>2
  <2>5. walk.si \in 0..walk.si
    BY <1>2
  <2> QED  BY <1>4, <1>5, <2>1, <2>2, <2>3, <2>4, <2>5 DEF WalkTypeOK
<1>8. BlockOK'
  <2>1. \A k \in (walk.pi + 1)..((walk.pi + 1) - 1) : FALSE
    BY <1>2
  <2>2. walk.si > 0
    BY <1>2
  <2>3. walk.si - walk.si = 0 /\ (walk.pi + 1) - walk.pi - 1 = 0
    BY <1>2
  <2> QED  BY <1>4, <2>1, <2>2, <2>3 DEF BlockOK
<1>9. WalkOK'
  <2>1. walk.pi - 1 \in 0..(Len(walk.pat) - 1)
    BY <1>2, <1>3
  <2>2. walk.si - 1 \in 0..Len(walk.s)
    BY <1>2, <1>3
  <2>3. (walk.pi - 1) + 1 = walk.pi
    BY <1>2
  <2>4. (walk.pi - 1) + 1 \in Stars(walk.pat)
    BY <1>6, <2>3
  <2>5. \A j \in 0..Len(walk.s) :
           Rest(walk.pat, walk.s, walk.pi - 1, j)
           <=> \E k \in j..Len(walk.s) : Rest(walk.pat, walk.s, walk.pi, k)
    <3> TAKE j \in 0..Len(walk.s)
    <3>1. Rest(walk.pat, walk.s, walk.pi - 1, j)
           <=> \E k \in j..Len(walk.s) : Rest(walk.pat, walk.s, (walk.pi - 1) + 1, k)
      BY <1>5, <2>1, <2>4, RestStar
    <3> QED  BY <2>3, <3>1
  <2>6. Spelled(walk.pat, walk.s) <=>
             \E k \in (walk.si - 1)..Len(walk.s) : Rest(walk.pat, walk.s, walk.pi, k)
    <3>1. CASE walk.star = 0
      <4>1. Spelled(walk.pat, walk.s) <=> Rest(walk.pat, walk.s, walk.pi - 1, walk.si - 1)
        BY <1>1, <1>3, <3>1 DEF WalkOK
      <4>2. Rest(walk.pat, walk.s, walk.pi - 1, walk.si - 1) <=>
               \E k \in (walk.si - 1)..Len(walk.s) : Rest(walk.pat, walk.s, walk.pi, k)
        BY <2>2, <2>5
      <4> QED  BY <4>1, <4>2 DEF Spelled, Cut
    <3>2. CASE walk.star > 0
      <4>1. Spelled(walk.pat, walk.s) <=>
              \E k \in (walk.mark - 1)..Len(walk.s) : Rest(walk.pat, walk.s, walk.star, k)
        BY <1>1, <1>2, <1>3, <3>2 DEF WalkOK
      <4>2. ASSUME NEW j \in (walk.mark - 1)..Len(walk.s),
                   Rest(walk.pat, walk.s, walk.star, j)
            PROVE  \E k \in (walk.si - 1)..Len(walk.s) : Rest(walk.pat, walk.s, walk.pi, k)
        <5> DEFINE t == walk.si - walk.mark
        <5>1. j + t <= Len(walk.s) /\ Rest(walk.pat, walk.s, walk.pi - 1, j + t)
          BY <1>1, <1>2, <3>2, <4>2, SinceStar
        <5>2. j \in Int /\ walk.mark - 1 <= j
          BY <1>2
        <5>3. j + t \in Int /\ walk.si - 1 <= j + t
          BY <1>2, <5>2
        <5> HIDE DEF t
        <5>4. j + t \in 0..Len(walk.s)
          BY <1>2, <5>1, <5>3
        <5>5. PICK k \in (j + t)..Len(walk.s) : Rest(walk.pat, walk.s, walk.pi, k)
          BY <2>5, <5>1, <5>4
        <5>6. k \in (walk.si - 1)..Len(walk.s)
          BY <1>2, <5>3
        <5> QED  BY <5>5, <5>6
      <4>3. ASSUME NEW k \in (walk.si - 1)..Len(walk.s), Rest(walk.pat, walk.s, walk.pi, k)
            PROVE  \E j \in (walk.mark - 1)..Len(walk.s) : Rest(walk.pat, walk.s, walk.star, j)
        <5>1. Rest(walk.pat, walk.s, walk.pi - 1, walk.si - 1)
          BY <2>2, <2>5, <4>3
        <5> QED  BY <1>1, <3>2, <5>1, FromMark
      <4> QED  BY <4>1, <4>2, <4>3, Zenon DEF Spelled, Cut
    <3> QED  BY <1>2, <3>1, <3>2
  <2>7. walk.pi # 0 /\ walk'.verdict = "none"
    BY <1>2, <1>3, <1>4
  <2> QED  BY <1>4, <2>6, <2>7 DEF WalkOK
<1> QED  BY <1>7, <1>8, <1>9

\* Stuck after a star: it takes one character more, as with those it has there
\* is no match.
LEMMA BacktrackKeeps ==
  ASSUME GlobIInv, Backtrack
  PROVE  GlobIInv'
<1> USE DEF GlobIInv
<1>1. WalkTypeOK /\ BlockOK /\ WalkOK /\ Walks /\ Stuck /\ walk.star > 0
  BY DEF Backtrack
<1>2. /\ walk.pi \in Int /\ walk.si \in Int /\ walk.star \in Int /\ walk.mark \in Int
      /\ Len(walk.pat) \in Nat /\ Len(walk.s) \in Nat
      /\ 1 <= walk.pi /\ walk.pi <= Len(walk.pat) + 1
      /\ 1 <= walk.si /\ walk.si <= Len(walk.s) + 1
      /\ 0 <= walk.star /\ walk.star <= walk.pi - 1
      /\ 0 <= walk.mark /\ walk.mark <= walk.si
  BY <1>1, WalkBounds
<1>3. walk.si <= Len(walk.s) /\ walk.verdict = "none" /\ walk.mark > 0
  BY <1>1 DEF Walks, BlockOK
<1>4. walk' = [pat |-> walk.pat, s |-> walk.s, pi |-> walk.star + 1, si |-> walk.mark + 1,
               star |-> walk.star, mark |-> walk.mark + 1, verdict |-> walk.verdict]
  BY <1>1 DEF Backtrack, Swallows, WalkTypeOK
<1>7. WalkTypeOK'
  <2>1. /\ \A i \in DOMAIN walk.s : walk.s[i] # "*"
        /\ walk.pat \in Seq(Char) /\ walk.s \in Seq(Char)
    BY <1>1 DEF WalkTypeOK
  <2>2. walk.star + 1 \in 1..(Len(walk.pat) + 1)
    BY <1>2, <1>3
  <2>3. walk.mark + 1 \in 1..(Len(walk.s) + 1)
    BY SMTT(30), <1>2, <1>3
  <2>4. walk.star \in 0..((walk.star + 1) - 1)
    BY <1>2
  <2>5. walk.mark + 1 \in 0..(walk.mark + 1)
    BY <1>2
  <2> QED  BY <1>4, <2>1, <2>2, <2>3, <2>4, <2>5 DEF WalkTypeOK
<1>8. BlockOK'
  <2>1. \A k \in (walk.star + 1)..((walk.star + 1) - 1) : FALSE
    BY <1>2
  <2>2. walk.mark + 1 > 0
    BY <1>2
  <2>3. (walk.mark + 1) - (walk.mark + 1) = 0 /\ (walk.star + 1) - walk.star - 1 = 0
    BY <1>2
  <2> QED  BY <1>4, <2>1, <2>2, <2>3 DEF BlockOK
<1>9. WalkOK'
  <2>1. ~Rest(walk.pat, walk.s, walk.star, walk.mark - 1)
    BY <1>1, FromMark, StuckThere
  <2>2. Spelled(walk.pat, walk.s) <=>
           \E k \in (walk.mark - 1)..Len(walk.s) : Rest(walk.pat, walk.s, walk.star, k)
    BY <1>1, <1>2, <1>3 DEF WalkOK
  <2>3. \A k \in (walk.mark - 1)..Len(walk.s) :
           k = walk.mark - 1 \/ k \in ((walk.mark + 1) - 1)..Len(walk.s)
    BY <1>2
  <2>4. \A k \in ((walk.mark + 1) - 1)..Len(walk.s) : k \in (walk.mark - 1)..Len(walk.s)
    BY <1>2
  <2>5. Spelled(walk.pat, walk.s) <=>
           \E k \in ((walk.mark + 1) - 1)..Len(walk.s) : Rest(walk.pat, walk.s, walk.star, k)
    BY <2>1, <2>2, <2>3, <2>4, Zenon DEF Spelled, Cut
  <2>6. walk.star # 0
    BY <1>1, <1>2
  <2> QED  BY <1>3, <1>4, <2>5, <2>6 DEF WalkOK
<1> QED  BY <1>7, <1>8, <1>9

\* Stuck without a star: nothing fits.
LEMMA MismatchKeeps ==
  ASSUME GlobIInv, Mismatch
  PROVE  GlobIInv'
<1> USE DEF GlobIInv
<1>1. WalkTypeOK /\ BlockOK /\ WalkOK /\ Walks /\ Stuck /\ walk.star = 0
  BY DEF Mismatch
<1>2. walk' = [pat |-> walk.pat, s |-> walk.s, pi |-> walk.pi, si |-> walk.si,
               star |-> walk.star, mark |-> walk.mark, verdict |-> "differs"]
  BY <1>1 DEF Mismatch, WalkTypeOK
<1>3. WalkTypeOK' /\ BlockOK'
  BY <1>1, <1>2 DEF WalkTypeOK, BlockOK
<1>4. ~Spelled(walk.pat, walk.s)
  <2>1. walk.verdict = "none"
    BY <1>1 DEF Walks
  <2>2. Spelled(walk.pat, walk.s) <=> Rest(walk.pat, walk.s, walk.pi - 1, walk.si - 1)
    BY <1>1, <2>1 DEF WalkOK
  <2> QED  BY <1>1, <2>2, StuckThere
<1>5. Spelled(walk.pat, walk.s) = FALSE
  BY <1>4 DEF Spelled, Cut
<1> QED  BY <1>2, <1>3, <1>5 DEF WalkOK

\* At the end of the segment the rest of the pattern must be stars.
LEMMA EndWalkKeeps ==
  ASSUME GlobIInv, EndWalk
  PROVE  GlobIInv'
<1> USE DEF GlobIInv
<1> DEFINE stars == \A i \in walk.pi..Len(walk.pat) : walk.pat[i] = "*"
           verdict == IF stars THEN "match" ELSE "differs"
<1>1. WalkTypeOK /\ BlockOK /\ WalkOK /\ walk.verdict = "none" /\ walk.si > Len(walk.s)
  BY DEF EndWalk
<1>2. /\ walk.pi \in Int /\ walk.si \in Int /\ walk.star \in Int /\ walk.mark \in Int
      /\ Len(walk.pat) \in Nat /\ Len(walk.s) \in Nat
      /\ 1 <= walk.pi /\ walk.pi <= Len(walk.pat) + 1
      /\ 1 <= walk.si /\ walk.si <= Len(walk.s) + 1
      /\ 0 <= walk.star /\ walk.star <= walk.pi - 1
      /\ 0 <= walk.mark /\ walk.mark <= walk.si
  BY <1>1, WalkBounds
<1>3. walk' = [pat |-> walk.pat, s |-> walk.s, pi |-> walk.pi, si |-> walk.si,
               star |-> walk.star, mark |-> walk.mark, verdict |-> verdict]
  BY <1>1 DEF EndWalk, WalkTypeOK
<1>4. WalkTypeOK' /\ BlockOK'
  <2> HIDE DEF verdict
  <2> QED  BY <1>1, <1>3 DEF WalkTypeOK, BlockOK
<1>5. Rest(walk.pat, walk.s, walk.pi - 1, walk.si - 1) <=> stars
  <2>1. walk.pi - 1 \in 0..Len(walk.pat)
    BY <1>2
  <2>2. (walk.pi - 1) + 1 = walk.pi /\ walk.si - 1 = Len(walk.s)
    BY <1>1, <1>2
  <2>3. walk.pat \in Seq(Char) /\ walk.s \in Seq(Char)
    BY <1>1 DEF WalkTypeOK
  <2>4. Rest(walk.pat, walk.s, walk.pi - 1, Len(walk.s))
        <=> \A k \in ((walk.pi - 1) + 1)..Len(walk.pat) : walk.pat[k] = "*"
    BY <2>1, <2>3, RestStars
  <2> QED  BY <2>2, <2>4
<1>6. Spelled(walk.pat, walk.s) <=> stars
  <2>1. CASE walk.star = 0
    BY <1>1, <1>5, <2>1 DEF WalkOK
  <2>2. CASE walk.star > 0
    <3>1. Spelled(walk.pat, walk.s) <=>
              \E k \in (walk.mark - 1)..Len(walk.s) : Rest(walk.pat, walk.s, walk.star, k)
      BY <1>1, <1>2, <2>2 DEF WalkOK
    <3>2. /\ walk.mark - 1 \in (walk.mark - 1)..Len(walk.s)
          /\ Rest(walk.pat, walk.s, walk.star, walk.mark - 1)
            <=> Rest(walk.pat, walk.s, walk.pi - 1, walk.si - 1)
      BY <1>1, <2>2, FromMark
    <3>3. ASSUME NEW k \in (walk.mark - 1)..Len(walk.s), Rest(walk.pat, walk.s, walk.star, k)
          PROVE  k = walk.mark - 1
      <4>1. k + (walk.si - walk.mark) <= Len(walk.s)
        BY <1>1, <1>2, <2>2, <3>3, SinceStar
      <4>2. k \in Int /\ walk.mark - 1 <= k /\ walk.si - 1 = Len(walk.s)
        BY SMTT(30), <1>1, <1>2
      <4> QED  BY SMTT(30), <1>2, <4>1, <4>2
    <3> HIDE DEF stars
    <3> QED  BY <1>5, <3>1, <3>2, <3>3, Zenon
  <2> QED  BY <1>2, <2>1, <2>2
<1>7. (verdict = "match") = Spelled(walk.pat, walk.s) /\ verdict # "none"
  <2>1. Spelled(walk.pat, walk.s) \in BOOLEAN
    BY DEF Spelled, Cut
  <2> HIDE DEF stars
  <2> QED  BY <1>6, <2>1
<1> HIDE DEF verdict
<1>8. WalkOK'
  BY <1>3, <1>7 DEF WalkOK
<1> QED  BY <1>4, <1>8

\* What a path pattern means, as a fit of its segments.
Depths(pat) == {k \in DOMAIN pat : pat[k] = AnyDepth}
Segments(pat, path) == {p \in (DOMAIN pat) \X (DOMAIN path) : Spelled(pat[p[1]], path[p[2]])}
Onto(pat, path, i, j) == Fit(Len(pat), Len(path), Depths(pat), Segments(pat, path), i, j)

LEMMA CoversOnto ==
  ASSUME NEW S, NEW R, NEW pat \in Seq(S), NEW path \in Seq(R)
  PROVE  Covers(pat, path) <=> Onto(pat, path, 0, 0)
<1>1. Len(pat) \in Nat /\ Len(path) \in Nat
  OBVIOUS
<1>2. ASSUME NEW f \in [0..Len(pat) -> 0..Len(path)], NEW i \in 1..Len(pat)
      PROVE  (pat[i] = AnyDepth \/ (f[i] = f[i - 1] + 1 /\ Spelled(pat[i], path[f[i]])))
             <=> (i \in Depths(pat) \/ (f[i] = f[i - 1] + 1 /\ <<i, f[i]>> \in Segments(pat, path)))
  <2>1. i \in 0..Len(pat) /\ i - 1 \in 0..Len(pat) /\ i \in DOMAIN pat
    BY <1>1
  <2>2. i \in Depths(pat) <=> pat[i] = AnyDepth
    BY <2>1 DEF Depths
  <2>3. f[i] = f[i - 1] + 1 => f[i] \in DOMAIN path
    BY <1>1, <2>1
  <2>4. f[i] \in DOMAIN path =>
           (<<i, f[i]>> \in Segments(pat, path) <=> Spelled(pat[i], path[f[i]]))
    BY <2>1 DEF Segments
  <2> QED  BY <2>2, <2>3, <2>4
<1>3. Covers(pat, path) <=>
        \E f \in [0..Len(pat) -> 0..Len(path)] :
            /\ f[0] = 0 /\ f[Len(pat)] = Len(path)
            /\ \A i \in 1..Len(pat) :
                  /\ f[i - 1] <= f[i]
                  /\ pat[i] = AnyDepth \/ (f[i] = f[i - 1] + 1 /\ Spelled(pat[i], path[f[i]]))
  BY Zenon DEF Covers, Cut
<1>4. Onto(pat, path, 0, 0) <=>
        \E f \in [0..Len(pat) -> 0..Len(path)] :
            /\ f[0] = 0 /\ f[Len(pat)] = Len(path)
            /\ \A i \in 1..Len(pat) :
                  /\ f[i - 1] <= f[i]
                  /\ \/ i \in Depths(pat)
                     \/ (f[i] = f[i - 1] + 1 /\ <<i, f[i]>> \in Segments(pat, path))
  <2>1. 0 + 1 = 1
    OBVIOUS
  <2> QED  BY <2>1, Zenon DEF Onto, Fit
<1> QED  BY <1>2, <1>3, <1>4, Zenon

\* The recursion finds what is left of the pattern in what is left of the path.
LEMMA MatchOnto ==
  ASSUME NEW S, NEW R, NEW pat \in Seq(S), NEW path \in Seq(R)
  PROVE  MatchSegments(pat, path) <=> Onto(pat, path, 0, 0)
<1> DEFINE n == Len(pat)
           len == Len(path)
           On(F, i, j) == IF pat[i] = AnyDepth
                          THEN i = n \/ \E k \in j..(len + 1) : k \in F[i + 1]
                          ELSE j <= len /\ Spelled(pat[i], path[j]) /\ j + 1 \in F[i + 1]
           At(F, i) == IF i > n THEN {len + 1} ELSE {j \in 1..(len + 1) : On(F, i, j)}
           Found(F) == F = [i \in 1..(n + 1) |-> At(F, i)]
           From == CHOOSE F : Found(F)
           g == [i \in 1..(n + 1) |-> {j \in 1..(len + 1) : Onto(pat, path, i - 1, j - 1)}]
<1>0. n \in Nat /\ len \in Nat
  OBVIOUS
<1>1. MatchSegments(pat, path) <=> 1 \in From[1]
  BY Zenon DEF MatchSegments
<1>2. ASSUME NEW i \in 1..(n + 1), NEW j \in 1..(len + 1), i > n
      PROVE  Onto(pat, path, i - 1, j - 1) <=> j > len
  <2>1. i - 1 = n /\ j - 1 \in 0..len
    BY <1>0, <1>2
  <2>2. Onto(pat, path, n, j - 1) <=> j - 1 = len
    BY <1>0, <2>1, FitEnd DEF Onto
  <2>3. j - 1 = len <=> j > len
    BY <1>0
  <2> QED  BY <2>1, <2>2, <2>3
<1>3. ASSUME NEW i \in 1..n, NEW j \in 1..(len + 1)
      PROVE  Onto(pat, path, i - 1, j - 1) <=>
               \E k \in (j - 1)..len :
                  /\ pat[i] = AnyDepth \/ (k = j /\ <<i, k>> \in Segments(pat, path))
                  /\ Onto(pat, path, i, k)
  <2>1. i - 1 \in 0..(n - 1) /\ j - 1 \in 0..len /\ (i - 1) + 1 = i /\ (j - 1) + 1 = j
    BY <1>0
  <2>2. Onto(pat, path, i - 1, j - 1) <=>
           \E k \in (j - 1)..len :
              /\ \/ (i - 1) + 1 \in Depths(pat)
                 \/ (k = (j - 1) + 1 /\ <<(i - 1) + 1, k>> \in Segments(pat, path))
              /\ Onto(pat, path, (i - 1) + 1, k)
    BY <1>0, <2>1, FitStep DEF Onto
  <2>3. i \in Depths(pat) <=> pat[i] = AnyDepth
    BY <1>0 DEF Depths
  <2> HIDE DEF n, len
  <2> QED  BY <2>1, <2>2, <2>3
<1>4. ASSUME NEW i \in 1..n, NEW j \in 1..(len + 1), pat[i] = AnyDepth
      PROVE  Onto(pat, path, i - 1, j - 1)
             <=> i = n \/ \E k \in j..(len + 1) : Onto(pat, path, i, k - 1)
  <2>1. Onto(pat, path, i - 1, j - 1) <=> \E k \in (j - 1)..len : Onto(pat, path, i, k)
    BY <1>3, <1>4
  <2>2. ASSUME i = n
        PROVE  \E k \in (j - 1)..len : Onto(pat, path, i, k)
    <3>1. len \in (j - 1)..len /\ len \in 0..len
      BY <1>0
    <3>2. Onto(pat, path, n, len)
      BY <1>0, <3>1, FitEnd DEF Onto
    <3> QED  BY <2>2, <3>1, <3>2
  <2>3. ASSUME NEW k \in (j - 1)..len
        PROVE  k + 1 \in j..(len + 1) /\ (k + 1) - 1 = k
    BY <1>0
  <2>4. ASSUME NEW k \in j..(len + 1)
        PROVE  k - 1 \in (j - 1)..len
    BY <1>0
  <2> HIDE DEF n, len
  <2> QED  BY <2>1, <2>2, <2>3, <2>4
<1>5. ASSUME NEW i \in 1..n, NEW j \in 1..(len + 1), pat[i] # AnyDepth
      PROVE  Onto(pat, path, i - 1, j - 1) <=>
               j <= len /\ Spelled(pat[i], path[j]) /\ Onto(pat, path, i, j)
  <2>1. j \in (j - 1)..len <=> j <= len
    BY <1>0
  <2>2. j <= len => (<<i, j>> \in Segments(pat, path) <=> Spelled(pat[i], path[j]))
    <3>1. j <= len => j \in DOMAIN path /\ i \in DOMAIN pat
      BY <1>0
    <3> QED  BY <3>1 DEF Segments
  <2>3. Onto(pat, path, i - 1, j - 1) <=>
               \E k \in (j - 1)..len :
                  /\ k = j /\ <<i, k>> \in Segments(pat, path)
                  /\ Onto(pat, path, i, k)
    BY <1>3, <1>5
  <2> HIDE DEF n, len
  <2> QED  BY <2>1, <2>2, <2>3
<1>6. Found(g)
  <2>1. \A i \in 1..(n + 1), j \in 1..(len + 1) : j \in g[i] <=> Onto(pat, path, i - 1, j - 1)
    OBVIOUS
  <2>2. \A i \in 1..(n + 1) : g[i] \subseteq 1..(len + 1)
    OBVIOUS
  <2>3. g = [i \in 1..(n + 1) |-> g[i]]
    OBVIOUS
  <2> HIDE DEF g
  <2>4. ASSUME NEW i \in 1..(n + 1)
        PROVE  g[i] = At(g, i)
    <3>1. CASE i > n
      <4>1. \A j \in 1..(len + 1) : j \in g[i] <=> j > len
        BY <1>2, <2>1, <3>1
      <4>2. len + 1 \in 1..(len + 1) /\ \A j \in 1..(len + 1) : j > len <=> j = len + 1
        BY <1>0
      <4>3. g[i] = {len + 1}
        <5> HIDE DEF n, len
        <5> QED  BY <2>2, <4>1, <4>2
      <4> QED  BY <3>1, <4>3
    <3>2. CASE ~(i > n)
      <4>1. i \in 1..n /\ i + 1 \in 1..(n + 1) /\ (i + 1) - 1 = i
        BY <1>0, <3>2
      <4>2. \A k \in 1..(len + 1) : k \in g[i + 1] <=> Onto(pat, path, i, k - 1)
        BY <2>1, <4>1
      <4> HIDE DEF n
      <4>3. ASSUME NEW j \in 1..(len + 1)
            PROVE  j \in g[i] <=> On(g, i, j)
        <5>1. \A k \in j..(len + 1) : k \in 1..(len + 1)
          BY <1>0
        <5>2. j <= len => j + 1 \in 1..(len + 1) /\ (j + 1) - 1 = j
          BY <1>0
        <5>3. j \in g[i] <=> Onto(pat, path, i - 1, j - 1)
          BY <2>1
        <5> HIDE DEF len
        <5>4. CASE pat[i] = AnyDepth
          <6>1. Onto(pat, path, i - 1, j - 1)
                <=> i = n \/ \E k \in j..(len + 1) : k \in g[i + 1]
            BY <1>4, <4>1, <4>2, <5>1, <5>4
          <6> QED  BY <5>3, <5>4, <6>1
        <5>5. CASE pat[i] # AnyDepth
          <6>1. Onto(pat, path, i - 1, j - 1)
                <=> j <= len /\ Spelled(pat[i], path[j]) /\ j + 1 \in g[i + 1]
            <7>1. Onto(pat, path, i - 1, j - 1)
                  <=> j <= len /\ Spelled(pat[i], path[j]) /\ Onto(pat, path, i, j)
              BY <1>5, <4>1, <5>5
            <7>2. j <= len => (j + 1 \in g[i + 1] <=> Onto(pat, path, i, j))
              BY <4>2, <5>2
            <7> QED  BY <7>1, <7>2
          <6> QED  BY <5>3, <5>5, <6>1
        <5> QED  BY <5>4, <5>5
      <4> HIDE DEF On
      <4>4. g[i] = {j \in 1..(len + 1) : On(g, i, j)}
        BY <2>2, <4>3
      <4> QED  BY <3>2, <4>4
    <3> QED  BY <3>1, <3>2
  <2> HIDE DEF n, len, At
  <2> QED  BY <2>3, <2>4
<1> HIDE DEF g
<1>7. Found(From)
  <2> HIDE DEF Found
  <2> QED  BY <1>6
<1> HIDE DEF From
<1>8. \A i \in 1..(n + 1) : From[i] = At(From, i)
  <2> HIDE DEF At, n, len
  <2> QED  BY <1>7
<1> DEFINE P == {t \in 0..n : \A j \in 1..(len + 1) :
                                j \in From[n + 1 - t] <=> Onto(pat, path, n - t, j - 1)}
<1>9. 0 \in P
  <2>1. n + 1 \in 1..(n + 1) /\ n + 1 > n /\ (n + 1) - 1 = n
    BY <1>0
  <2>2. From[n + 1] = {len + 1}
    BY <1>8, <2>1
  <2>3. \A j \in 1..(len + 1) : j > len <=> j = len + 1
    BY <1>0
  <2>4. \A j \in 1..(len + 1) : Onto(pat, path, n, j - 1) <=> j > len
    BY <1>2, <2>1
  <2>5. 0 \in 0..n /\ n + 1 - 0 = n + 1 /\ n - 0 = n
    BY <1>0
  <2> QED  BY <2>2, <2>3, <2>4, <2>5
<1>10. ASSUME NEW t \in 0..(n - 1), t \in P
       PROVE  t + 1 \in P
  <2> DEFINE i == n - t
  <2>1. /\ t + 1 \in 0..n /\ n + 1 - (t + 1) = i /\ n - (t + 1) = i - 1
        /\ i \in 1..n /\ i \in 1..(n + 1) /\ i + 1 = n + 1 - t /\ ~(i > n)
    BY <1>0
  <2>2. \A j \in 1..(len + 1) : j \in From[i + 1] <=> Onto(pat, path, i, j - 1)
    BY <1>10, <2>1
  <2> HIDE DEF i
  <2>3. ASSUME NEW j \in 1..(len + 1)
        PROVE  j \in From[i] <=> Onto(pat, path, i - 1, j - 1)
    <3>1. j \in From[i] <=> On(From, i, j)
      <4> HIDE DEF On
      <4> QED  BY <1>8, <2>1
    <3>2. \A k \in j..(len + 1) : k \in 1..(len + 1)
      BY <1>0
    <3>3. j <= len => j + 1 \in 1..(len + 1) /\ (j + 1) - 1 = j
      BY <1>0
    <3> HIDE DEF n, len
    <3>4. CASE pat[i] = AnyDepth
      <4>1. j \in From[i] <=> i = n \/ \E k \in j..(len + 1) : k \in From[i + 1]
        BY <2>1, <3>1, <3>4
      <4> QED  BY <1>4, <2>1, <2>2, <3>2, <3>4, <4>1
    <3>5. CASE pat[i] # AnyDepth
      <4>1. j \in From[i] <=> j <= len /\ Spelled(pat[i], path[j]) /\ j + 1 \in From[i + 1]
        BY <2>1, <3>1, <3>5
      <4>2. j <= len => (j + 1 \in From[i + 1] <=> Onto(pat, path, i, j))
        BY <2>2, <3>3
      <4>3. Onto(pat, path, i - 1, j - 1)
            <=> j <= len /\ Spelled(pat[i], path[j]) /\ Onto(pat, path, i, j)
        BY <1>5, <2>1, <3>5
      <4> QED  BY <4>1, <4>2, <4>3
    <3> QED  BY <3>4, <3>5
  <2> QED  BY <2>1, <2>3
<1>11. n \in P
  <2>1. n \in 0..n
    BY <1>0
  <2> HIDE DEF P
  <2> QED  BY <1>0, <1>9, <1>10, <2>1, UpFrom
<1>12. 1 \in From[1] <=> Onto(pat, path, 0, 0)
  <2>1. 1 \in 1..(len + 1) /\ n + 1 - n = 1 /\ n - n = 0 /\ 1 - 1 = 0
    BY <1>0
  <2> QED  BY <1>11, <2>1
<1> QED  BY <1>1, <1>12

\* A last position that takes anything: the others are to fit some prefix.
LEMMA FitTrailing ==
  ASSUME NEW n \in Nat, NEW len \in Nat, NEW any, NEW one, n + 1 \in any
  PROVE  Fit(n + 1, len, any, one, 0, 0) <=> \E k \in 0..len : Fit(n, k, any, one, 0, 0)
<1>1. ASSUME Fit(n + 1, len, any, one, 0, 0)
      PROVE  \E k \in 0..len : Fit(n, k, any, one, 0, 0)
  <2>1. PICK f \in [0..(n + 1) -> 0..len] :
           /\ f[0] = 0
           /\ \A k \in 1..(n + 1) :
                 /\ f[k - 1] <= f[k]
                 /\ k \in any \/ (f[k] = f[k - 1] + 1 /\ <<k, f[k]>> \in one)
    <3>1. 0 + 1 = 1
      OBVIOUS
    <3> QED  BY <1>1, <3>1 DEF Fit
  <2> DEFINE P == {t \in 0..n : f[n - t] <= f[n]}
             g == [k \in 0..n |-> f[k]]
  <2>2. \A k \in 0..n : k \in 0..(n + 1) /\ f[k] \in 0..len
    OBVIOUS
  <2>3. 0 \in P
    <3>1. n \in 0..n /\ 0 \in 0..n /\ n - 0 = n
      OBVIOUS
    <3>2. f[n] <= f[n]
      BY <2>2, <3>1
    <3> QED  BY <3>1, <3>2
  <2>4. ASSUME NEW t \in 0..(n - 1), t \in P
        PROVE  t + 1 \in P
    <3>1. /\ t + 1 \in 0..n /\ n - t \in 1..(n + 1) /\ (n - t) - 1 = n - (t + 1)
          /\ n - (t + 1) \in 0..n /\ n - t \in 0..n /\ n \in 0..n
      OBVIOUS
    <3>2. f[n - (t + 1)] <= f[n - t]
      BY <2>1, <3>1
    <3>3. f[n - t] <= f[n]
      BY <2>4
    <3>4. f[n - (t + 1)] <= f[n]
      BY <2>2, <3>1, <3>2, <3>3
    <3> QED  BY <3>1, <3>4
  <2>5. \A t \in 0..n : t \in P
    <3> HIDE DEF P
    <3> QED  BY <2>3, <2>4, UpFrom
  <2>6. \A k \in 0..n : f[k] <= f[n]
    <3>1. \A k \in 0..n : n - k \in 0..n /\ n - (n - k) = k
      OBVIOUS
    <3> QED  BY <2>5, <3>1
  <2>7. f[n] \in 0..len /\ \A k \in 0..n : f[k] \in 0..f[n]
    <3>1. n \in 0..n
      OBVIOUS
    <3> QED  BY <2>2, <2>6, <3>1
  <2>8. g \in [0..n -> 0..f[n]] /\ g[0] = 0 /\ g[n] = f[n]
    BY <2>1, <2>7
  <2>9. \A k \in 1..n : /\ g[k - 1] <= g[k]
                        /\ k \in any \/ (g[k] = g[k - 1] + 1 /\ <<k, g[k]>> \in one)
    <3>1. \A k \in 1..n : k \in 1..(n + 1) /\ g[k] = f[k] /\ g[k - 1] = f[k - 1]
      OBVIOUS
    <3> HIDE DEF g
    <3> QED  BY <2>1, <3>1
  <2> HIDE DEF g
  <2>10. Fit(n, f[n], any, one, 0, 0)
    <3>1. 0 + 1 = 1
      OBVIOUS
    <3> QED  BY <2>8, <2>9, <3>1 DEF Fit
  <2> QED  BY <2>7, <2>10
<1>2. ASSUME NEW k \in 0..len, Fit(n, k, any, one, 0, 0)
      PROVE  Fit(n + 1, len, any, one, 0, 0)
  <2>1. PICK g \in [0..n -> 0..k] :
           /\ g[0] = 0 /\ g[n] = k
           /\ \A m \in 1..n :
                 /\ g[m - 1] <= g[m]
                 /\ m \in any \/ (g[m] = g[m - 1] + 1 /\ <<m, g[m]>> \in one)
    <3>1. 0 + 1 = 1
      OBVIOUS
    <3> QED  BY <1>2, <3>1 DEF Fit
  <2> DEFINE f == [m \in 0..(n + 1) |-> IF m = n + 1 THEN len ELSE g[m]]
  <2>2. f \in [0..(n + 1) -> 0..len] /\ f[0] = 0 /\ f[n + 1] = len
    <3>1. \A m \in 0..(n + 1) : m = n + 1 \/ m \in 0..n
      OBVIOUS
    <3>2. \A m \in 0..n : g[m] \in 0..len
      OBVIOUS
    <3>3. 0 \in 0..(n + 1) /\ n + 1 \in 0..(n + 1) /\ 0 # n + 1 /\ len \in 0..len
      OBVIOUS
    <3> QED  BY <2>1, <3>1, <3>2, <3>3
  <2>3. \A m \in 0..n : f[m] = g[m]
    OBVIOUS
  <2>4. ASSUME NEW m \in 1..(n + 1)
        PROVE  /\ f[m - 1] <= f[m]
               /\ m \in any \/ (f[m] = f[m - 1] + 1 /\ <<m, f[m]>> \in one)
    <3> HIDE DEF f
    <3>1. CASE m = n + 1
      <4>1. m - 1 = n /\ n \in 0..n
        BY <3>1
      <4>2. f[m - 1] = k
        BY <2>1, <2>3, <4>1
      <4> QED  BY <2>2, <3>1, <4>2
    <3>2. CASE m \in 1..n
      <4>1. m \in 0..n /\ m - 1 \in 0..n
        BY <3>2
      <4> QED  BY <2>1, <2>3, <3>2, <4>1
    <3>3. m = n + 1 \/ m \in 1..n
      OBVIOUS
    <3> QED  BY <3>1, <3>2, <3>3
  <2> HIDE DEF f
  <2>5. 0 + 1 = 1
    OBVIOUS
  <2> QED  BY <2>2, <2>4, <2>5 DEF Fit
<1> QED  BY <1>1, <1>2

\* Only what holds of the positions and elements there are matters.
LEMMA FitSame ==
  ASSUME NEW n \in Nat, NEW len \in Nat, NEW any, NEW one, NEW any2, NEW one2,
         \A k \in 1..n : k \in any <=> k \in any2,
         \A k \in 1..n, m \in 1..len : <<k, m>> \in one <=> <<k, m>> \in one2
  PROVE  Fit(n, len, any, one, 0, 0) <=> Fit(n, len, any2, one2, 0, 0)
<1>1. ASSUME NEW f \in [0..n -> 0..len], NEW k \in 1..n
      PROVE  (k \in any \/ (f[k] = f[k - 1] + 1 /\ <<k, f[k]>> \in one))
             <=> (k \in any2 \/ (f[k] = f[k - 1] + 1 /\ <<k, f[k]>> \in one2))
  <2>1. f[k] \in 0..len /\ f[k - 1] \in 0..len
    <3>1. k \in 0..n /\ k - 1 \in 0..n
      OBVIOUS
    <3> QED  BY <3>1
  <2>2. f[k] = f[k - 1] + 1 => f[k] \in 1..len
    BY <2>1
  <2> QED  BY <2>2
<1>2. 0 + 1 = 1
  OBVIOUS
<1>3. \A a, b : Fit(n, len, a, b, 0, 0) <=>
        \E f \in [0..n -> 0..len] :
            /\ f[0] = 0 /\ f[n] = len
            /\ \A k \in 1..n : /\ f[k - 1] <= f[k]
                               /\ k \in a \/ (f[k] = f[k - 1] + 1 /\ <<k, f[k]>> \in b)
  BY <1>2, Zenon DEF Fit
<1> QED  BY <1>1, <1>3, Zenon

LEMMA PairIs ==
  ASSUME NEW S, NEW x \in S, NEW y \in S
  PROVE  <<x, y>> \in Seq(S) /\ Len(<<x, y>>) = 2
OBVIOUS

LEMMA AnyDepthIs ==
  /\ AnyDepth \in Seq(Char) /\ Len(AnyDepth) = 2
  /\ AnyDepth[1] = "*" /\ AnyDepth[2] = "*" /\ DOMAIN AnyDepth = 1..2
<1>1. AnyDepth \in Seq(Char) /\ Len(AnyDepth) = 2
  BY GlobAssumption, PairIs DEF AnyDepth
<1>2. AnyDepth[1] = "*" /\ AnyDepth[2] = "*"
  BY DEF AnyDepth
<1> QED  BY <1>1, <1>2

\* Two stars in a segment pattern take any segment.
LEMMA SpelledAny ==
  ASSUME NEW s \in Seq(Char)
  PROVE  Spelled(AnyDepth, s)
<1> DEFINE len == Len(s)
<1>1. /\ AnyDepth \in Seq(Char) /\ Len(AnyDepth) = 2
      /\ AnyDepth[1] = "*" /\ AnyDepth[2] = "*" /\ DOMAIN AnyDepth = 1..2
  BY AnyDepthIs
<1>2. len \in Nat /\ len \in 0..len /\ 0 \in 0..len
  OBVIOUS
<1>3. Rest(AnyDepth, s, 0, len)
  <2>1. \A k \in (0 + 1)..Len(AnyDepth) : AnyDepth[k] = "*"
    BY <1>1
  <2>2. 0 \in 0..Len(AnyDepth)
    BY <1>1
  <2> QED  BY <1>1, <2>1, <2>2, RestStars
<1>4. 0 \in 0..(Len(AnyDepth) - 1) /\ 0 + 1 \in Stars(AnyDepth) /\ len \in len..len
  BY <1>1, <1>2 DEF Stars
<1>5. PICK k \in len..len : Rest(AnyDepth, s, 0 + 1, k)
  BY <1>1, <1>2, <1>3, <1>4, RestStar
<1>6. k \in 0..len
  BY <1>2
<1>7. Rest(AnyDepth, s, 0, 0)
  BY <1>1, <1>2, <1>4, <1>5, <1>6, RestStar
<1> QED  BY <1>1, <1>7, SpelledRest

\* A pattern without a slash gets two stars before it.
LEMMA NormalShort ==
  ASSUME NEW S, NEW pat \in Seq(S), Len(pat) = 1, AnyDepth \in S
  PROVE  LET q == Normal(pat) IN
         q \in Seq(S) /\ Len(q) = 2 /\ q[1] = AnyDepth /\ q[2] = pat[1]
<1>1. PICK u : u = <<AnyDepth>>
  OBVIOUS
<1>2. u \in Seq(S) /\ Len(u) = 1 /\ u[1] = AnyDepth
  BY <1>1
<1>3. PICK q : q = Normal(pat)
  OBVIOUS
<1>4. q = u \o pat
  BY <1>1, <1>3 DEF Normal
<1>5. /\ q \in Seq(S) /\ Len(q) = 1 + 1
      /\ \A i \in 1..(1 + 1) : q[i] = IF i <= 1 THEN u[i] ELSE pat[i - 1]
  BY <1>2, <1>4, ConcatProperties
<1> QED  BY <1>2, <1>3, <1>5

\* Of a path it then matches the last segment.
LEMMA MatchBasename ==
  ASSUME NEW S, NEW q \in Seq(S), Len(q) = 2, q[1] = AnyDepth,
         NEW path \in Seq(Seq(Char)) \ {<<>>}
  PROVE  MatchSegments(q, path) <=> Spelled(q[2], Last(path))
<1> DEFINE len == Len(path)
<1>1. /\ path \in Seq(Seq(Char)) /\ len \in Nat /\ len >= 1
      /\ Last(path) = path[len] /\ path[len] \in Seq(Char) /\ len \in DOMAIN path
  BY DEF Last
<1>2. DOMAIN q = 1..2
  OBVIOUS
<1>3. MatchSegments(q, path) <=> Onto(q, path, 0, 0)
  BY <1>1, <1>2, MatchOnto
<1>4. \A m \in 0..len : Onto(q, path, 2, m) <=> m = len
  BY <1>1, <1>2, FitEnd DEF Onto
<1>5. \A k \in 0..len :
         Onto(q, path, 1, k) <=>
            \E m \in k..len : /\ 2 \in Depths(q) \/ (m = k + 1 /\ <<2, m>> \in Segments(q, path))
                              /\ Onto(q, path, 2, m)
  <2> TAKE k \in 0..len
  <2>1. 2 \in Nat /\ 1 \in 0..(2 - 1) /\ 1 + 1 = 2
    OBVIOUS
  <2>2. Onto(q, path, 1, k) <=>
            \E m \in k..len :
               /\ 1 + 1 \in Depths(q) \/ (m = k + 1 /\ <<1 + 1, m>> \in Segments(q, path))
               /\ Onto(q, path, 1 + 1, m)
    BY <1>1, <1>2, <2>1, FitStep DEF Onto
  <2> QED  BY <2>1, <2>2
<1>6. Onto(q, path, 0, 0) <=> \E k \in 0..len : Onto(q, path, 1, k)
  <2>1. 2 \in Nat /\ 0 \in 0..(2 - 1) /\ 0 + 1 = 1 /\ 0 \in 0..len
    BY <1>1
  <2>2. Onto(q, path, 0, 0) <=>
            \E m \in 0..len :
               /\ 0 + 1 \in Depths(q) \/ (m = 0 + 1 /\ <<0 + 1, m>> \in Segments(q, path))
               /\ Onto(q, path, 0 + 1, m)
    BY <1>1, <1>2, <2>1, FitStep DEF Onto
  <2>3. 1 \in Depths(q)
    BY <1>2 DEF Depths
  <2> HIDE DEF len
  <2> QED  BY <2>1, <2>2, <2>3
<1>7. CASE q[2] = AnyDepth
  <2>1. 2 \in Depths(q)
    BY <1>2, <1>7 DEF Depths
  <2>2. len \in 0..len /\ len \in len..len
    BY <1>1
  <2>3. Onto(q, path, 0, 0)
    BY <1>4, <1>5, <1>6, <2>1, <2>2
  <2>4. Spelled(AnyDepth, path[len])
    BY <1>1, SpelledAny
  <2>5. Spelled(q[2], Last(path))
    BY <1>1, <1>7, <2>4, Zenon
  <2> QED  BY <1>3, <2>3, <2>5
<1>8. CASE q[2] # AnyDepth
  <2>1. 2 \notin Depths(q)
    BY <1>2, <1>8 DEF Depths
  <2>2. <<2, len>> \in Segments(q, path) <=> Spelled(q[2], path[len])
    BY <1>1, <1>2 DEF Segments
  <2>3. len - 1 \in 0..len /\ len \in (len - 1)..len /\ len = (len - 1) + 1 /\ len \in 0..len
    BY <1>1
  <2>4. ASSUME Onto(q, path, 0, 0)
        PROVE  <<2, len>> \in Segments(q, path)
    <3>1. PICK k \in 0..len : Onto(q, path, 1, k)
      BY <1>6, <2>4
    <3>2. PICK m \in k..len : /\ <<2, m>> \in Segments(q, path)
                              /\ Onto(q, path, 2, m)
      BY <1>5, <2>1, <3>1
    <3>3. m \in 0..len
      BY <1>1
    <3> QED  BY <1>4, <3>2, <3>3
  <2>5. ASSUME <<2, len>> \in Segments(q, path)
        PROVE  Onto(q, path, 0, 0)
    BY <1>4, <1>5, <1>6, <2>3, <2>5
  <2>6. <<2, len>> \in Segments(q, path) <=> Spelled(q[2], Last(path))
    BY <1>1, <2>2, Zenon
  <2> QED  BY <1>3, <2>4, <2>5, <2>6, Zenon
<1> QED  BY <1>7, <1>8

\* A pattern that ends in a slash.
LEMMA MatchFolder ==
  ASSUME NEW r \in Seq(Seq(Char)), NEW path \in Seq(Seq(Char))
  PROVE  MatchSegments(Append(r, AnyDepth), path)
         <=> \E k \in 0..Len(path) : Covers(r, SubSeq(path, 1, k))
<1> DEFINE q == Append(r, AnyDepth)
           n == Len(r)
           len == Len(path)
<1>1. /\ q \in Seq(Seq(Char)) /\ Len(q) = n + 1 /\ q[n + 1] = AnyDepth
      /\ n \in Nat /\ len \in Nat /\ DOMAIN q = 1..(n + 1)
      /\ \A k \in 1..n : q[k] = r[k]
  <2>1. AnyDepth \in Seq(Char)
    BY AnyDepthIs
  <2> HIDE DEF q
  <2>2. q = Append(r, AnyDepth)
    BY DEF q
  <2>3. n \in Nat /\ len \in Nat
    OBVIOUS
  <2>4. q \in Seq(Seq(Char)) /\ Len(q) = n + 1
    BY <2>1, <2>2
  <2>5. q[n + 1] = AnyDepth
    BY <2>1, <2>2
  <2>6. \A k \in 1..n : q[k] = r[k]
    BY <2>1, <2>2
  <2> QED  BY <2>3, <2>4, <2>5, <2>6
<1> HIDE DEF q
<1>2. MatchSegments(q, path) <=> Onto(q, path, 0, 0)
  BY <1>1, MatchOnto
<1>3. Onto(q, path, 0, 0) <=> \E k \in 0..len : Fit(n, k, Depths(q), Segments(q, path), 0, 0)
  <2>1. n + 1 \in Depths(q)
    BY <1>1 DEF Depths
  <2> QED  BY <1>1, <2>1, FitTrailing DEF Onto
<1>4. ASSUME NEW k \in 0..len
      PROVE  Fit(n, k, Depths(q), Segments(q, path), 0, 0) <=> Covers(r, SubSeq(path, 1, k))
  <2> DEFINE p == SubSeq(path, 1, k)
  <2>1. /\ p \in Seq(Seq(Char)) /\ Len(p) = k /\ k \in Nat /\ DOMAIN p = 1..k
        /\ \A m \in 1..k : p[m] = path[m] /\ m \in DOMAIN path
    <3>1. k \in Nat /\ k <= len
      BY <1>1
    <3>2. \A m \in 1..k : m \in 1..len
      BY <1>1
    <3>3. \A m \in 1..k : path[m] \in Seq(Char) /\ m \in DOMAIN path
      BY <3>2
    <3>4. Len(p) = k /\ \A m \in 1..k : p[m] = path[m]
      BY <3>1
    <3>5. p \in Seq(Seq(Char))
      <4>1. p = [m \in 1..k |-> path[m]]
        BY <3>1 DEF SubSeq
      <4>2. [m \in 1..k |-> path[m]] \in Seq(Seq(Char))
        BY <3>1, <3>3
      <4> QED  BY <4>1, <4>2
    <3> HIDE DEF p
    <3> QED  BY <3>1, <3>3, <3>4, <3>5
  <2> HIDE DEF p
  <2>2. \A i \in 1..n : i \in Depths(q) <=> i \in Depths(r)
    <3> TAKE i \in 1..n
    <3>1. i \in DOMAIN q /\ i \in DOMAIN r /\ q[i] = r[i]
      BY <1>1
    <3> QED  BY <3>1 DEF Depths
  <2>3. \A i \in 1..n, m \in 1..k : <<i, m>> \in Segments(q, path) <=> <<i, m>> \in Segments(r, p)
    <3> TAKE i \in 1..n, m \in 1..k
    <3>1. i \in DOMAIN q /\ i \in DOMAIN r /\ q[i] = r[i]
      BY SMTT(30), <1>1
    <3>2. m \in DOMAIN path /\ m \in DOMAIN p /\ p[m] = path[m]
      BY <2>1
    <3>3. <<i, m>> \in Segments(q, path) <=> Spelled(q[i], path[m])
      BY <3>1, <3>2 DEF Segments
    <3>4. <<i, m>> \in Segments(r, p) <=> Spelled(r[i], p[m])
      BY <3>1, <3>2 DEF Segments
    <3> QED  BY <3>1, <3>2, <3>3, <3>4
  <2>4. Fit(n, k, Depths(q), Segments(q, path), 0, 0)
        <=> Fit(n, k, Depths(r), Segments(r, p), 0, 0)
    BY <1>1, <2>1, <2>2, <2>3, FitSame
  <2>5. Covers(r, p) <=> Fit(n, k, Depths(r), Segments(r, p), 0, 0)
    <3>1. Covers(r, p) <=> Onto(r, p, 0, 0)
      BY <2>1, CoversOnto
    <3> QED  BY <2>1, <3>1 DEF Onto
  <2> QED  BY <2>4, <2>5 DEF p
<1> QED  BY <1>2, <1>3, <1>4 DEF q

\* The recursion finds a match exactly when the pattern means the path.
THEOREM MatchMeans ==
  ASSUME NEW pat \in Seq(Seq(Char)) \ {<<>>}, NEW path \in Seq(Seq(Char)) \ {<<>>}
  PROVE  Match(pat, path) = Means(pat, path)
<1>1. pat \in Seq(Seq(Char)) /\ path \in Seq(Seq(Char)) /\ Len(pat) \in Nat /\ Len(pat) # 0
  OBVIOUS
<1>2. CASE pat = <<<<>>>>
  BY <1>2 DEF Match, Means
<1>3. CASE pat # <<<<>>>> /\ Len(pat) = 1
  <2>1. MatchSegments(Normal(pat), path) <=> Spelled(pat[1], Last(path))
    <3>1. PICK S : S = Seq(Char)
      OBVIOUS
    <3>2. pat \in Seq(S) /\ AnyDepth \in S
      BY <1>1, <3>1, AnyDepthIs
    <3>3. PICK q : q = Normal(pat)
      OBVIOUS
    <3>4. q \in Seq(S) /\ Len(q) = 2 /\ q[1] = AnyDepth /\ q[2] = pat[1]
      BY <1>3, <3>2, <3>3, NormalShort
    <3>5. MatchSegments(q, path) <=> Spelled(q[2], Last(path))
      BY <3>4, MatchBasename
    <3> QED  BY <3>3, <3>4, <3>5
  <2>2. Match(pat, path) <=> Means(pat, path)
    BY <1>3, <2>1 DEF Match, Means
  <2> QED  BY <2>2 DEF Match, Means
<1>4. CASE pat # <<<<>>>> /\ Len(pat) # 1 /\ Last(pat) = <<>>
  <2>1. Front(pat) \in Seq(Seq(Char))
    <3>1. Front(pat) = [i \in 1..(Len(pat) - 1) |-> pat[i]]
      BY <1>1 DEF Front, SubSeq
    <3>2. \A i \in 1..(Len(pat) - 1) : pat[i] \in Seq(Char)
      BY <1>1
    <3>3. Len(pat) - 1 \in Nat
      BY <1>1
    <3>4. [i \in 1..(Len(pat) - 1) |-> pat[i]] \in Seq(Seq(Char))
      BY <3>2, <3>3
    <3> QED  BY <3>1, <3>4
  <2>2. MatchSegments(Normal(pat), path)
        <=> \E k \in 0..Len(path) : Covers(Front(pat), SubSeq(path, 1, k))
    BY <1>1, <1>4, <2>1, MatchFolder DEF Normal
  <2>3. Match(pat, path) <=> Means(pat, path)
    BY <1>4, <2>2, Zenon DEF Match, Means
  <2> QED  BY <2>3 DEF Match, Means
<1>5. CASE pat # <<<<>>>> /\ Len(pat) # 1 /\ Last(pat) # <<>>
  <2>1. MatchSegments(Normal(pat), path) <=> Covers(pat, path)
    BY <1>1, <1>5, MatchOnto, CoversOnto DEF Normal
  <2>2. Match(pat, path) <=> Means(pat, path)
    BY <1>5, <2>1, Zenon DEF Match, Means
  <2> QED  BY <2>2 DEF Match, Means
<1> QED  BY <1>2, <1>3, <1>4, <1>5

\* At every state of the walk, what is left to be found is what the pattern
\* means: matchSegment's one level of backtracking loses no match.
THEOREM GlobInvariance == GlobSpec => []GlobIInv
<1>1. GlobInit => GlobIInv
  <2> SUFFICES ASSUME GlobInit
               PROVE  GlobIInv
    OBVIOUS
  <2>1. CASE walk \in {Walking(pat, s) : pat \in Piece, s \in Name}
    <3>1. PICK pat \in Piece, s \in Name : walk = Walking(pat, s)
      BY <2>1
    <3>2. pat \in Seq(Char) /\ s \in Seq(Char) /\ \A i \in DOMAIN s : s[i] # "*"
      BY GlobAssumption
    <3>3. walk = [pat |-> pat, s |-> s, pi |-> 1, si |-> 1, star |-> 0, mark |-> 0,
                  verdict |-> "none"]
      BY <3>1 DEF Walking
    <3>4. Len(pat) \in Nat /\ Len(s) \in Nat
      BY <3>2
    <3>5. WalkTypeOK
      BY <3>2, <3>3, <3>4 DEF WalkTypeOK
    <3>6. 1 - 1 = 0
      OBVIOUS
    <3>7. WalkOK
      BY <3>2, <3>3, <3>6, SpelledRest DEF WalkOK
    <3> QED  BY <3>3, <3>5, <3>7 DEF GlobIInv, BlockOK
  <2>2. CASE walk = [Walking(<<>>, <<>>) EXCEPT !.verdict = "match"]
    <3>1. walk = [pat |-> <<>>, s |-> <<>>, pi |-> 1, si |-> 1, star |-> 0, mark |-> 0,
                  verdict |-> "match"]
      BY <2>2 DEF Walking
    <3>2. <<>> \in Seq(Char) /\ Len(<<>>) = 0 /\ DOMAIN <<>> = {}
      OBVIOUS
    <3>3. WalkTypeOK
      BY <3>1, <3>2 DEF WalkTypeOK
    <3>4. Spelled(<<>>, <<>>)
      <4>1. Fit(0, 0, Stars(<<>>), Singles(<<>>, <<>>), 0, 0)
        BY FitEnd
      <4>2. Rest(<<>>, <<>>, 0, 0)
        BY <3>2, <4>1 DEF Rest
      <4> QED  BY <3>2, <4>2, SpelledRest
    <3>5. Spelled(<<>>, <<>>) = TRUE
      BY <3>4 DEF Spelled, Cut
    <3>6. WalkOK
      BY <3>1, <3>5 DEF WalkOK
    <3> QED  BY <3>1, <3>3, <3>6 DEF GlobIInv, BlockOK
  <2> QED  BY <2>1, <2>2 DEF GlobInit
<1>2. GlobIInv /\ [GlobNext]_glob => GlobIInv'
  <2> SUFFICES ASSUME GlobIInv, [GlobNext]_glob
               PROVE  GlobIInv'
    OBVIOUS
  <2>1. CASE UNCHANGED glob
    BY <2>1 DEF glob, GlobIInv, WalkTypeOK, BlockOK, WalkOK
  <2> QED  BY <2>1, StepKeeps, StarKeeps, BacktrackKeeps, MismatchKeeps, EndWalkKeeps DEF GlobNext
<1> QED  BY <1>1, <1>2, PTL DEF GlobSpec

\* A filter keeps the files its patterns mean, whatever the pattern and the path.
THEOREM FiltersKeepWhatTheyMean == GlobSpec => []FiltersMean
<1> DEFINE RuleOK == Match(rule.pattern, rule.path) = Means(rule.pattern, rule.path)
<1>1. GlobInit => RuleOK
  <2> SUFFICES ASSUME GlobInit
               PROVE  RuleOK
    OBVIOUS
  <2>1. CASE rule = [pattern |-> <<<<>>>>, path |-> <<>>]
    BY <2>1 DEF Match, Means
  <2>2. CASE rule \in [pattern : Pattern, path : FilePath]
    <3>1. rule.pattern \in Pattern /\ rule.path \in FilePath
      BY <2>2
    <3>2. /\ rule.pattern \in Seq(Seq(Char)) \ {<<>>}
          /\ rule.path \in Seq(Seq(Char)) \ {<<>>}
      BY <3>1, GlobAssumption
    <3> QED  BY <3>2, MatchMeans
  <2> QED  BY <2>1, <2>2 DEF GlobInit
<1>2. RuleOK /\ [GlobNext]_glob => RuleOK'
  <2> SUFFICES ASSUME RuleOK, [GlobNext]_glob
               PROVE  RuleOK'
    OBVIOUS
  <2>1. rule' = rule
    BY DEF GlobNext, Step, Star, Backtrack, Mismatch, EndWalk, glob
  <2> QED  BY <2>1, Zenon
<1>3. GlobIInv /\ RuleOK => FiltersMean
  BY DEF GlobIInv, WalkOK, FiltersMean
<1> QED  BY <1>1, <1>2, <1>3, GlobInvariance, PTL DEF GlobSpec

(* ------------------------------------------------------------------ drafts *)

Overs == {"no", "mine", "recovered"}

MaybeDoc == Docs \cup {Nowhere}

SaveState == [doc : MaybeDoc, raw : SUBSET Text, over : Overs,
              answer : {"none", "ok", "stale", "error"}]

Buffer ==
    [doc : Docs, raw : SUBSET Text, dirty : BOOLEAN, base : SUBSET Text, shown : MaybeDoc,
     marked : BOOLEAN, conflicted : BOOLEAN,
     sync : {"clean", "pending", "saving", "saved", "error", "conflict"}, timer : BOOLEAN,
     ls : MaybeDoc, saving : SaveState, own : MaybeDoc, leave : MaybeDoc, over : Overs]

SaveRequest == [doc : Docs, text : SUBSET Text, base : SUBSET Text, over : Overs, kept : BOOLEAN]

EditorTypes ==
    /\ file \in [Docs -> SUBSET Text] /\ copies \in [Docs -> SUBSET Text]
    /\ cached \in [Docs -> SUBSET Text] /\ fetch \in SUBSET Text
    /\ typed \in [Words -> MaybeDoc] /\ dropped \in SUBSET (Words \cup Others)
    /\ wire \in SUBSET SaveRequest /\ buf \in Buffer

\* While the tab stays with its document, all it does is about that one.
PlaceOK(t) ==
    /\ {t.shown, t.ls, t.own, t.saving.doc} \subseteq {t.doc, Nowhere}
    /\ t.leave # t.doc

\* What is on its way was made from the text it is to replace, unless the user
\* or a recovery put it there; at most one request is waited for, and it has the
\* text of the save in flight.
WireOK(w, t) ==
    /\ \A r \in w : r.doc = t.doc
    /\ \A r \in w : r.over = "no" => r.base \subseteq r.text
    /\ \A r \in w : ~r.kept =>
          /\ t.saving.doc # Nowhere /\ t.saving.answer = "none"
          /\ r.text = t.saving.raw
    /\ \A r, s \in w : ~r.kept /\ ~s.kept => r = s

\* The draft was made from the text whose sha it has, and is of the document
\* that is shown.
TextOK(t) ==
    /\ t.dirty => t.shown = t.doc
    /\ t.shown = t.doc /\ t.over = "no" => t.base \subseteq t.raw
    /\ t.dirty /\ t.over = "no" => t.marked

\* A save in flight is of a draft that is still shown and has been typed into
\* only, unless it was recovered or put over another.
SaveOK(t) ==
    t.saving # NoSave =>
        /\ t.saving.doc = t.doc /\ t.shown = t.doc /\ t.sync # "conflict"
        /\ t.saving.over = "no" =>
              t.marked /\ t.dirty /\ (t.over = "no" => t.saving.raw \subseteq t.raw)

\* A save that was answered is on the server, but for what was put over it.
LandedOK(t, text, lost) ==
    t.saving.answer = "ok" => t.saving.raw \subseteq text \cup lost \cup Docs

\* The recovery copy is of the draft.
CopyOK(t, copy) ==
    /\ t.shown = t.doc \/ t.ls # Nowhere => copy \subseteq t.raw
    /\ t.dirty /\ (t.ls = Nowhere \/ ~t.marked) => t.raw = copy

\* What was typed, as TypedKept says, in the one document.
TypedOK ==
    \A m \in Words : typed[m] # Nowhere =>
        /\ typed[m] = buf.doc
        /\ \/ m \in dropped \cup file[buf.doc] \cup copies[buf.doc]
           \/ m \in buf.raw /\ buf.dirty

EditorOK(t, w, text, copy, lost) ==
    /\ PlaceOK(t) /\ WireOK(w, t) /\ TextOK(t) /\ SaveOK(t)
    /\ LandedOK(t, text, lost) /\ CopyOK(t, copy)

DraftIInv ==
    /\ EditorTypes /\ TypedOK
    /\ EditorOK(buf, wire, file[buf.doc], copies[buf.doc], dropped)

\* The tab stays with its document: in a branch of several, the code's
\* navigation breaks both properties.
Stays == [][buf'.doc = buf.doc]_editor

\* There is no other document to go to.
OneDocument == \E d : Docs = {d}

\* No save.
LEMMA NoSaveIs ==
  NoSave \in SaveState /\ NoSave.doc = Nowhere /\ NoSave.answer = "none"
  BY DEF NoSave, SaveState, MaybeDoc, Overs

\* No document is no document.
LEMMA NowhereIs == Nowhere \notin Docs /\ Docs \cap Words = {}
  BY DraftAssumption DEF DraftAssumption

\* A tab that has just opened.
LEMMA BlankIs ==
  ASSUME NEW d \in Docs
  PROVE  LET t == [Blank EXCEPT !.doc = d] IN
         /\ t \in Buffer /\ t.doc = d /\ t.raw = {} /\ t.dirty = FALSE /\ t.shown = Nowhere
         /\ t.ls = Nowhere /\ t.saving = NoSave /\ t.own = Nowhere /\ t.leave = Nowhere
  BY NoSaveIs DEF Blank, Buffer, MaybeDoc, Overs

\* A save in flight begins with what is in the buffer.
LEMMA PersistIs ==
  ASSUME NEW t \in Buffer, MayPersist(t)
  PROVE  LET p == Persisting(t) IN
         /\ p \in Buffer
         /\ p.doc = t.doc /\ p.raw = t.raw /\ p.dirty = t.dirty /\ p.base = t.base
         /\ p.shown = t.shown /\ p.marked = t.marked /\ p.ls = t.ls
         /\ p.own = t.own /\ p.leave = t.leave /\ p.over = t.over
         /\ p.sync = "saving" /\ p.saving.doc = t.doc /\ p.saving.raw = t.raw
         /\ p.saving.over = t.over /\ p.saving.answer = "none"
<1> DEFINE s == [doc |-> t.doc, raw |-> t.raw, over |-> t.over, answer |-> "none"]
<1>1. s \in SaveState /\ s.doc = t.doc /\ s.raw = t.raw /\ s.over = t.over /\ s.answer = "none"
  BY DEF Buffer, SaveState, MaybeDoc
<1>2. Persisting(t) = [t EXCEPT !.sync = "saving", !.saving = s]
  BY DEF Persisting
<1> HIDE DEF s
<1> DEFINE p == [t EXCEPT !.sync = "saving", !.saving = s]
<1>3. p \in Buffer
  BY <1>1 DEF Buffer
<1>4. /\ p.doc = t.doc /\ p.raw = t.raw /\ p.dirty = t.dirty /\ p.base = t.base
      /\ p.shown = t.shown /\ p.marked = t.marked /\ p.ls = t.ls
      /\ p.own = t.own /\ p.leave = t.leave /\ p.over = t.over
      /\ p.sync = "saving" /\ p.saving = s
  BY DEF Buffer
<1> HIDE DEF p
<1> QED  BY <1>1, <1>2, <1>3, <1>4 DEF p

\* Saving begins with a request of the text in the buffer, unless a save is in
\* flight or there is nothing to save.
LEMMA PersistKeeps ==
  ASSUME NEW t \in Buffer, NEW w \in SUBSET SaveRequest, NEW text, NEW copy, NEW lost,
         EditorOK(t, w, text, copy, lost)
  PROVE  /\ Persisting(t) \in Buffer /\ w \cup Saving(t) \in SUBSET SaveRequest
         /\ Persisting(t).doc = t.doc /\ Persisting(t).raw = t.raw
         /\ Persisting(t).dirty = t.dirty
         /\ EditorOK(Persisting(t), w \cup Saving(t), text, copy, lost)
<1>1. CASE ~MayPersist(t)
  <2>1. Persisting(t) = t /\ w \cup Saving(t) = w
    BY <1>1 DEF Persisting, Saving
  <2> QED  BY <2>1
<1>2. CASE MayPersist(t)
  <2> DEFINE p == Persisting(t)
             r == [doc |-> t.doc, text |-> t.raw, base |-> t.base, over |-> t.over, kept |-> FALSE]
  <2>1. t.saving = NoSave /\ t.dirty
    BY <1>2 DEF MayPersist
  <2>2. r \in SaveRequest /\ r.doc = t.doc /\ r.text = t.raw /\ r.base = t.base
        /\ r.over = t.over /\ r.kept = FALSE
    BY DEF Buffer, SaveRequest
  <2>3. w \cup Saving(t) = w \cup {r}
    BY <1>2 DEF Saving
  <2>4. /\ p \in Buffer
        /\ p.doc = t.doc /\ p.raw = t.raw /\ p.dirty = t.dirty /\ p.base = t.base
        /\ p.shown = t.shown /\ p.marked = t.marked /\ p.ls = t.ls
        /\ p.own = t.own /\ p.leave = t.leave /\ p.over = t.over
        /\ p.sync = "saving" /\ p.saving.doc = t.doc /\ p.saving.raw = t.raw
        /\ p.saving.over = t.over /\ p.saving.answer = "none"
    BY <1>2, PersistIs
  <2>5. t.doc \in Docs
    BY DEF Buffer
  <2> HIDE DEF p, r
  <2>6. PlaceOK(p)
    BY <2>4 DEF EditorOK, PlaceOK
  <2>7. TextOK(p) /\ CopyOK(p, copy) /\ LandedOK(p, text, lost)
    BY <2>4 DEF EditorOK, TextOK, CopyOK, LandedOK
  <2>8. SaveOK(p)
    BY <2>1, <2>4 DEF EditorOK, TextOK, SaveOK
  <2>9. WireOK(w \cup {r}, p)
    <3>1. \A q \in w : q.kept
      BY <2>1, NoSaveIs DEF EditorOK, WireOK
    <3>2. r.over = "no" => r.base \subseteq r.text
      BY <2>1, <2>2 DEF EditorOK, TextOK
    <3> QED  BY <2>2, <2>4, <2>5, <3>1, <3>2, NowhereIs DEF EditorOK, WireOK
  <2> QED  BY <2>2, <2>3, <2>4, <2>6, <2>7, <2>8, <2>9 DEF EditorOK, p
<1> QED  BY <1>1, <1>2

\* A request that nobody waits for, with the text of the buffer.
LEMMA FlushKeeps ==
  ASSUME NEW t \in Buffer, NEW w \in SUBSET SaveRequest, NEW text, NEW copy, NEW lost,
         EditorOK(t, w, text, copy, lost)
  PROVE  /\ w \cup Flushed(t, t.doc) \in SUBSET SaveRequest
         /\ WireOK(w \cup Flushed(t, t.doc), t)
         /\ \A r \in Flushed(t, t.doc) : /\ r.doc = t.doc /\ r.kept
                                         /\ r.over = "no" => r.base \subseteq r.text
<1> DEFINE r == Beacon(t, t.doc)
<1>1. r \in SaveRequest /\ r.doc = t.doc /\ r.text = t.raw /\ r.base = t.base
      /\ r.over = t.over /\ r.kept = TRUE
  BY DEF Buffer, SaveRequest, Beacon
<1>2. Flushed(t, t.doc) = {} \/ (t.dirty /\ Flushed(t, t.doc) = {r})
  BY DEF Flushed, Hiding
<1> HIDE DEF r
<1>3. t.dirty /\ r.over = "no" => r.base \subseteq r.text
  BY <1>1 DEF EditorOK, TextOK
<1> QED  BY <1>1, <1>2, <1>3 DEF EditorOK, WireOK

\* What the invariant speaks of is the same in two buffers.
Alike(t, u) ==
    /\ u.doc = t.doc /\ u.raw = t.raw /\ u.dirty = t.dirty /\ u.base = t.base
    /\ u.shown = t.shown /\ u.marked = t.marked /\ u.ls = t.ls /\ u.saving = t.saving
    /\ u.over = t.over

\* The invariant holds of a buffer that is like one it holds of.
LEMMA AlikeKeeps ==
  ASSUME NEW t, NEW u, NEW w, NEW text, NEW copy, NEW lost,
         EditorOK(t, w, text, copy, lost), Alike(t, u),
         u.own \in {t.doc, Nowhere}, u.leave # t.doc,
         u.sync = "conflict" => t.sync = "conflict"
  PROVE  EditorOK(u, w, text, copy, lost)
  BY DEF EditorOK, Alike, PlaceOK, WireOK, TextOK, SaveOK, LandedOK, CopyOK

\* What was typed is where it was.
LEMMA TypedStays ==
  ASSUME TypedOK, buf'.doc = buf.doc, typed' = typed, dropped \subseteq dropped',
         file[buf.doc] \subseteq file'[buf.doc], copies[buf.doc] \subseteq copies'[buf.doc],
         buf.raw \subseteq buf'.raw, buf.dirty => buf'.dirty
  PROVE  TypedOK'
  BY DEF TypedOK

\* The parts of the invariant, for the types of what is used.
LEMMA PartsAre ==
  ASSUME DraftIInv
  PROVE  /\ EditorTypes /\ TypedOK /\ buf \in Buffer /\ wire \in SUBSET SaveRequest
         /\ buf.doc \in Docs /\ buf.raw \in SUBSET Text /\ buf.dirty \in BOOLEAN
         /\ file[buf.doc] \in SUBSET Text /\ copies[buf.doc] \in SUBSET Text
         /\ buf.leave # buf.doc
         /\ buf.own \in {buf.doc, Nowhere} /\ buf.ls \in {buf.doc, Nowhere}
         /\ EditorOK(buf, wire, file[buf.doc], copies[buf.doc], dropped)
  BY DEF DraftIInv, EditorTypes, Buffer, EditorOK, PlaceOK

\* What a seeded buffer holds.
LEMMA SeededIs ==
  ASSUME NEW t \in Buffer, NEW text \in SUBSET Text, NEW copy \in SUBSET Text,
         ~(t.shown = t.doc /\ t.marked)
  PROVE  LET s == Seeded(t, text, copy) IN
         /\ s \in Buffer /\ s.doc = t.doc /\ s.base = text /\ s.shown = t.doc
         /\ s.ls = t.ls /\ s.saving = t.saving /\ s.own = t.own /\ s.leave = t.leave
         /\ s.sync = t.sync
         /\ \/ s.raw = copy /\ s.dirty /\ s.over = "recovered"
            \/ s.raw = text /\ ~s.dirty /\ s.over = "no" /\ (copy = {} \/ copy = text)
<1> DEFINE back == copy # {} /\ copy # text
           raw  == IF back THEN copy ELSE text
           mark == IF t.shown = t.doc /\ t.raw = raw THEN t.marked ELSE back
           over == IF back THEN "recovered" ELSE "no"
           time == t.timer \/ back
           s == [t EXCEPT !.base = text, !.raw = raw, !.dirty = back, !.timer = time,
                          !.marked = mark, !.shown = t.doc, !.over = over]
<1>1. Seeded(t, text, copy) = s
  BY DEF Seeded
<1>2. /\ back \in BOOLEAN /\ raw \in SUBSET Text /\ mark \in BOOLEAN /\ over \in Overs
      /\ time \in BOOLEAN
  BY DEF Buffer, Overs
<1>3. \/ back /\ raw = copy /\ over = "recovered"
      \/ ~back /\ raw = text /\ over = "no" /\ (copy = {} \/ copy = text)
  OBVIOUS
<1> HIDE DEF back, raw, mark, over, time
<1>4. s \in Buffer
  BY <1>2 DEF Buffer, MaybeDoc
<1>5. /\ s.doc = t.doc /\ s.base = text /\ s.shown = t.doc
      /\ s.ls = t.ls /\ s.saving = t.saving /\ s.own = t.own /\ s.leave = t.leave
      /\ s.sync = t.sync /\ s.raw = raw /\ s.dirty = back /\ s.over = over
  BY DEF Buffer
<1> HIDE DEF s
<1> QED  BY <1>1, <1>3, <1>4, <1>5

\* Another document has its own name.
LEMMA OpenedIs ==
  ASSUME NEW t \in Buffer, NEW d \in Docs, EditorTypes
  PROVE  Opened(t, d).doc = d
<1> DEFINE u == [t EXCEPT !.doc = d, !.leave = Nowhere]
<1>1. u \in Buffer /\ u.doc = d
  BY DEF Buffer, MaybeDoc
<1> HIDE DEF u
<1>2. cached[d] \in SUBSET Text /\ copies[d] \in SUBSET Text
  BY DEF EditorTypes
<1>3. Seeded(u, cached[d], copies[d]).doc = d
  <2>1. CASE u.shown = u.doc /\ u.marked
    BY <1>1, <2>1 DEF Seeded
  <2>2. CASE ~(u.shown = u.doc /\ u.marked)
    BY <1>1, <1>2, <2>2, SeededIs
  <2> QED  BY <2>1, <2>2
<1> QED  BY <1>1, <1>3 DEF Opened, u

\* The end of a save, if the tab stays.
LEMMA FinishedIs ==
  ASSUME NEW t \in Buffer, EditorTypes, Finished(t), t.leave # t.doc, buf'.doc = t.doc
  PROVE  /\ wire' = wire /\ buf' \in Buffer /\ buf'.saving = NoSave
         /\ buf'.raw = t.raw /\ buf'.dirty = t.dirty /\ buf'.base = t.base
         /\ buf'.shown = t.shown /\ buf'.marked = t.marked /\ buf'.ls = t.ls
         /\ buf'.own = t.own /\ buf'.leave = t.leave /\ buf'.over = t.over
<1> DEFINE u == [t EXCEPT !.saving = NoSave]
<1>1. u \in Buffer
  BY NoSaveIs DEF Buffer
<1>2. /\ u.doc = t.doc /\ u.raw = t.raw /\ u.dirty = t.dirty /\ u.base = t.base
      /\ u.shown = t.shown /\ u.marked = t.marked /\ u.ls = t.ls
      /\ u.own = t.own /\ u.leave = t.leave /\ u.over = t.over /\ u.saving = NoSave
  BY DEF Buffer
<1>3. t.leave = Nowhere => buf' = u /\ wire' = wire
  BY DEF Finished
<1>4. t.leave # Nowhere => buf' = Opened(u, t.leave) /\ t.leave \in Docs
  BY DEF Finished, Buffer, MaybeDoc
<1> HIDE DEF u
<1>5. t.leave = Nowhere
  BY <1>1, <1>4, OpenedIs
<1> QED  BY <1>1, <1>2, <1>3, <1>5

(* ---------------------------------------------------------------- the steps *)

\* The debounce runs out: what is dirty is sent with the sha it was made from.
LEMMA AutosaveKeeps ==
  ASSUME DraftIInv, Autosave
  PROVE  DraftIInv'
<1> DEFINE t == [buf EXCEPT !.timer = FALSE]
<1>1. buf \in Buffer
  BY PartsAre
<1>2. t \in Buffer /\ Alike(buf, t) /\ t.own = buf.own /\ t.leave = buf.leave /\ t.sync = buf.sync
  BY <1>1 DEF Buffer, Alike
<1>3. buf' = Persisting(t) /\ wire' = wire \cup Saving(buf)
  BY DEF Autosave
<1>4. Saving(t) = Saving(buf)
  BY <1>1 DEF Saving, MayPersist, Buffer
<1> HIDE DEF t
<1>5. EditorOK(t, wire, file[buf.doc], copies[buf.doc], dropped)
  BY <1>2, AlikeKeeps, PartsAre
<1>6. /\ buf' \in Buffer /\ wire' \in SUBSET SaveRequest
      /\ buf'.doc = t.doc /\ buf'.raw = t.raw /\ buf'.dirty = t.dirty
      /\ EditorOK(buf', wire', file[buf.doc], copies[buf.doc], dropped)
  BY <1>2, <1>3, <1>4, <1>5, PersistKeeps, PartsAre
<1>7. UNCHANGED <<file, copies, cached, fetch, typed, dropped>>
  BY DEF Autosave
<1>8. TypedOK'
  BY <1>2, <1>6, <1>7, TypedStays, PartsAre DEF Alike
<1>9. EditorTypes'
  BY <1>6, <1>7, PartsAre DEF EditorTypes
<1> QED  BY <1>2, <1>6, <1>7, <1>8, <1>9 DEF DraftIInv, Alike

\* A navigation that waits for its flush has not left yet.
LEMMA OpenKeeps ==
  ASSUME DraftIInv, NEW d \in Docs, Open(d), buf'.doc = buf.doc
  PROVE  DraftIInv'
<1> DEFINE t == [buf EXCEPT !.leave = d, !.timer = FALSE]
           u == [buf EXCEPT !.timer = @ /\ buf.sync \notin {"pending", "saving"}]
<1>1. buf \in Buffer /\ d # buf.doc
  BY PartsAre DEF Open
<1>2. t \in Buffer /\ Alike(buf, t) /\ t.own = buf.own /\ t.leave = d /\ t.sync = buf.sync
  BY <1>1 DEF Buffer, Alike, MaybeDoc
<1>3. u \in Buffer
  BY <1>1 DEF Buffer
<1>4. Saving(t) = Saving(buf)
  BY <1>1 DEF Saving, MayPersist, Buffer
<1>5. \/ buf' = Persisting(t) /\ wire' = wire \cup Saving(buf) /\ UNCHANGED fetch
      \/ buf' = Opened(u, d)
  BY DEF Open
<1> HIDE DEF t, u
<1>6. buf' = Persisting(t) /\ wire' = wire \cup Saving(t) /\ UNCHANGED fetch
  BY <1>1, <1>3, <1>4, <1>5, OpenedIs, PartsAre
<1>7. EditorOK(t, wire, file[buf.doc], copies[buf.doc], dropped)
  BY <1>1, <1>2, AlikeKeeps, PartsAre
<1>8. /\ buf' \in Buffer /\ wire' \in SUBSET SaveRequest
      /\ buf'.raw = t.raw /\ buf'.dirty = t.dirty
      /\ EditorOK(buf', wire', file[buf.doc], copies[buf.doc], dropped)
  BY <1>2, <1>6, <1>7, PersistKeeps, PartsAre
<1>9. UNCHANGED <<file, copies, cached, fetch, typed, dropped>>
  BY <1>6 DEF Open
<1>10. TypedOK'
  BY <1>2, <1>8, <1>9, TypedStays, PartsAre DEF Alike
<1>11. EditorTypes'
  BY <1>8, <1>9, PartsAre DEF EditorTypes
<1> QED  BY <1>8, <1>9, <1>10, <1>11 DEF DraftIInv

\* What is typed goes to the document that is shown, and is dirty.
LEMMA TypeKeeps ==
  ASSUME DraftIInv, NEW m \in Words, Type(m)
  PROVE  DraftIInv'
<1> DEFINE sync == IF buf.sync \in {"conflict", "error"} THEN buf.sync ELSE "pending"
           time == buf.timer \/ ~buf.conflicted
           raw  == buf.raw \cup {m}
           t == [buf EXCEPT !.raw = raw, !.dirty = TRUE, !.marked = TRUE, !.sync = sync,
                            !.timer = time, !.ls = buf.doc]
<1>1. buf \in Buffer /\ buf.shown = buf.doc /\ buf.doc \in Docs
  BY PartsAre DEF Type
<1>2. buf' = t
  BY DEF Type
<1>3. /\ sync \in {"clean", "pending", "saving", "saved", "error", "conflict"}
      /\ time \in BOOLEAN /\ raw \in SUBSET Text
      /\ sync = "conflict" => buf.sync = "conflict"
  BY <1>1 DEF Buffer, Text
<1>4. buf.raw \subseteq raw /\ m \in raw /\ \A x \in raw : x \in buf.raw \/ x = m
  OBVIOUS
<1> HIDE DEF sync, time, raw
<1>5. t \in Buffer
  BY <1>1, <1>3 DEF Buffer, MaybeDoc
<1>6. /\ t.doc = buf.doc /\ t.raw = raw /\ t.dirty = TRUE /\ t.base = buf.base
      /\ t.shown = buf.shown /\ t.marked = TRUE /\ t.ls = buf.doc /\ t.saving = buf.saving
      /\ t.own = buf.own /\ t.leave = buf.leave /\ t.over = buf.over /\ t.sync = sync
  BY <1>1 DEF Buffer
<1> HIDE DEF t
<1>7. UNCHANGED <<file, copies, wire, cached, fetch, dropped>>
      /\ typed' = [typed EXCEPT ![m] = buf.doc]
  BY DEF Type
<1>8. EditorOK(t, wire, file[buf.doc], copies[buf.doc], dropped)
  BY <1>1, <1>3, <1>4, <1>6, NowhereIs, PartsAre
     DEF EditorOK, PlaceOK, WireOK, TextOK, SaveOK, LandedOK, CopyOK
<1>9. TypedOK'
  BY <1>2, <1>4, <1>6, <1>7, PartsAre DEF TypedOK, EditorTypes
<1>10. EditorTypes'
  BY <1>1, <1>2, <1>5, <1>7, PartsAre DEF EditorTypes, MaybeDoc
<1> QED  BY <1>2, <1>6, <1>7, <1>8, <1>9, <1>10 DEF DraftIInv

\* A recovery copy is of the draft as it is.
LEMMA StoreKeeps ==
  ASSUME DraftIInv, Store
  PROVE  DraftIInv'
<1> DEFINE t == [buf EXCEPT !.ls = Nowhere]
<1>1. buf \in Buffer /\ buf.ls = buf.doc /\ buf.doc \in Docs
  BY PartsAre DEF Store
<1>2. t \in Buffer
  BY <1>1 DEF Buffer, MaybeDoc
<1>3. /\ t.doc = buf.doc /\ t.raw = buf.raw /\ t.dirty = buf.dirty /\ t.base = buf.base
      /\ t.shown = buf.shown /\ t.marked = buf.marked /\ t.ls = Nowhere
      /\ t.saving = buf.saving /\ t.own = buf.own /\ t.leave = buf.leave
      /\ t.over = buf.over /\ t.sync = buf.sync
  BY <1>1 DEF Buffer
<1>4. buf' = t
  BY DEF Store
<1> HIDE DEF t
<1>5. copies' = [copies EXCEPT ![buf.doc] = buf.raw]
      /\ UNCHANGED <<file, wire, cached, fetch, typed, dropped>>
  BY <1>1 DEF Store
<1>6. copies' \in [Docs -> SUBSET Text] /\ copies'[buf.doc] = buf.raw
  BY <1>1, <1>5, PartsAre DEF EditorTypes
<1>7. copies[buf.doc] \subseteq buf.raw
  BY <1>1, NowhereIs, PartsAre DEF EditorOK, CopyOK
<1>8. EditorOK(t, wire, file[buf.doc], buf.raw, dropped)
  BY <1>3, PartsAre DEF EditorOK, PlaceOK, WireOK, TextOK, SaveOK, LandedOK, CopyOK
<1>9. TypedOK'
  BY <1>3, <1>4, <1>5, <1>6, <1>7, TypedStays, PartsAre
<1>10. EditorTypes'
  BY <1>2, <1>4, <1>5, <1>6, PartsAre DEF EditorTypes
<1> QED  BY <1>3, <1>4, <1>5, <1>6, <1>8, <1>9, <1>10 DEF DraftIInv

\* A hidden tab sends what it has.
LEMMA HideKeeps ==
  ASSUME DraftIInv, Hide
  PROVE  DraftIInv'
<1>1. UNCHANGED <<file, copies, buf, cached, fetch, typed, dropped>>
      /\ wire' = wire \cup Flushed(buf, buf.doc)
  BY DEF Hide
<1>2. wire' \in SUBSET SaveRequest /\ WireOK(wire', buf)
  BY <1>1, FlushKeeps, PartsAre
<1>3. TypedOK'
  BY <1>1, TypedStays, PartsAre
<1>4. EditorTypes'
  BY <1>1, <1>2, PartsAre DEF EditorTypes
<1> QED  BY <1>1, <1>2, <1>3, <1>4, PartsAre DEF DraftIInv, EditorOK

\* The user keeps her own: the sha is still to come.
LEMMA KeepMineKeeps ==
  ASSUME DraftIInv, KeepMine
  PROVE  DraftIInv'
<1> DEFINE t == [buf EXCEPT !.conflicted = FALSE, !.own = buf.doc]
<1>1. buf \in Buffer
  BY PartsAre
<1>2. t \in Buffer /\ Alike(buf, t) /\ t.own = buf.doc /\ t.leave = buf.leave /\ t.sync = buf.sync
  BY <1>1 DEF Buffer, Alike, MaybeDoc
<1>3. buf' = t /\ UNCHANGED <<file, copies, wire, cached, fetch, typed, dropped>>
  BY DEF KeepMine
<1> HIDE DEF t
<1>4. EditorOK(t, wire, file[buf.doc], copies[buf.doc], dropped)
  BY <1>2, AlikeKeeps, PartsAre
<1>5. TypedOK'
  BY <1>2, <1>3, TypedStays, PartsAre DEF Alike
<1>6. EditorTypes'
  BY <1>2, <1>3, PartsAre DEF EditorTypes
<1> QED  BY <1>2, <1>3, <1>4, <1>5, <1>6 DEF DraftIInv, Alike

\* The sha came, and the draft is put over what is there.
LEMMA OwnShaKeeps ==
  ASSUME DraftIInv, OwnSha
  PROVE  DraftIInv'
<1> DEFINE t == [buf EXCEPT !.base = file[buf.own], !.own = Nowhere,
                            !.sync = "pending", !.over = "mine"]
           u == [buf EXCEPT !.own = Nowhere]
<1>1. buf \in Buffer /\ buf.own = buf.doc
  BY PartsAre DEF OwnSha
<1>2. t \in Buffer /\ t.doc = buf.doc /\ t.raw = buf.raw /\ t.dirty = buf.dirty
      /\ t.shown = buf.shown /\ t.marked = buf.marked /\ t.ls = buf.ls
      /\ t.saving = buf.saving /\ t.own = Nowhere /\ t.leave = buf.leave
      /\ t.over = "mine" /\ t.sync = "pending"
  BY <1>1, PartsAre DEF Buffer, MaybeDoc, Overs
<1>3. u \in Buffer /\ Alike(buf, u) /\ u.own = Nowhere /\ u.leave = buf.leave /\ u.sync = buf.sync
  BY <1>1 DEF Buffer, Alike, MaybeDoc
<1>4. \/ buf' = Persisting(t) /\ wire' = wire \cup Saving(t)
      \/ buf' = u /\ UNCHANGED wire
  BY DEF OwnSha
<1>5. UNCHANGED <<file, copies, cached, fetch, typed, dropped>>
  BY DEF OwnSha
<1> HIDE DEF t, u
<1>6. EditorOK(t, wire, file[buf.doc], copies[buf.doc], dropped)
  BY <1>2, PartsAre DEF EditorOK, PlaceOK, WireOK, TextOK, SaveOK, LandedOK, CopyOK
<1>7. EditorOK(u, wire, file[buf.doc], copies[buf.doc], dropped)
  BY <1>3, AlikeKeeps, PartsAre
<1>8. /\ buf' \in Buffer /\ wire' \in SUBSET SaveRequest /\ buf'.doc = buf.doc
      /\ buf'.raw = buf.raw /\ buf'.dirty = buf.dirty
      /\ EditorOK(buf', wire', file[buf.doc], copies[buf.doc], dropped)
  <2>1. CASE buf' = Persisting(t) /\ wire' = wire \cup Saving(t)
    BY <1>2, <1>6, <2>1, PersistKeeps, PartsAre
  <2>2. CASE buf' = u /\ UNCHANGED wire
    BY <1>3, <1>7, <2>2, PartsAre DEF Alike
  <2> QED  BY <1>4, <2>1, <2>2
<1>9. TypedOK'
  BY <1>5, <1>8, TypedStays, PartsAre
<1>10. EditorTypes'
  BY <1>5, <1>8, PartsAre DEF EditorTypes
<1> QED  BY <1>5, <1>8, <1>9, <1>10 DEF DraftIInv

\* What the user gives up, the draft and its copy, is on record; no save of it
\* is in flight.
LEMMA TakeTheirsKeeps ==
  ASSUME DraftIInv, TakeTheirs
  PROVE  DraftIInv'
<1> DEFINE t == [buf EXCEPT !.conflicted = FALSE, !.dirty = FALSE, !.shown = Nowhere,
                            !.marked = FALSE, !.sync = "clean"]
           lost == dropped \cup ((buf.raw \cup copies[buf.doc]) \ Docs)
<1>1. buf \in Buffer /\ buf.doc \in Docs /\ buf.sync = "conflict"
  BY PartsAre DEF TakeTheirs
<1>2. t \in Buffer
  BY <1>1 DEF Buffer, MaybeDoc
<1>3. /\ t.doc = buf.doc /\ t.raw = buf.raw /\ t.dirty = FALSE /\ t.shown = Nowhere
      /\ t.ls = buf.ls /\ t.saving = buf.saving /\ t.own = buf.own /\ t.leave = buf.leave
  BY <1>1 DEF Buffer
<1>4. buf' = t
  BY DEF TakeTheirs
<1>5. /\ copies' = [copies EXCEPT ![buf.doc] = {}] /\ dropped' = lost
      /\ fetch' = {} /\ UNCHANGED <<file, wire, cached, typed>>
  BY DEF TakeTheirs
<1> HIDE DEF t
<1>6. copies' \in [Docs -> SUBSET Text] /\ copies'[buf.doc] = {}
  BY <1>1, <1>5, PartsAre DEF EditorTypes
<1>7. lost \in SUBSET (Words \cup Others) /\ dropped \subseteq lost
  BY PartsAre DEF EditorTypes, Text
<1>8. EditorOK(t, wire, file[buf.doc], {}, lost)
  <2>1. buf.saving = NoSave
    BY <1>1, PartsAre DEF EditorOK, SaveOK
  <2>2. PlaceOK(t) /\ WireOK(wire, t) /\ TextOK(t)
    BY <1>1, <1>3, NowhereIs, PartsAre DEF EditorOK, PlaceOK, WireOK, TextOK
  <2>3. SaveOK(t) /\ LandedOK(t, file[buf.doc], lost) /\ CopyOK(t, {})
    BY <1>1, <1>3, <2>1, NoSaveIs, NowhereIs DEF SaveOK, LandedOK, CopyOK
  <2> QED  BY <2>2, <2>3 DEF EditorOK
<1>9. TypedOK'
  BY <1>1, <1>3, <1>4, <1>5, NowhereIs, PartsAre DEF TypedOK
<1>10. EditorTypes'
  BY <1>2, <1>4, <1>5, <1>6, <1>7, PartsAre DEF EditorTypes
<1> QED  BY <1>3, <1>4, <1>5, <1>6, <1>8, <1>9, <1>10 DEF DraftIInv

\* A save that failed leaves the draft as it is.
LEMMA RefusedKeeps ==
  ASSUME DraftIInv, Refused, buf'.doc = buf.doc
  PROVE  DraftIInv'
<1> DEFINE stop == [buf EXCEPT !.conflicted = TRUE, !.sync = "conflict"]
           wait == [buf EXCEPT !.sync = "error", !.timer = TRUE]
           t == IF buf.saving.answer = "stale" THEN stop ELSE wait
<1>1. buf \in Buffer
  BY PartsAre
<1>2. stop \in Buffer /\ Alike(buf, stop) /\ stop.own = buf.own /\ stop.leave = buf.leave
  BY <1>1 DEF Buffer, Alike
<1>3. wait \in Buffer /\ Alike(buf, wait) /\ wait.own = buf.own /\ wait.leave = buf.leave
  BY <1>1 DEF Buffer, Alike
<1>4. Finished(t)
  BY DEF Refused, Retrying
<1>5. buf.saving.answer \in {"stale", "error"}
      /\ fetch' \in {{}, fetch} /\ UNCHANGED <<file, copies, cached, typed, dropped>>
  BY DEF Refused
<1> HIDE DEF stop, wait
<1>6. t \in Buffer /\ Alike(buf, t) /\ t.own = buf.own /\ t.leave = buf.leave
  BY <1>2, <1>3
<1> HIDE DEF t
<1>7. /\ wire' = wire /\ buf' \in Buffer /\ buf'.saving = NoSave
      /\ buf'.raw = t.raw /\ buf'.dirty = t.dirty /\ buf'.base = t.base
      /\ buf'.shown = t.shown /\ buf'.marked = t.marked /\ buf'.ls = t.ls
      /\ buf'.own = t.own /\ buf'.leave = t.leave /\ buf'.over = t.over
  BY <1>4, <1>6, FinishedIs, PartsAre DEF Alike
<1>8. EditorOK(buf', wire, file[buf.doc], copies[buf.doc], dropped)
  BY <1>5, <1>6, <1>7, NoSaveIs, PartsAre
     DEF Alike, EditorOK, PlaceOK, WireOK, TextOK, SaveOK, LandedOK, CopyOK
<1>9. TypedOK'
  BY <1>5, <1>6, <1>7, TypedStays, PartsAre DEF Alike
<1>10. EditorTypes'
  BY <1>5, <1>7, PartsAre DEF EditorTypes
<1> QED  BY <1>5, <1>7, <1>8, <1>9, <1>10 DEF DraftIInv

\* A save that succeeded clears the draft and its copy, if nothing was typed
\* meanwhile: then all of it is on the server.
LEMMA SavedKeeps ==
  ASSUME DraftIInv, Saved, buf'.doc = buf.doc
  PROVE  DraftIInv'
<1> DEFINE s == buf.saving
           dirty == buf.dirty /\ ~Settled(buf)
           marked == buf.marked /\ ~Settled(buf)
           sync == IF Settled(buf) THEN "saved" ELSE "pending"
           time == buf.timer \/ ~Settled(buf)
           over == IF Settled(buf) THEN "no" ELSE IF buf.over = "no" THEN s.over ELSE buf.over
           t == [buf EXCEPT !.base = s.raw, !.dirty = dirty, !.marked = marked,
                            !.sync = sync, !.timer = time, !.over = over]
<1>1. /\ buf \in Buffer /\ buf.doc \in Docs /\ s.answer = "ok" /\ s \in SaveState
      /\ buf.dirty \in BOOLEAN /\ buf.marked \in BOOLEAN /\ buf.timer \in BOOLEAN
  BY PartsAre DEF Saved, Buffer
<1>2. /\ s # NoSave /\ s.doc = buf.doc /\ buf.shown = buf.doc /\ s.raw \in SUBSET Text
      /\ s.over = "no" => buf.marked /\ buf.dirty /\ (buf.over = "no" => s.raw \subseteq buf.raw)
  BY <1>1, NoSaveIs, PartsAre DEF EditorOK, SaveOK, SaveState
<1>3. /\ dirty \in BOOLEAN /\ marked \in BOOLEAN /\ time \in BOOLEAN /\ over \in Overs
      /\ sync \in {"clean", "pending", "saving", "saved", "error", "conflict"}
  BY <1>1 DEF Buffer, SaveState, Overs
<1>4. \/ buf.raw = s.raw /\ ~dirty /\ over = "no"
      \/ buf.raw # s.raw /\ dirty = buf.dirty /\ marked = buf.marked
         /\ (over = "no" => buf.over = "no" /\ s.over = "no")
  BY <1>1 DEF Settled
<1>5. Finished(t)
  BY DEF Saved
<1>6. /\ copies' = IF buf.raw = s.raw THEN [copies EXCEPT ![buf.doc] = {}] ELSE copies
      /\ fetch' \in {{}, fetch} /\ UNCHANGED <<file, cached, typed, dropped>>
  <2>1. /\ copies' = IF Settled(buf) THEN [copies EXCEPT ![buf.saving.doc] = {}] ELSE copies
        /\ fetch' = {} \/ fetch' = fetch
        /\ UNCHANGED <<file, cached, typed, dropped>>
    BY DEF Saved
  <2>2. s.doc = buf.doc
    BY <1>2
  <2> QED  BY <2>1, <2>2, Zenon DEF Settled
<1>20. s = buf.saving
  OBVIOUS
<1> HIDE DEF s, dirty, marked, sync, time, over
<1>7. t \in Buffer
  BY <1>1, <1>2, <1>3 DEF Buffer
<1>8. /\ t.doc = buf.doc /\ t.raw = buf.raw /\ t.dirty = dirty /\ t.base = s.raw
      /\ t.shown = buf.shown /\ t.marked = marked /\ t.ls = buf.ls
      /\ t.own = buf.own /\ t.leave = buf.leave /\ t.over = over
  BY <1>1 DEF Buffer
<1> HIDE DEF t
<1>9. /\ wire' = wire /\ buf' \in Buffer /\ buf'.saving = NoSave
      /\ buf'.raw = t.raw /\ buf'.dirty = t.dirty /\ buf'.base = t.base
      /\ buf'.shown = t.shown /\ buf'.marked = t.marked /\ buf'.ls = t.ls
      /\ buf'.own = t.own /\ buf'.leave = t.leave /\ buf'.over = t.over
  BY <1>5, <1>7, <1>8, FinishedIs, PartsAre
<1>10. copies' \in [Docs -> SUBSET Text]
       /\ copies'[buf.doc] = IF buf.raw = s.raw THEN {} ELSE copies[buf.doc]
  BY <1>1, <1>6, PartsAre DEF EditorTypes
<1>11. s.raw \subseteq file[buf.doc] \cup dropped \cup Docs
       /\ copies[buf.doc] \subseteq buf.raw
  BY <1>1, <1>2, <1>20, PartsAre DEF EditorOK, LandedOK, CopyOK
<1>12. PlaceOK(buf') /\ SaveOK(buf') /\ LandedOK(buf', file[buf.doc], dropped)
  BY <1>8, <1>9, NoSaveIs, PartsAre DEF EditorOK, PlaceOK, SaveOK, LandedOK
<1>13. TextOK(buf') /\ CopyOK(buf', copies'[buf.doc])
  BY <1>2, <1>4, <1>8, <1>9, <1>10, PartsAre DEF EditorOK, TextOK, CopyOK
<1>14. WireOK(wire, buf')
  <2>1. \A r \in wire : r.kept
    BY <1>1, <1>20, PartsAre DEF EditorOK, WireOK
  <2> QED  BY <2>1, PartsAre DEF EditorOK, WireOK
<1>15. TypedOK'
  <2>1. CASE buf.raw = s.raw
    BY <1>6, <1>8, <1>9, <1>10, <1>11, <2>1, NowhereIs, PartsAre DEF TypedOK
  <2>2. CASE buf.raw # s.raw
    BY <1>4, <1>6, <1>8, <1>9, <1>10, <2>2, TypedStays, PartsAre
  <2> QED  BY <2>1, <2>2
<1>16. EditorTypes'
  BY <1>6, <1>9, <1>10, PartsAre DEF EditorTypes
<1> QED  BY <1>6, <1>9, <1>12, <1>13, <1>14, <1>15, <1>16 DEF DraftIInv, EditorOK

\* A fetch is answered with what is there.
LEMMA FetchKeeps ==
  ASSUME DraftIInv, Fetch
  PROVE  DraftIInv'
<1>1. fetch' = file[buf.doc] /\ UNCHANGED <<file, copies, wire, buf, cached, typed, dropped>>
  BY DEF Fetch
<1>2. EditorTypes' /\ TypedOK'
  BY <1>1, TypedStays, PartsAre DEF EditorTypes
<1> QED  BY <1>1, <1>2, PartsAre DEF DraftIInv

\* What arrives replaces no draft but one that equals its copy, and then the
\* copy takes its place.
LEMMA ArriveKeeps ==
  ASSUME DraftIInv, Arrive
  PROVE  DraftIInv'
<1> DEFINE t == Seeded(buf, fetch, copies[buf.doc])
<1>1. buf' = t /\ fetch' = {} /\ cached' = [cached EXCEPT ![buf.doc] = fetch]
      /\ UNCHANGED <<file, copies, wire, typed, dropped>>
  BY DEF Arrive
<1>2. fetch \in SUBSET Text /\ cached' \in [Docs -> SUBSET Text]
  BY <1>1, PartsAre DEF EditorTypes
<1>3. CASE buf.shown = buf.doc /\ buf.marked
  <2>1. buf' = buf
    BY <1>1, <1>3 DEF Seeded
  <2>2. EditorTypes' /\ TypedOK'
    BY <1>1, <1>2, <2>1, TypedStays, PartsAre DEF EditorTypes
  <2> QED  BY <1>1, <2>1, <2>2, PartsAre DEF DraftIInv
<1>4. CASE ~(buf.shown = buf.doc /\ buf.marked)
  <2>1. /\ t \in Buffer /\ t.doc = buf.doc /\ t.base = fetch /\ t.shown = buf.doc
        /\ t.ls = buf.ls /\ t.saving = buf.saving /\ t.own = buf.own /\ t.leave = buf.leave
        /\ t.sync = buf.sync
        /\ \/ t.raw = copies[buf.doc] /\ t.dirty /\ t.over = "recovered"
           \/ t.raw = fetch /\ ~t.dirty /\ t.over = "no"
              /\ (copies[buf.doc] = {} \/ copies[buf.doc] = fetch)
    BY <1>2, <1>4, SeededIs, PartsAre
  <2> HIDE DEF t
  <2>2. PlaceOK(t) /\ WireOK(wire, t) /\ LandedOK(t, file[buf.doc], dropped)
    BY <2>1, PartsAre DEF EditorOK, PlaceOK, WireOK, LandedOK
  <2>3. TextOK(t) /\ CopyOK(t, copies[buf.doc])
    BY <2>1 DEF TextOK, CopyOK
  <2>4. SaveOK(t)
    BY <1>4, <2>1, PartsAre DEF EditorOK, SaveOK
  <2>5. buf.dirty => buf.raw = copies[buf.doc]
    BY <1>4, PartsAre DEF EditorOK, TextOK, CopyOK
  <2>6. TypedOK'
    BY <1>1, <2>1, <2>5, PartsAre DEF TypedOK
  <2>7. EditorTypes'
    BY <1>1, <1>2, <2>1, PartsAre DEF EditorTypes
  <2> QED  BY <1>1, <2>1, <2>2, <2>3, <2>4, <2>6, <2>7 DEF DraftIInv, EditorOK
<1> QED  BY <1>3, <1>4

\* A reload loses what has no copy yet, and the requests on their way lose who
\* waits for them.
LEMMA ReloadKeeps ==
  ASSUME DraftIInv, NEW dies \in BOOLEAN, Reload(dies)
  PROVE  DraftIInv'
<1> DEFINE t == [Blank EXCEPT !.doc = buf.doc]
           old == {[r EXCEPT !.kept = TRUE] : r \in wire}
           last == IF dies THEN {} ELSE Flushed(buf, buf.doc)
           gone == IF buf.ls = Nowhere THEN dropped
                   ELSE dropped \cup (buf.raw \ (Docs \cup copies[buf.ls]))
<1>1. buf' = t /\ wire' = old \cup last /\ dropped' = gone
      /\ cached' = [d \in Docs |-> {}] /\ fetch' = {} /\ UNCHANGED <<file, copies, typed>>
  BY DEF Reload
<1>2. /\ t \in Buffer /\ t.doc = buf.doc /\ t.raw = {} /\ t.dirty = FALSE /\ t.shown = Nowhere
      /\ t.ls = Nowhere /\ t.saving = NoSave /\ t.own = Nowhere /\ t.leave = Nowhere
  BY BlankIs, PartsAre
<1>3. \A r \in wire : LET k == [r EXCEPT !.kept = TRUE] IN
          /\ k \in SaveRequest /\ k.doc = r.doc /\ k.base = r.base /\ k.text = r.text
          /\ k.over = r.over /\ k.kept
  BY PartsAre DEF SaveRequest
<1>4. \A r \in old : /\ r \in SaveRequest /\ r.kept /\ r.doc = buf.doc
                     /\ r.over = "no" => r.base \subseteq r.text
  <2> SUFFICES ASSUME NEW r \in old
               PROVE  /\ r \in SaveRequest /\ r.kept /\ r.doc = buf.doc
                      /\ r.over = "no" => r.base \subseteq r.text
    OBVIOUS
  <2>1. PICK q \in wire : r = [q EXCEPT !.kept = TRUE]
    OBVIOUS
  <2>2. /\ r \in SaveRequest /\ r.doc = q.doc /\ r.base = q.base /\ r.text = q.text
        /\ r.over = q.over /\ r.kept
    BY <1>3, <2>1
  <2>3. /\ q.doc = buf.doc
        /\ q.over = "no" => q.base \subseteq q.text
    BY PartsAre DEF EditorOK, WireOK
  <2> QED  BY <2>2, <2>3
<1>5. \A r \in last : /\ r \in SaveRequest /\ r.kept /\ r.doc = buf.doc
                      /\ r.over = "no" => r.base \subseteq r.text
  BY FlushKeeps, PartsAre
<1>6. gone \in SUBSET (Words \cup Others) /\ dropped \subseteq gone
      /\ (buf.ls # Nowhere => buf.raw \subseteq gone \cup Docs \cup copies[buf.doc])
  BY PartsAre DEF EditorTypes, Text
<1> HIDE DEF t, old, last, gone
<1>7. WireOK(old \cup last, t)
  BY <1>2, <1>4, <1>5 DEF WireOK
<1>8. buf.doc \in Docs /\ Nowhere # buf.doc
  BY NowhereIs, PartsAre
<1>9. PlaceOK(t) /\ TextOK(t) /\ SaveOK(t) /\ LandedOK(t, file[buf.doc], gone)
      /\ CopyOK(t, copies[buf.doc])
  BY <1>2, <1>8, NoSaveIs DEF PlaceOK, TextOK, SaveOK, LandedOK, CopyOK
<1>10. TypedOK'
  <2>1. buf.dirty => buf.raw \subseteq gone \cup Docs \cup copies[buf.doc]
    BY <1>6, PartsAre DEF EditorOK, CopyOK
  <2> QED  BY <1>1, <1>2, <1>6, <2>1, NowhereIs, PartsAre DEF TypedOK
<1>11. EditorTypes'
  BY <1>1, <1>2, <1>4, <1>5, <1>6, PartsAre DEF EditorTypes
<1> QED  BY <1>1, <1>2, <1>7, <1>9, <1>10, <1>11 DEF DraftIInv, EditorOK

\* The answer to a request that is waited for reaches the save in flight.
LEMMA ToldIs ==
  ASSUME DraftIInv, NEW r \in wire, NEW answer \in {"ok", "stale", "error"}, Told(r, answer)
  PROVE  /\ buf' \in Buffer
         /\ buf'.doc = buf.doc /\ buf'.raw = buf.raw /\ buf'.dirty = buf.dirty
         /\ buf'.base = buf.base /\ buf'.shown = buf.shown /\ buf'.marked = buf.marked
         /\ buf'.ls = buf.ls /\ buf'.own = buf.own /\ buf'.leave = buf.leave
         /\ buf'.over = buf.over /\ buf'.sync = buf.sync
         /\ buf'.saving.doc = buf.saving.doc /\ buf'.saving.raw = buf.saving.raw
         /\ buf'.saving.over = buf.saving.over
         /\ r.kept => buf' = buf
         /\ ~r.kept => buf'.saving.answer = answer
<1>1. CASE r.kept
  BY <1>1, PartsAre DEF Told
<1>2. CASE ~r.kept
  <2> DEFINE s == [buf.saving EXCEPT !.answer = answer]
  <2>1. buf \in Buffer /\ buf.saving \in SaveState
    BY PartsAre DEF Buffer
  <2>2. s \in SaveState /\ s.doc = buf.saving.doc /\ s.raw = buf.saving.raw
        /\ s.over = buf.saving.over /\ s.answer = answer
    BY <2>1 DEF SaveState
  <2>3. buf' = [buf EXCEPT !.saving = s]
    BY <1>2 DEF Told
  <2> HIDE DEF s
  <2>4. buf' \in Buffer
    BY <2>1, <2>2, <2>3 DEF Buffer
  <2> QED  BY <1>2, <2>1, <2>2, <2>3, <2>4 DEF Buffer
<1> QED  BY <1>1, <1>2

\* A request of one tab is for its document, and that it is answered leaves the
\* others waited for by nobody.
LEMMA AnswerKeeps ==
  ASSUME DraftIInv, NEW r \in wire, NEW answer \in {"ok", "stale", "error"},
         Told(r, answer)
  PROVE  /\ PlaceOK(buf') /\ TextOK(buf') /\ SaveOK(buf') /\ WireOK(wire \ {r}, buf')
         /\ CopyOK(buf', copies[buf.doc])
<1>1. PlaceOK(buf') /\ TextOK(buf') /\ CopyOK(buf', copies[buf.doc])
  BY ToldIs, PartsAre DEF EditorOK, PlaceOK, TextOK, CopyOK
<1>2. CASE r.kept
  BY <1>1, <1>2, ToldIs, PartsAre DEF EditorOK, SaveOK, WireOK
<1>3. CASE ~r.kept
  <2>1. buf.saving # NoSave /\ \A q \in wire \ {r} : q.kept
    BY <1>3, NoSaveIs, PartsAre DEF EditorOK, WireOK
  <2>2. SaveOK(buf')
    BY <2>1, ToldIs, PartsAre DEF EditorOK, SaveOK
  <2>3. WireOK(wire \ {r}, buf')
    BY <2>1, ToldIs, PartsAre DEF EditorOK, WireOK
  <2> QED  BY <1>1, <2>2, <2>3
<1> QED  BY <1>2, <1>3

\* The action property, for one step.
OthersKept ==
    \A d \in Docs : \/ file[d] \cap Others \subseteq file'[d]
                    \/ \E r \in wire \ wire' : r.doc = d /\ r.over # "no"

\* A save lands on the text it was made from, or was meant to replace, or is
\* refused.
LEMMA LandKeeps ==
  ASSUME DraftIInv, NEW r \in wire, Land(r)
  PROVE  DraftIInv' /\ OthersKept
<1>1. /\ wire' = wire \ {r} /\ r \in SaveRequest /\ r.doc = buf.doc /\ buf.doc \in Docs
      /\ UNCHANGED <<copies, cached, fetch, typed>>
  BY PartsAre DEF Land, EditorOK, WireOK
<1>2. /\ r.text \in SUBSET Text
      /\ r.over = "no" => r.base \subseteq r.text
      /\ ~r.kept => r.text = buf.saving.raw
  BY <1>1, PartsAre DEF SaveRequest, EditorOK, WireOK
<1>3. CASE Current(r)
  <2> DEFINE lost == dropped \cup IF r.over = "no" THEN {}
                                  ELSE file[r.doc] \ (r.text \cup Docs)
  <2>1. file' = [file EXCEPT ![r.doc] = r.text] /\ dropped' = lost /\ Told(r, "ok")
    BY <1>3 DEF Land
  <2>2. r.over = "no" => file[buf.doc] \subseteq r.text
    BY <1>1, <1>2, <1>3 DEF Current
  <2>3. /\ lost \in SUBSET (Words \cup Others) /\ dropped \subseteq lost
        /\ file[buf.doc] \subseteq r.text \cup lost \cup Docs
    BY <1>1, <2>2, PartsAre DEF EditorTypes, Text
  <2> HIDE DEF lost
  <2>4. file' \in [Docs -> SUBSET Text] /\ file'[buf.doc] = r.text
        /\ \A d \in Docs \ {buf.doc} : file'[d] = file[d]
    BY <1>1, <1>2, <2>1, PartsAre DEF EditorTypes
  <2>5. LandedOK(buf', r.text, lost)
    BY <1>2, <2>1, <2>3, ToldIs, PartsAre DEF EditorOK, LandedOK
  <2>6. TypedOK'
    BY <1>1, <2>1, <2>3, <2>4, NowhereIs, ToldIs, PartsAre DEF TypedOK
  <2>7. EditorTypes'
    BY <1>1, <2>1, <2>3, <2>4, ToldIs, PartsAre DEF EditorTypes
  <2>8. OthersKept
    BY <1>1, <2>2, <2>4 DEF OthersKept
  <2> QED
    BY <1>1, <2>1, <2>4, <2>5, <2>6, <2>7, <2>8, AnswerKeeps, ToldIs DEF DraftIInv, EditorOK
<1>4. CASE ~Current(r)
  <2>1. Told(r, "stale") /\ UNCHANGED <<file, dropped>>
    BY <1>4 DEF Land
  <2>2. LandedOK(buf', file[buf.doc], dropped)
    BY <2>1, ToldIs, PartsAre DEF EditorOK, LandedOK
  <2>3. TypedOK'
    BY <1>1, <2>1, TypedStays, ToldIs, PartsAre
  <2>4. EditorTypes'
    BY <1>1, <2>1, ToldIs, PartsAre DEF EditorTypes
  <2> QED
    BY <1>1, <2>1, <2>2, <2>3, <2>4, AnswerKeeps, ToldIs DEF DraftIInv, EditorOK, OthersKept
<1> QED  BY <1>3, <1>4

\* A connection breaks: the request is lost, or nobody waits for it any more.
LEMMA BrokenKeeps ==
  ASSUME DraftIInv, NEW r \in wire, Broken(r)
  PROVE  DraftIInv'
<1> DEFINE k == [r EXCEPT !.kept = TRUE]
<1>1. /\ Told(r, "error") /\ UNCHANGED <<file, copies, cached, fetch, typed, dropped>>
      /\ wire' = wire \ {r} \/ wire' = (wire \ {r}) \cup {k}
  BY DEF Broken
<1>2. r \in SaveRequest /\ r.doc = buf.doc /\ (r.over = "no" => r.base \subseteq r.text)
  BY PartsAre DEF EditorOK, WireOK
<1>3. k \in SaveRequest /\ k.doc = buf.doc /\ (k.over = "no" => k.base \subseteq k.text) /\ k.kept
  BY <1>2 DEF SaveRequest
<1> HIDE DEF k
<1>4. WireOK(wire', buf')
  BY <1>1, <1>3, AnswerKeeps, ToldIs DEF WireOK
<1>5. LandedOK(buf', file[buf.doc], dropped)
  BY <1>1, ToldIs, PartsAre DEF EditorOK, LandedOK
<1>6. TypedOK'
  BY <1>1, TypedStays, ToldIs, PartsAre
<1>7. EditorTypes'
  BY <1>1, <1>3, ToldIs, PartsAre DEF EditorTypes
<1> QED  BY <1>1, <1>4, <1>5, <1>6, <1>7, AnswerKeeps, ToldIs DEF DraftIInv, EditorOK

\* Somebody else's edit adds to the document.
LEMMA WritesKeep ==
  ASSUME DraftIInv, NEW d \in Docs, NEW o \in Others, SomebodyWrites(d, o)
  PROVE  DraftIInv' /\ OthersKept
<1>1. file' = [file EXCEPT ![d] = file[d] \cup {o}]
      /\ UNCHANGED <<copies, wire, buf, cached, fetch, typed, dropped>>
  BY DEF SomebodyWrites
<1>2. file' \in [Docs -> SUBSET Text] /\ \A e \in Docs : file[e] \subseteq file'[e]
  BY <1>1, PartsAre DEF EditorTypes, Text
<1>3. TypedOK'
  BY <1>1, <1>2, TypedStays, PartsAre
<1>4. EditorTypes'
  BY <1>1, <1>2, PartsAre DEF EditorTypes
<1>5. LandedOK(buf, file'[buf.doc], dropped)
  BY <1>2, PartsAre DEF EditorOK, LandedOK
<1> QED  BY <1>1, <1>2, <1>3, <1>4, <1>5, PartsAre DEF DraftIInv, EditorOK, OthersKept

\* The tab opens with a document that it has nothing of.
LEMMA InitDraft == DraftInit => DraftIInv
<1> SUFFICES ASSUME DraftInit
             PROVE  DraftIInv
  OBVIOUS
<1>1. PICK d \in Docs : buf = [Blank EXCEPT !.doc = d]
  BY DEF DraftInit
<1>2. /\ buf \in Buffer /\ buf.doc = d /\ buf.raw = {} /\ buf.dirty = FALSE
      /\ buf.shown = Nowhere /\ buf.ls = Nowhere /\ buf.saving = NoSave
      /\ buf.own = Nowhere /\ buf.leave = Nowhere
  BY <1>1, BlankIs
<1>3. Nowhere # d
  BY NowhereIs
<1>4. EditorTypes
  BY <1>2 DEF DraftInit, EditorTypes, MaybeDoc, Text
<1>5. PlaceOK(buf) /\ WireOK(wire, buf) /\ TextOK(buf) /\ SaveOK(buf)
  BY <1>2, <1>3, NoSaveIs DEF DraftInit, PlaceOK, WireOK, TextOK, SaveOK
<1>6. LandedOK(buf, file[buf.doc], dropped) /\ CopyOK(buf, copies[buf.doc])
  BY <1>2, <1>3, NoSaveIs DEF LandedOK, CopyOK
<1>7. TypedOK
  BY DEF DraftInit, TypedOK
<1> QED  BY <1>4, <1>5, <1>6, <1>7 DEF DraftIInv, EditorOK

\* What does not change a document's text takes nothing of it.
LEMMA FilesStay == file' = file => OthersKept
  BY DEF OthersKept

\* A step of a tab that stays with its document keeps the invariant, and what
\* others wrote.
LEMMA StepDraft ==
  DraftIInv /\ [DraftNext]_editor /\ [buf'.doc = buf.doc]_editor
      => DraftIInv' /\ [OthersKept]_editor
<1> SUFFICES ASSUME DraftIInv, [DraftNext]_editor, [buf'.doc = buf.doc]_editor
             PROVE  DraftIInv' /\ [OthersKept]_editor
  OBVIOUS
<1>1. CASE UNCHANGED editor
  BY <1>1 DEF editor, DraftIInv, EditorTypes, TypedOK
<1>2. CASE DraftNext /\ ~UNCHANGED editor
  <2>1. buf'.doc = buf.doc
    BY <1>2
  <2>2. CASE Autosave \/ Store \/ Hide
    BY <2>2, AutosaveKeeps, StoreKeeps, HideKeeps, FilesStay DEF Autosave, Store, Hide
  <2>3. CASE Saved \/ Refused
    BY <2>1, <2>3, SavedKeeps, RefusedKeeps, FilesStay DEF Saved, Refused
  <2>4. CASE TakeTheirs \/ KeepMine \/ OwnSha
    BY <2>4, TakeTheirsKeeps, KeepMineKeeps, OwnShaKeeps, FilesStay
       DEF TakeTheirs, KeepMine, OwnSha
  <2>5. CASE Fetch \/ Arrive
    BY <2>5, FetchKeeps, ArriveKeeps, FilesStay DEF Fetch, Arrive
  <2>6. ASSUME NEW m \in Words, Type(m)
        PROVE  DraftIInv' /\ OthersKept
    BY <2>6, TypeKeeps, FilesStay DEF Type
  <2>7. ASSUME NEW d \in Docs, Open(d)
        PROVE  DraftIInv' /\ OthersKept
    BY <2>1, <2>7, OpenKeeps, FilesStay DEF Open
  <2>8. ASSUME NEW dies \in BOOLEAN, Reload(dies)
        PROVE  DraftIInv' /\ OthersKept
    BY <2>8, ReloadKeeps, FilesStay DEF Reload
  <2>9. ASSUME NEW r \in wire, Land(r) \/ Broken(r)
        PROVE  DraftIInv' /\ OthersKept
    BY <2>9, LandKeeps, BrokenKeeps, FilesStay DEF Broken
  <2>10. ASSUME NEW d \in Docs, NEW o \in Others, SomebodyWrites(d, o)
         PROVE  DraftIInv' /\ OthersKept
    BY <2>10, WritesKeep
  <2> QED
    BY <1>2, <2>2, <2>3, <2>4, <2>5, <2>6, <2>7, <2>8, <2>9, <2>10 DEF DraftNext
<1> QED  BY <1>1, <1>2

\* The type invariant, and what was typed, as Draft states them.
LEMMA DraftSays == DraftIInv => DraftInv
<1> SUFFICES ASSUME DraftIInv
             PROVE  DraftInv
  OBVIOUS
<1> DEFINE waited == {r \in wire : ~r.kept}
<1>1. Cardinality(waited) <= 1
  <2>1. CASE waited = {}
    BY <2>1, FS_EmptySet
  <2>2. CASE waited # {}
    <3>1. PICK r : waited = {r}
      <4>1. PICK r : r \in waited
        BY <2>2
      <4>2. \A s \in waited : s = r
        BY <4>1, PartsAre DEF EditorOK, WireOK
      <4>3. waited = {r}
        BY <4>1, <4>2
      <4> QED  BY <4>3
    <3> HIDE DEF waited
    <3>2. Cardinality({r}) = 1
      BY FS_Singleton
    <3> QED  BY <3>1, <3>2
  <2> QED  BY <2>1, <2>2
<1>2. DraftTypeOK
  BY <1>1, PartsAre DEF DraftTypeOK, EditorTypes, Buffer, MaybeDoc
<1>3. TypedKept
  BY PartsAre DEF TypedKept, TypedOK, EditorOK, TextOK
<1> QED  BY <1>2, <1>3 DEF DraftInv

\* As long as a tab stays with its document, what its user typed is on the
\* server, in the editor as not yet saved, or in the recovery copy.
THEOREM NothingTypedIsLost == DraftSpec /\ Stays => []DraftInv
  BY InitDraft, StepDraft, DraftSays, PTL DEF DraftSpec, Stays

\* As long as a tab stays with its document, no save takes what somebody else
\* wrote with it.
THEOREM OthersSurvive == DraftSpec /\ Stays => NothingClobbered
  BY InitDraft, StepDraft, PTL DEF DraftSpec, Stays, NothingClobbered, OthersKept

\* In a branch of one document the tab stays with it.
LEMMA AloneStays ==
  ASSUME OneDocument, DraftIInv, [DraftNext]_editor
  PROVE  [buf'.doc = buf.doc]_editor
<1>1. PICK d : Docs = {d}
  BY DEF OneDocument
<1>2. buf \in Buffer /\ buf.doc = d /\ buf.leave = Nowhere
  BY <1>1, PartsAre DEF Buffer, MaybeDoc
<1>3. CASE UNCHANGED editor
  BY <1>3
<1>4. CASE Saved
  <2> DEFINE s == buf.saving
             dirty == buf.dirty /\ ~Settled(buf)
             marked == buf.marked /\ ~Settled(buf)
             sync == IF Settled(buf) THEN "saved" ELSE "pending"
             time == buf.timer \/ ~Settled(buf)
             over == IF Settled(buf) THEN "no" ELSE IF buf.over = "no" THEN s.over ELSE buf.over
             t == [buf EXCEPT !.base = s.raw, !.dirty = dirty, !.marked = marked,
                              !.sync = sync, !.timer = time, !.over = over]
  <2>1. Finished(t)
    BY <1>4 DEF Saved
  <2> HIDE DEF s, dirty, marked, sync, time, over
  <2>2. t.leave = Nowhere /\ t.doc = buf.doc /\ [t EXCEPT !.saving = NoSave].doc = t.doc
    BY <1>2 DEF Buffer
  <2> HIDE DEF t
  <2> QED  BY <2>1, <2>2 DEF Finished
<1>5. CASE Refused
  <2> DEFINE stop == [buf EXCEPT !.conflicted = TRUE, !.sync = "conflict"]
             wait == [buf EXCEPT !.sync = "error", !.timer = TRUE]
             t == IF buf.saving.answer = "stale" THEN stop ELSE wait
  <2>1. Finished(t)
    BY <1>5 DEF Refused, Retrying
  <2>2. /\ stop.leave = Nowhere /\ stop.doc = buf.doc
        /\ [stop EXCEPT !.saving = NoSave].doc = buf.doc
        /\ wait.leave = Nowhere /\ wait.doc = buf.doc
        /\ [wait EXCEPT !.saving = NoSave].doc = buf.doc
    BY <1>2 DEF Buffer
  <2> HIDE DEF stop, wait
  <2>3. t.leave = Nowhere /\ [t EXCEPT !.saving = NoSave].doc = buf.doc
    BY <2>2
  <2> HIDE DEF t
  <2> QED  BY <2>1, <2>3 DEF Finished
<1>6. CASE \E e \in Docs : Open(e)
  BY <1>1, <1>2, <1>6 DEF Open
<1>7. CASE DraftNext /\ ~Saved /\ ~Refused /\ ~(\E e \in Docs : Open(e))
  <2>1. DraftIInv'
    BY <1>7, AutosaveKeeps, StoreKeeps, HideKeeps, TakeTheirsKeeps, KeepMineKeeps,
       OwnShaKeeps, FetchKeeps, ArriveKeeps, TypeKeeps, ReloadKeeps, LandKeeps,
       BrokenKeeps, WritesKeep DEF DraftNext
  <2>2. buf'.doc \in Docs
    BY <2>1 DEF DraftIInv, EditorTypes, Buffer
  <2> QED  BY <1>1, <1>2, <2>2
<1> QED  BY <1>3, <1>4, <1>5, <1>6, <1>7

\* The same of a branch of one document, whatever its user does: this is what
\* the runs check.
THEOREM OneDocumentKept == OneDocument => (DraftSpec => []DraftInv /\ NothingClobbered)
<1> SUFFICES ASSUME OneDocument
             PROVE  DraftSpec => []DraftInv /\ NothingClobbered
  OBVIOUS
<1>1. DraftIInv /\ [DraftNext]_editor => [buf'.doc = buf.doc]_editor
  BY AloneStays
<1>2. DraftIInv /\ [DraftNext]_editor => DraftIInv' /\ [OthersKept]_editor
  BY <1>1, StepDraft
<1> QED
  BY <1>2, InitDraft, DraftSays, PTL DEF DraftSpec, NothingClobbered, OthersKept

=============================================================================

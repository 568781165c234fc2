----------------------------- MODULE Chat_proofs -----------------------------
(* Proofs about a message on its way: ChatTurn, the turn of the PC, for any *)
(* number of messages, attempts and crashes; and MobileChat, the screen of  *)
(* the phone that sends it, for any number of conversations, messages,      *)
(* lost requests and devices. The two modules share no name.                *)
EXTENDS ChatTurn, MobileChat, WellFoundedInduction, TLAPS

(* A question that is being worked on has no reply yet, and one whose      *)
(* files are being archived has none archived.                             *)
Unsettled ==
    \A a \in Attempts :
        /\ stage[a] \in Working => message[a] \notin replied
        /\ stage[a] = "archive" => message[a] \notin archived

(* The answers of a message that never asked for the password are counted  *)
(* by its reply.                                                           *)
Counted ==
    /\ \A a \in Attempts : stage[a] = "unnamed" => message[a] \in asked
    /\ \A m \in Messages \ asked : answers[m] <= IF m \in replied THEN 1 ELSE 0

(* The inductive invariant.                                                *)
Settled == TypeOK /\ OneTurn /\ WorkIsStored /\ Unsettled /\ Counted

LEMMA InitSettled == Init => Settled
BY ChatTurnAssumption
   DEF Init, Settled, TypeOK, OneTurn, WorkIsStored, Unsettled, Counted,
       Stages, Inside, Working, Attempts, Free

(* What the invariant says of the attempt that holds the lock: it is the   *)
(* only one inside, and its message is a message.                          *)
LEMMA OnlyInside ==
    ASSUME Settled, NEW a \in Attempts, stage[a] \in Inside
    PROVE  /\ turn = a
           /\ message[a] \in Messages
           /\ \A b \in Attempts : b # a => stage[b] \notin Inside
<1>1. turn = a
  BY DEF Settled, OneTurn
<1>2. \A b \in Attempts : b # a => stage[b] \notin Inside
  BY <1>1 DEF Settled, OneTurn
<1>3. message[a] \in Messages
  BY DEF Settled, TypeOK, Inside, Working
<1> QED BY <1>1, <1>2, <1>3

LEMMA ArriveKeeps ==
    ASSUME Settled, NEW a \in Attempts, NEW m \in Messages, Arrive(a, m)
    PROVE  Settled'
<1>1. TypeOK'
  BY ChatTurnAssumption DEF Settled, TypeOK, Arrive, database, history, Stages, Inside, Working
<1>2. OneTurn' /\ WorkIsStored' /\ Unsettled' /\ Counted'
  BY DEF Settled, TypeOK, OneTurn, WorkIsStored, Unsettled, Counted, Arrive,
         database, history, Inside, Working, Attempts, Free
<1> QED BY <1>1, <1>2 DEF Settled

LEMMA AcquireKeeps ==
    ASSUME Settled, NEW a \in Attempts, Acquire(a)
    PROVE  Settled'
<1>1. TypeOK'
  BY DEF Settled, TypeOK, Acquire, database, history, Stages, Inside, Working
<1>2. OneTurn'
  BY DEF Settled, TypeOK, OneTurn, Acquire, LockFree, Inside, Working, Attempts, Free
<1>3. WorkIsStored' /\ Unsettled' /\ Counted'
  BY DEF Settled, TypeOK, WorkIsStored, Unsettled, Counted, Acquire, database, history, Working
<1> QED BY <1>1, <1>2, <1>3 DEF Settled

(* A step of the attempt a inside that changes nothing but a's stage.      *)
LEMMA StageKeeps ==
    ASSUME Settled, NEW a \in Attempts, stage[a] \in Inside,
           \/ Leave(a)
           \/ /\ stage[a] \in Working
              /\ \E next \in {"report", "tools", "more", "followup"} : Go(a, next),
           UNCHANGED <<database, message, up, crashes, history>>
    PROVE  Settled'
<1>1. CASE Leave(a)
  <2>1. TypeOK'
    BY <1>1 DEF Settled, TypeOK, Leave, database, history, Stages, Inside, Working
  <2>2. OneTurn'
    BY <1>1, OnlyInside DEF Settled, TypeOK, OneTurn, Leave, Inside, Working, Attempts, Free
  <2>3. WorkIsStored' /\ Unsettled' /\ Counted'
    BY <1>1 DEF Settled, TypeOK, WorkIsStored, Unsettled, Counted, Leave, database, history, Working
  <2> QED BY <2>1, <2>2, <2>3 DEF Settled
<1>2. ASSUME stage[a] \in Working, NEW next \in {"report", "tools", "more", "followup"}, Go(a, next)
      PROVE  Settled'
  <2>1. TypeOK'
    BY <1>2 DEF Settled, TypeOK, Go, database, history, Stages, Inside, Working
  <2>2. OneTurn'
    BY <1>2, OnlyInside DEF Settled, TypeOK, OneTurn, Go, Inside, Working
  <2>3. WorkIsStored' /\ Unsettled' /\ Counted'
    BY <1>2 DEF Settled, TypeOK, WorkIsStored, Unsettled, Counted, Go, database, history, Working
  <2> QED BY <2>1, <2>2, <2>3 DEF Settled
<1> QED BY <1>1, <1>2

LEMMA StartKeeps ==
    ASSUME Settled, NEW a \in Attempts, Start(a)
    PROVE  Settled'
<1> DEFINE m == message[a]
<1>0. stage[a] \in Inside /\ stage[a] = "start" /\ m \in Messages
  BY OnlyInside DEF Start, Stored, Inside
<1>1. CASE ~exists \/ Cached(m)
  BY <1>0, <1>1, StageKeeps DEF Start, Stored, database, history
<1>2. CASE ~(~exists \/ Cached(m))
  <2>1. PICK next \in {"archive", "model"} :
            /\ Go(a, next)
            /\ users' = users \cup {m}
            /\ next = "archive" => m \notin users
    BY <1>2 DEF Start, Stored
  <2>2. UNCHANGED <<exists, archived, replied, answers, message, up, crashes, ran, asked, turn>>
    BY <2>1 DEF Start, Stored, history, Go
  <2>3. m \notin replied
    BY <1>2 DEF Cached, Settled, TypeOK
  <2>4. TypeOK'
    BY <1>0, <2>1, <2>2 DEF Settled, TypeOK, Go, Stages, Inside, Working
  <2>5. OneTurn'
    BY <1>0, <2>1, <2>2, OnlyInside DEF Settled, TypeOK, OneTurn, Go, Inside, Working
  <2>6. WorkIsStored'
    BY <1>0, <1>2, <2>1, <2>2, OnlyInside DEF Settled, TypeOK, WorkIsStored, Go, Inside
  <2>7. Unsettled'
    BY <1>0, <2>1, <2>2, <2>3, OnlyInside DEF Settled, TypeOK, Unsettled, Go, Inside, Working
  <2>8. Counted'
    BY <1>0, <2>1, <2>2 DEF Settled, TypeOK, Counted, Go
  <2> QED BY <2>4, <2>5, <2>6, <2>7, <2>8 DEF Settled
<1> QED BY <1>1, <1>2

LEMMA ArchiveKeeps ==
    ASSUME Settled, NEW a \in Attempts, NEW stored \in BOOLEAN, Archive(a, stored)
    PROVE  Settled'
<1> DEFINE m == message[a]
<1>0. /\ stage[a] \in Inside /\ stage[a] \in Working /\ stage[a] = "archive"
      /\ m \in Messages /\ m \in users /\ m \notin archived /\ m \notin replied
  BY OnlyInside DEF Archive, Inside, Working, Settled, WorkIsStored, Unsettled
<1>1. UNCHANGED <<exists, replied, answers, message, up, crashes, ran, asked>>
  BY DEF Archive, history
<1>2. CASE stored
  <2>1. archived' = archived \cup {m} /\ Go(a, "model") /\ users' = users /\ turn' = turn
    BY <1>2 DEF Archive, ArchivedAfter, Go
  <2>2. TypeOK'
    BY <1>0, <1>1, <2>1 DEF Settled, TypeOK, Go, Stages, Inside, Working
  <2>3. OneTurn'
    BY <1>0, <1>1, <2>1, OnlyInside DEF Settled, TypeOK, OneTurn, Go, Inside, Working
  <2>4. WorkIsStored' /\ Counted'
    BY <1>0, <1>1, <2>1 DEF Settled, TypeOK, WorkIsStored, Counted, Go, Working
  <2>5. Unsettled'
    BY <1>0, <1>1, <2>1, OnlyInside DEF Settled, TypeOK, Unsettled, Go, Inside, Working
  <2> QED BY <2>2, <2>3, <2>4, <2>5 DEF Settled
<1>3. CASE ~stored
  <2>1. archived' = archived /\ Leave(a) /\ users' = users \ {m}
    BY <1>3 DEF Archive, ArchivedAfter
  <2>2. TypeOK'
    BY <1>0, <1>1, <2>1 DEF Settled, TypeOK, Leave, Stages, Inside, Working
  <2>3. OneTurn'
    BY <1>0, <1>1, <2>1, OnlyInside DEF Settled, TypeOK, OneTurn, Leave, Inside, Working, Attempts, Free
  <2>4. WorkIsStored' /\ Unsettled'
    BY <1>0, <1>1, <2>1, OnlyInside DEF Settled, TypeOK, WorkIsStored, Unsettled, Leave, Inside, Working
  <2>5. Counted'
    BY <1>0, <1>1, <2>1 DEF Settled, TypeOK, Counted, Leave
  <2> QED BY <2>2, <2>3, <2>4, <2>5 DEF Settled
<1> QED BY <1>2, <1>3

LEMMA ToolKeeps ==
    ASSUME Settled, NEW a \in Attempts, NEW outcome \in {"next", "last", "password"},
           Tool(a, outcome)
    PROVE  Settled'
<1> DEFINE m == message[a]
<1>0. /\ stage[a] \in Inside /\ stage[a] \in Working /\ m \in Messages
      /\ m \in users /\ m \notin replied /\ exists
  BY OnlyInside DEF Tool, Inside, Working, Settled, WorkIsStored, Unsettled
<1>1. PICK next \in {"tools", "more", "followup", "unnamed", "report"} :
          /\ stage' = [stage EXCEPT ![a] = next]
          /\ turn' = turn
          /\ next = "unnamed" => m \in asked'
  BY DEF Tool, Go, Settled, TypeOK
<1>2. /\ UNCHANGED <<exists, users, archived, replied, answers, message, up, crashes>>
      /\ asked \subseteq asked' /\ asked' \subseteq Messages
  BY <1>0 DEF Tool, database, Settled, TypeOK
<1>3. ran' \in [Messages -> 0 .. MaxTools]
  BY <1>0, ChatTurnAssumption DEF Tool, Settled, TypeOK
<1>4. TypeOK'
  BY <1>0, <1>1, <1>2, <1>3 DEF Settled, TypeOK, Stages, Inside, Working
<1>5. OneTurn'
  BY <1>0, <1>1, OnlyInside DEF Settled, TypeOK, OneTurn, Inside, Working
<1>6. WorkIsStored' /\ Unsettled'
  BY <1>0, <1>1, <1>2 DEF Settled, TypeOK, WorkIsStored, Unsettled, Working
<1>7. Counted'
  BY <1>0, <1>1, <1>2 DEF Settled, TypeOK, Counted
<1> QED BY <1>4, <1>5, <1>6, <1>7 DEF Settled

LEMMA ReportKeeps ==
    ASSUME Settled, NEW a \in Attempts, Report(a)
    PROVE  Settled'
<1> DEFINE m == message[a]
<1>0. /\ stage[a] \in Inside /\ stage[a] \in Working /\ m \in Messages
      /\ m \in users /\ m \notin replied
  BY OnlyInside DEF Report, Inside, Working, Settled, WorkIsStored, Unsettled
<1>1. /\ UNCHANGED <<exists, users, archived, message, up, crashes, ran, asked>>
      /\ Leave(a)
      /\ answers' = [answers EXCEPT ![m] = @ + 1]
      /\ replied' = IF stage[a] = "report" THEN replied \cup {m} ELSE replied
  BY <1>0 DEF Report, NamedReply, history
<1>2. TypeOK'
  BY <1>0, <1>1 DEF Settled, TypeOK, Leave, Stages, Inside, Working
<1>3. OneTurn'
  BY <1>0, <1>1, OnlyInside DEF Settled, TypeOK, OneTurn, Leave, Inside, Working, Attempts, Free
<1>4. WorkIsStored' /\ Unsettled'
  BY <1>0, <1>1, OnlyInside DEF Settled, TypeOK, WorkIsStored, Unsettled, Leave, Inside, Working
<1>5. Counted'
  <2>1. \A b \in Attempts : stage'[b] = "unnamed" => message'[b] \in asked'
    BY <1>1 DEF Settled, TypeOK, Counted, Leave
  <2>2. ASSUME NEW k \in Messages \ asked
        PROVE  answers'[k] <= IF k \in replied' THEN 1 ELSE 0
    <3>1. CASE k = m
      <4>1. stage[a] = "report"
        BY <3>1, <2>2 DEF Report, Settled, Counted
      <4>2. answers[m] = 0
        BY <3>1, <2>2, <1>0 DEF Settled, TypeOK, Counted
      <4> QED BY <3>1, <4>1, <4>2, <1>0, <1>1 DEF Settled, TypeOK
    <3>2. CASE k # m
      BY <3>2, <2>2, <1>1 DEF Settled, TypeOK, Counted
    <3> QED BY <3>1, <3>2
  <2> QED BY <1>1, <2>1, <2>2 DEF Counted
<1> QED BY <1>2, <1>3, <1>4, <1>5 DEF Settled

LEMMA DeleteKeeps == ASSUME Settled, Delete PROVE Settled'
<1>1. TypeOK'
  BY DEF Settled, TypeOK, Delete, attempts, history
<1>2. \A a \in Attempts : stage[a] \notin Inside
  BY DEF Settled, OneTurn, Delete, Deletable, Attempts, Free
<1>3. OneTurn' /\ WorkIsStored' /\ Unsettled'
  BY <1>2 DEF Settled, OneTurn, WorkIsStored, Unsettled, Delete, attempts, Inside
<1>4. Counted'
  BY DEF Settled, Counted, Delete, attempts, history
<1> QED BY <1>1, <1>3, <1>4 DEF Settled

LEMMA CrashKeeps == ASSUME Settled, Crash PROVE Settled'
<1>1. TypeOK'
  <2>1. crashes' \in 0 .. MaxCrashes
    BY ChatTurnAssumption DEF Settled, TypeOK, Crash
  <2>2. /\ stage' \in [Attempts -> Stages]
        /\ \A a \in Attempts : message'[a] = NoMessage <=> stage'[a] = "idle"
    BY DEF Settled, TypeOK, Crash, Stages
  <2> QED BY <2>1, <2>2 DEF Settled, TypeOK, Crash, database, history
<1>2. OneTurn' /\ WorkIsStored' /\ Unsettled' /\ Counted'
  BY DEF Settled, OneTurn, WorkIsStored, Unsettled, Counted, Crash, database, history,
         Inside, Working, Attempts, Free
<1> QED BY <1>1, <1>2 DEF Settled

LEMMA StepKeeps == ASSUME Settled, [Next]_vars PROVE Settled'
<1>1. CASE \E a \in Attempts, m \in Messages : Arrive(a, m)
  BY <1>1, ArriveKeeps
<1>2. ASSUME NEW a \in Attempts, Turn(a)
      PROVE  Settled'
  <2>1. CASE Acquire(a)
    BY <2>1, AcquireKeeps
  <2>2. CASE Start(a)
    BY <2>2, StartKeeps
  <2>3. CASE Report(a)
    BY <2>3, ReportKeeps
  <2>4. CASE Direct(a) \/ Propose(a) \/ FollowUp(a)
    BY <2>4, StageKeeps DEF Direct, Propose, FollowUp, Inside, Working
  <2>5. CASE \E stored \in BOOLEAN : Archive(a, stored)
    BY <2>5, ArchiveKeeps
  <2>6. CASE \E outcome \in {"next", "last", "password"} : Tool(a, outcome)
    BY <2>6, ToolKeeps
  <2> QED BY <1>2, <2>1, <2>2, <2>3, <2>4, <2>5, <2>6 DEF Turn
<1>3. ASSUME NEW a \in Attempts, Raise(a)
      PROVE  Settled'
  BY <1>3, StageKeeps DEF Raise
<1>4. CASE Delete
  BY <1>4, DeleteKeeps
<1>5. CASE Crash
  BY <1>5, CrashKeeps
<1>6. CASE Restart
  BY <1>6 DEF Restart, Settled, TypeOK, OneTurn, WorkIsStored, Unsettled, Counted,
              database, attempts, history
<1>7. CASE UNCHANGED vars
  BY <1>7 DEF vars, Settled, TypeOK, OneTurn, WorkIsStored, Unsettled, Counted,
              database, attempts, history
<1> QED BY <1>1, <1>2, <1>3, <1>4, <1>5, <1>6, <1>7 DEF Next

(* The inductive invariant holds in every state.                           *)
THEOREM SettledInvariant == Spec => []Settled
<1>1. Settled /\ [Next]_vars => Settled'
  BY StepKeeps
<1> QED BY InitSettled, <1>1, PTL DEF Spec

(* Every variable keeps its type, and archived files and replies belong to *)
(* stored questions.                                                       *)
THEOREM TypeCorrect == Spec => []TypeOK
<1>1. Settled => TypeOK
  BY DEF Settled
<1> QED BY <1>1, SettledInvariant, PTL

(* At any time one turn at most is inside, and it holds the lock, over     *)
(* exceptions, crashes and deletions.                                      *)
THEOREM OneTurnHolds == Spec => []OneTurn
<1>1. Settled => OneTurn
  BY DEF Settled
<1> QED BY <1>1, SettledInvariant, PTL

(* The model is asked and tools run only for a stored question of an       *)
(* existing conversation.                                                  *)
THEOREM WorkIsStoredHolds == Spec => []WorkIsStored
<1>1. Settled => WorkIsStored
  BY DEF Settled
<1> QED BY <1>1, SettledInvariant, PTL

(* However often a message is sent, it has one answer at most, unless its  *)
(* tools asked for the password.                                           *)
THEOREM OneAnswerHolds == Spec => []OneAnswer
<1>1. Settled => OneAnswer
  BY DEF Settled, TypeOK, Counted, OneAnswer
<1> QED BY <1>1, SettledInvariant, PTL

(* One step towards RepliedIsSettled: a message with a reply is not worked *)
(* on, so that a step leaves its tools and its answers alone.              *)
LEMMA ReplyIsKept ==
    ASSUME Settled, [Next]_vars, NEW m \in replied, exists'
    PROVE  m \in replied' /\ ran'[m] = ran[m] /\ answers'[m] = answers[m]
<1>0. m \in Messages /\ \A a \in Attempts : stage[a] \in Working => message[a] # m
  BY DEF Settled, TypeOK, Unsettled
<1>1. CASE \E a \in Attempts, k \in Messages : Arrive(a, k)
  BY <1>1 DEF Arrive, database, history
<1>2. ASSUME NEW a \in Attempts, Turn(a)
      PROVE  m \in replied' /\ ran'[m] = ran[m] /\ answers'[m] = answers[m]
  <2>1. CASE Acquire(a)
    BY <2>1 DEF Acquire, database, history
  <2>2. CASE Start(a)
    BY <2>2 DEF Start, history
  <2>3. CASE Report(a)
    <3>1. message[a] # m
      BY <2>3, <1>0 DEF Report, Working
    <3> QED BY <3>1, <2>3, <1>0 DEF Report, NamedReply, history, Settled, TypeOK
  <2>4. CASE Direct(a) \/ Propose(a) \/ FollowUp(a)
    BY <2>4 DEF Direct, Propose, FollowUp, database, history
  <2>5. CASE \E stored \in BOOLEAN : Archive(a, stored)
    BY <2>5 DEF Archive, history
  <2>6. CASE \E outcome \in {"next", "last", "password"} : Tool(a, outcome)
    <3>1. message[a] # m
      BY <2>6, <1>0 DEF Tool, Working
    <3> QED BY <3>1, <2>6, <1>0 DEF Tool, database, Settled, TypeOK
  <2> QED BY <1>2, <2>1, <2>2, <2>3, <2>4, <2>5, <2>6 DEF Turn
<1>3. ASSUME NEW a \in Attempts, Raise(a)
      PROVE  m \in replied' /\ ran'[m] = ran[m] /\ answers'[m] = answers[m]
  BY <1>3 DEF Raise, database, history
<1>4. CASE Delete
  BY <1>4 DEF Delete
<1>5. CASE Crash \/ Restart
  BY <1>5 DEF Crash, Restart, database, history
<1>6. CASE UNCHANGED vars
  BY <1>6 DEF vars, database, history
<1> QED BY <1>1, <1>2, <1>3, <1>4, <1>5, <1>6 DEF Next

(* Once a question has its reply, no tool runs for it again and no second  *)
(* answer appears until the conversation is deleted.                       *)
THEOREM RepliedIsSettledHolds == Spec => RepliedIsSettled
<1> DEFINE Lasts == \A m \in replied : exists' => /\ m \in replied'
                                                  /\ ran'[m] = ran[m]
                                                  /\ answers'[m] = answers[m]
<1>1. Settled /\ [Next]_vars => [Lasts]_vars
  BY ReplyIsKept
<1> QED BY <1>1, SettledInvariant, PTL DEF Spec, RepliedIsSettled

-----------------------------------------------------------------------------
(* The screen of the phone: MobileChat.                                    *)

(* A list of messages shows each once, and those of one conversation.      *)
Distinct(v) == \A i, j \in DOMAIN v : v[i] = v[j] => i = j
Of(v, c) == \A i \in DOMAIN v : v[i][1] = c

LEMMA LeastOf ==
    ASSUME NEW S \in SUBSET Nat, S # {}
    PROVE  \E n \in S : \A m \in S : n <= m
<1> DEFINE R == {p \in Nat \X Nat : p[1] < p[2]}
<1>1. IsWellFoundedOn(R, Nat)
  BY NatLessThanWellFounded DEF OpToRel
<1>2. PICK n \in S : \A m \in S : ~(<<m, n>> \in R)
  BY <1>1, WFMin, Zenon
<1>3. ASSUME NEW m \in S PROVE n <= m
  <2>1. m \in Nat /\ n \in Nat /\ <<m, n>> \in Nat \X Nat
    OBVIOUS
  <2>2. ~(m < n)
    <3> SUFFICES ASSUME m < n PROVE <<m, n>> \in R
      BY <1>2
    <3> QED BY <2>1
  <2> QED BY <2>1, <2>2
<1> QED BY <1>3

(* mergeMessages drops the messages that are there: what the loop has kept *)
(* of the first n messages.                                                *)
Loop(v, u, g, i) ==
    IF i = 0 THEN <<>>
    ELSE IF \E j \in DOMAIN u : u[j] = v[i] THEN g[i - 1]
    ELSE Append(g[i - 1], v[i])

LEMMA LoopIs ==
    ASSUME NEW v, NEW u, NEW m \in Nat
    PROVE  \E g : g = [i \in 0 .. m |-> Loop(v, u, g, i)]
<1> DEFINE Table(n) == \E g : g = [i \in 0 .. n |-> Loop(v, u, g, i)]
           Bad == {n \in Nat : ~Table(n)}
<1>1. Bad = {}
  <2> SUFFICES ASSUME Bad # {} PROVE FALSE
    OBVIOUS
  <2>1. PICK n \in Bad : \A k \in Bad : n <= k
    BY LeastOf
  <2>2. n # 0
    <3> DEFINE g == [i \in 0 .. 0 |-> <<>>]
    <3>1. g = [i \in 0 .. 0 |-> Loop(v, u, g, i)]
      BY DEF Loop
    <3> QED BY <3>1
  <2>3. n \in Nat /\ n - 1 \in Nat /\ Table(n - 1)
    <3> HIDE DEF Table
    <3> QED BY <2>1, <2>2
  <2>4. PICK g : g = [i \in 0 .. n - 1 |-> Loop(v, u, g, i)]
    BY <2>3
  <2> DEFINE h == [i \in 0 .. n |-> Loop(v, u, g, i)]
  <2>5. \A i \in 0 .. n - 1 : h[i] = g[i]
    <3> SUFFICES ASSUME NEW i \in 0 .. n - 1 PROVE h[i] = g[i]
      OBVIOUS
    <3>1. g[i] = Loop(v, u, g, i)
      BY <2>4
    <3>2. i \in 0 .. n
      BY <2>3
    <3> QED BY <3>1, <3>2
  <2>6. h = [i \in 0 .. n |-> Loop(v, u, h, i)]
    <3> HIDE DEF h
    <3>1. \A i \in 0 .. n : i # 0 => h[i - 1] = g[i - 1]
      <4> SUFFICES ASSUME NEW i \in 0 .. n, i # 0 PROVE h[i - 1] = g[i - 1]
        OBVIOUS
      <4>1. n \in Nat
        BY <2>3
      <4>2. i - 1 \in 0 .. n - 1
        BY <4>1
      <4> QED BY <4>2, <2>5
    <3>2. \A i \in 0 .. n : Loop(v, u, g, i) = Loop(v, u, h, i)
      BY <3>1 DEF Loop
    <3>3. h = [i \in 0 .. n |-> Loop(v, u, g, i)]
      BY DEF h
    <3> QED BY <3>2, <3>3
  <2> HIDE DEF h
  <2>7. Table(n)
    BY <2>6
  <2> QED BY <2>1, <2>7
<1> QED BY <1>1

LEMMA OthersAre ==
    ASSUME NEW T, NEW v \in Seq(T), NEW u
    PROVE  /\ Others(v, u) \in Seq(T)
           /\ \A j \in DOMAIN Others(v, u) :
                 /\ \E i \in DOMAIN v : v[i] = Others(v, u)[j]
                 /\ \A i \in DOMAIN u : u[i] # Others(v, u)[j]
           /\ Distinct(v) => Distinct(Others(v, u))
<1> DEFINE n == Len(v)
           f == CHOOSE g : g = [i \in 0 .. n |-> Loop(v, u, g, i)]
           Rest(s, i) == /\ s \in Seq(T)
                         /\ \A j \in DOMAIN s : /\ \E k \in 1 .. i : v[k] = s[j]
                                                /\ \A k \in DOMAIN u : u[k] # s[j]
                         /\ Distinct(v) => Distinct(s)
<1>1. n \in Nat /\ DOMAIN v = 1 .. n /\ \A i \in 1 .. n : v[i] \in T
  OBVIOUS
<1>2. Others(v, u) = f[n]
  BY DEF Others, Loop
<1> HIDE DEF n
<1>3. f = [i \in 0 .. n |-> Loop(v, u, f, i)]
  BY <1>1, LoopIs
<1> HIDE DEF f
<1>4. \A i \in 0 .. n : f[i] = Loop(v, u, f, i)
  BY <1>3
<1>5. Rest(<<>>, 0)
  BY DEF Distinct
<1>6. ASSUME NEW i \in 1 .. n, NEW s, Rest(s, i - 1), \A j \in DOMAIN u : u[j] # v[i]
      PROVE  Rest(Append(s, v[i]), i)
  <2> DEFINE a == Append(s, v[i])
  <2>1. /\ s \in Seq(T) /\ v[i] \in T /\ i \in Nat /\ Len(s) \in Nat
        /\ \A k \in 1 .. i - 1 : k \in 1 .. i /\ k # i
    BY <1>1, <1>6
  <2>2. /\ a \in Seq(T) /\ DOMAIN a = 1 .. Len(s) + 1 /\ a[Len(s) + 1] = v[i]
        /\ DOMAIN s = 1 .. Len(s) /\ \A j \in 1 .. Len(s) : a[j] = s[j]
    BY <2>1
  <2>3. ASSUME NEW j \in 1 .. Len(s) + 1 PROVE j \in 1 .. Len(s) \/ j = Len(s) + 1
    BY <2>1
  <2> HIDE DEF a
  <2>4. \A j \in 1 .. Len(s) : /\ \E k \in 1 .. i - 1 : v[k] = s[j]
                               /\ \A k \in DOMAIN u : u[k] # s[j]
    BY <1>6, <2>2
  <2>5. \A j \in DOMAIN a : /\ \E k \in 1 .. i : v[k] = a[j]
                            /\ \A k \in DOMAIN u : u[k] # a[j]
    <3> SUFFICES ASSUME NEW j \in DOMAIN a
                 PROVE  (\E k \in 1 .. i : v[k] = a[j]) /\ \A k \in DOMAIN u : u[k] # a[j]
      OBVIOUS
    <3>1. CASE j \in 1 .. Len(s)
      BY <2>1, <2>2, <2>4, <3>1
    <3>2. CASE j = Len(s) + 1
      <4>1. i \in 1 .. i
        BY <2>1
      <4> QED BY <1>6, <2>2, <3>2, <4>1
    <3> QED BY <2>2, <2>3, <3>1, <3>2
  <2>6. ASSUME Distinct(v), NEW j \in DOMAIN a, NEW k \in DOMAIN a, a[j] = a[k] PROVE j = k
    <3>1. \A q \in 1 .. Len(s) : s[q] # v[i]
      <4> SUFFICES ASSUME NEW q \in 1 .. Len(s), s[q] = v[i] PROVE FALSE
        OBVIOUS
      <4>1. PICK p \in 1 .. i - 1 : v[p] = s[q]
        BY <2>4
      <4>2. p \in 1 .. n /\ p # i
        BY <1>1, <2>1
      <4> QED BY <1>1, <2>6, <4>1, <4>2 DEF Distinct
    <3>2. \A q, r \in 1 .. Len(s) : s[q] = s[r] => q = r
      BY <1>6, <2>2, <2>6 DEF Distinct
    <3> QED BY <2>2, <2>3, <2>6, <3>1, <3>2
  <2>7. Distinct(v) => Distinct(a)
    BY <2>6 DEF Distinct
  <2> QED BY <2>2, <2>5, <2>7 DEF a
<1>7. ASSUME NEW i \in 1 .. n, NEW s, Rest(s, i - 1) PROVE Rest(s, i)
  <2>1. \A k \in 1 .. i - 1 : k \in 1 .. i
    OBVIOUS
  <2> QED BY <1>7, <2>1
<1>8. ASSUME NEW i \in 1 .. n, Rest(f[i - 1], i - 1) PROVE Rest(f[i], i)
  <2>1. i \in 0 .. n /\ i # 0
    BY <1>1
  <2>2. f[i] = IF \E j \in DOMAIN u : u[j] = v[i] THEN f[i - 1] ELSE Append(f[i - 1], v[i])
    BY <1>4, <2>1 DEF Loop
  <2> HIDE DEF Rest
  <2> QED BY <1>6, <1>7, <1>8, <2>2
<1> HIDE DEF Rest
<1> DEFINE Bad == {i \in 0 .. n : ~Rest(f[i], i)}
<1>9. Bad = {}
  <2> SUFFICES ASSUME Bad # {} PROVE FALSE
    OBVIOUS
  <2>1. Bad \in SUBSET Nat
    BY <1>1
  <2> HIDE DEF Bad
  <2>2. PICK i \in Bad : \A k \in Bad : i <= k
    BY <2>1, LeastOf
  <2>3. i \in 0 .. n /\ ~Rest(f[i], i)
    BY <2>2 DEF Bad
  <2>4. i # 0
    <3>1. 0 \in 0 .. n
      BY <1>1
    <3>2. f[0] = <<>>
      BY <1>4, <3>1 DEF Loop
    <3> QED BY <1>5, <2>3, <3>2
  <2>5. i \in 1 .. n /\ i - 1 \in 0 .. n /\ ~(i <= i - 1)
    BY <1>1, <2>3, <2>4
  <2>6. Rest(f[i - 1], i - 1)
    BY <2>2, <2>5 DEF Bad
  <2> QED BY <1>8, <2>3, <2>5, <2>6
<1>10. Rest(f[n], n)
  <2>1. n \in 0 .. n
    BY <1>1
  <2> QED BY <1>9, <2>1
<1> QED BY <1>1, <1>2, <1>10 DEF Rest

LEMMA AppendedIs ==
    ASSUME NEW T, NEW v \in Seq(T), NEW w \in Seq(T), Distinct(v), Distinct(w),
           NEW c, Of(v, c), Of(w, c)
    PROVE  Appended(v, w) \in Seq(T) /\ Distinct(Appended(v, w)) /\ Of(Appended(v, w), c)
<1> DEFINE o == Others(w, v)
           a == v \o o
           n == Len(v)
<1>1. /\ o \in Seq(T) /\ Distinct(o)
      /\ \A j \in DOMAIN o : /\ \E i \in DOMAIN w : w[i] = o[j]
                             /\ \A i \in DOMAIN v : v[i] # o[j]
  BY OthersAre
<1> HIDE DEF o
<1>2. \A j \in DOMAIN o : o[j][1] = c
  BY <1>1 DEF Of
<1>3. a \in Seq(T)
  BY <1>1
<1>4. /\ n \in Nat /\ Len(o) \in Nat /\ DOMAIN v = 1 .. n /\ DOMAIN o = 1 .. Len(o)
      /\ DOMAIN a = 1 .. n + Len(o)
  BY <1>1
<1>5. /\ \A i \in 1 .. n : a[i] = v[i]
      /\ \A i \in 1 .. n + Len(o) : i \notin 1 .. n => i - n \in 1 .. Len(o) /\ a[i] = o[i - n]
  BY <1>1, <1>4
<1> HIDE DEF a, n
<1>6. Distinct(a)
  <2> SUFFICES ASSUME NEW i \in DOMAIN a, NEW j \in DOMAIN a, a[i] = a[j] PROVE i = j
    BY DEF Distinct
  <2>1. CASE i \in 1 .. n /\ j \in 1 .. n
    BY <1>4, <1>5, <2>1 DEF Distinct
  <2>2. CASE i \notin 1 .. n /\ j \notin 1 .. n
    <3>1. \A p, q \in DOMAIN o : o[p] = o[q] => p = q
      BY <1>1 DEF Distinct
    <3>2. /\ i - n \in DOMAIN o /\ a[i] = o[i - n]
          /\ j - n \in DOMAIN o /\ a[j] = o[j - n]
      BY <1>4, <1>5, <2>2
    <3>3. i - n = j - n
      BY <3>1, <3>2
    <3> QED BY <1>4, <3>3
  <2>3. CASE i \in 1 .. n /\ j \notin 1 .. n
    BY <1>1, <1>4, <1>5, <2>3
  <2>4. CASE i \notin 1 .. n /\ j \in 1 .. n
    BY <1>1, <1>4, <1>5, <2>4
  <2> QED BY <2>1, <2>2, <2>3, <2>4
<1>7. Of(a, c)
  <2> SUFFICES ASSUME NEW i \in DOMAIN a PROVE a[i][1] = c
    BY DEF Of
  <2>1. CASE i \in 1 .. n
    BY <1>4, <1>5, <2>1 DEF Of
  <2>2. CASE i \notin 1 .. n
    <3>1. i - n \in DOMAIN o /\ a[i] = o[i - n]
      BY <1>4, <1>5, <2>2
    <3> QED BY <1>2, <3>1
  <2> QED BY <2>1, <2>2
<1> QED BY <1>3, <1>6, <1>7 DEF Appended, a, o

LEMMA PrependedIs ==
    ASSUME NEW T, NEW v \in Seq(T), NEW w \in Seq(T), Distinct(v), Distinct(w),
           NEW c, Of(v, c), Of(w, c)
    PROVE  Prepended(v, w) \in Seq(T) /\ Distinct(Prepended(v, w)) /\ Of(Prepended(v, w), c)
<1>1. Prepended(v, w) = Appended(w, v)
  BY DEF Prepended, Appended
<1> QED BY <1>1, AppendedIs

LEMMA PageIs ==
    ASSUME NEW c \in Chats, NEW n \in Nat
    PROVE  /\ PageOf(c, n) \in Seq(Chats \X Nat) /\ Distinct(PageOf(c, n)) /\ Of(PageOf(c, n), c)
           /\ First(n) \in Nat
<1> DEFINE m == First(n)
           p == [i \in 1 .. n - m |-> <<c, m + i>>]
<1>1. m \in Nat /\ n - m \in Nat
  BY PhoneAssumption DEF First
<1> HIDE DEF m
<1>2. \A i \in 1 .. n - m : m + i \in Nat
  BY <1>1
<1>3. p \in Seq(Chats \X Nat)
  BY <1>1, <1>2
<1>4. Distinct(p)
  BY <1>1 DEF Distinct
<1>5. Of(p, c)
  BY DEF Of
<1> QED BY <1>1, <1>3, <1>4, <1>5 DEF PageOf, m

-----------------------------------------------------------------------------
(* The phone's requests. What is on the screen belongs to the chat that is *)
(* open; what is kept of a message that was sent is of its chat.           *)
Shown(p) ==
    /\ p \in Screen
    /\ Distinct(p.view) /\ Of(p.view, p.selected)
    /\ \A e \in p.local : chatOf[e.k] = p.selected /\ p.selected # None

(* The call of send(), the request it made and the job of its message.     *)
Sending ==
    /\ send.step # "none" => /\ send.k \in Sends /\ send.chat \in Chats
                             /\ chatOf[send.k] = send.chat
                             /\ \A e \in phone.local : e.k = send.k => e.delivery = "sending"
    /\ send.step = "upload" => jobs[send.k] = "none"
    /\ send.step \in {"upload", "wait"} => \A r \in Kind("post") : r.k # send.k
    /\ \A k \in Sends : chatOf[k] = None => jobs[k] = "none"
    /\ \A k \in Sends : jobs[k] \in {"stored", "done"} =>
          chatOf[k] \in Chats /\ \E i \in DOMAIN log[chatOf[k]] : log[chatOf[k]][i] = k

(* A request to start a job is the only one of its message; it is served   *)
(* once, and its answer is waited for by the call that made it.            *)
Posting ==
    /\ \A r \in Kind("post") :
          /\ chatOf[r.k] = r.chat
          /\ r.heard => send.step = "post" /\ send.k = r.k
          /\ r.step # "asked" => r.heard
          /\ r.step = "asked" => jobs[r.k] = "none"
          /\ r.step = "refused" => jobs[r.k] = "refused"
    /\ \A r, q \in Kind("post") : r.k = q.k => r = q

Synced == PhoneTypeOK /\ Shown(phone) /\ Sending /\ Posting /\ ReturnedIsOver

LEMMA NoChatApart == None \notin Chats /\ None \notin Nat
BY PhoneAssumption

(* The kind of a request tells its fields.                                 *)
LEMMA RequestIs ==
    ASSUME NEW r \in Requests
    PROVE  /\ r.kind = "load" => r \in Loads
           /\ r.kind = "older" => r \in Olders
           /\ r.kind = "list" => r \in Lists
           /\ r.kind = "poll" => r \in Polls
           /\ r.kind = "create" => r \in Creates
           /\ r.kind = "delete" => r \in Deletes
           /\ r.kind = "post" => r \in Posts
           /\ r.kind \in {"load", "older", "list", "poll", "create", "delete", "post"}
BY DEF Requests, Loads, Olders, Lists, Polls, Creates, Deletes, Posts

LEMMA LoadTypes ==
    ASSUME PhoneTypeOK, NEW others, \A r \in others : r \in Requests,
           NEW c \in Chats, NEW quiet \in BOOLEAN
    PROVE  /\ \A r \in Load(c, quiet, others) : r \in Requests
           /\ \A r : r \in Load(c, quiet, others) /\ r.kind # "load"
                     <=> r \in others /\ r.kind # "load"
<1> DEFINE new == [kind |-> "load", chat |-> c, quiet |-> quiet, current |-> TRUE,
                   found |-> c \in Kept, n |-> IF c \in Kept THEN Len(log[c]) ELSE 0]
           old(r) == IF r.kind = "load" /\ ~quiet /\ ~r.quiet
                     THEN [r EXCEPT !.current = FALSE] ELSE r
<1>1. Load(c, quiet, others) = {old(r) : r \in others} \cup {new}
  BY DEF Load
<1>2. new \in Loads /\ new.kind = "load"
  <2>1. (c \in Kept) \in BOOLEAN /\ (IF c \in Kept THEN Len(log[c]) ELSE 0) \in Nat
    BY DEF PhoneTypeOK
  <2> QED BY <2>1 DEF Loads
<1>3. ASSUME NEW r \in others
      PROVE  /\ old(r) \in Requests /\ old(r).kind = r.kind
             /\ r.kind # "load" => old(r) = r
  <2>1. CASE r.kind # "load"
    BY <2>1
  <2>2. CASE r.kind = "load"
    <3>1. r \in Loads
      BY <2>2, RequestIs
    <3>2. [r EXCEPT !.current = FALSE] \in Loads
      BY <3>1 DEF Loads
    <3> QED BY <2>2, <3>1, <3>2 DEF Loads, Requests
  <2> QED BY <2>1, <2>2
<1> HIDE DEF new, old
<1> QED BY <1>1, <1>2, <1>3 DEF Requests

LEMMA ListTypes ==
    ASSUME PhoneTypeOK, NEW others, \A r \in others : r \in Requests,
           NEW default \in BOOLEAN, NEW keep \in BOOLEAN
    PROVE  /\ \A r \in List(default, keep, others) : r \in Requests
           /\ \A r : r \in List(default, keep, others) /\ r.kind # "list"
                     <=> r \in others /\ r.kind # "list"
<1> DEFINE new == [kind |-> "list", default |-> default, keep |-> keep, current |-> TRUE,
                   chats |-> Kept]
           old(r) == IF r.kind = "list" THEN [r EXCEPT !.current = FALSE] ELSE r
<1>1. List(default, keep, others) = {old(r) : r \in others} \cup {new}
  BY DEF List
<1>2. new \in Lists /\ new.kind = "list"
  BY DEF Lists, Kept
<1>3. ASSUME NEW r \in others
      PROVE  /\ old(r) \in Requests /\ old(r).kind = r.kind
             /\ r.kind # "list" => old(r) = r
  <2>1. CASE r.kind # "list"
    BY <2>1
  <2>2. CASE r.kind = "list"
    <3>1. r \in Lists
      BY <2>2, RequestIs
    <3>2. [r EXCEPT !.current = FALSE] \in Lists
      BY <3>1 DEF Lists
    <3> QED BY <2>2, <3>1, <3>2 DEF Lists, Requests
  <2> QED BY <2>1, <2>2
<1> HIDE DEF new, old
<1> QED BY <1>1, <1>2, <1>3 DEF Requests

LEMMA PollTypes ==
    ASSUME NEW c \in Chats, NEW r \in Poll(c)
    PROVE  r \in Polls /\ r.kind = "poll"
BY DEF Poll, Polls, ActiveIn

(* Posts are not touched by what leaves them alone.                        *)
LEMMA PostingStays ==
    ASSUME Posting, UNCHANGED <<jobs, chatOf, send>>,
           \A r : r \in Kind("post")' => r \in Kind("post")
    PROVE  Posting'
BY DEF Posting

(* What a step does that changes neither the jobs nor the call of send().  *)
LEMMA ScreenStep ==
    ASSUME Synced, UNCHANGED <<log, jobs, chatOf, send>>,
           \A r \in net' : r.kind = "post" => r \in net,
           phone'.local \subseteq phone.local
    PROVE  Sending' /\ Posting' /\ ReturnedIsOver'
<1>1. \A r \in Kind("post")' : r \in Kind("post")
  BY DEF Kind
<1>2. Posting'
  BY <1>1 DEF Synced, Posting
<1>3. Sending'
  BY <1>1 DEF Synced, Sending
<1>4. ReturnedIsOver'
  BY <1>1 DEF Synced, ReturnedIsOver
<1> QED BY <1>2, <1>3, <1>4

(* An empty screen shows nothing of any chat.                              *)
LEMMA EmptyShown ==
    ASSUME NEW p \in Screen, p.view = <<>>, p.local = {}
    PROVE  Shown(p)
BY DEF Shown, Distinct, Of

LocalEntries == SUBSET Entries

LEMMA EmptiedIs ==
    ASSUME NEW p \in Screen
    PROVE  /\ Emptied(p) \in Screen /\ Emptied(p).view = <<>> /\ Emptied(p).local = {}
           /\ LET n == [Emptied(p) EXCEPT !.selected = None]
              IN  n \in Screen /\ Shown(n) /\ n.local = {}
           /\ LET n == [Emptied(p) EXCEPT !.selected = None, !.files = None]
              IN  n \in Screen /\ Shown(n) /\ n.local = {}
<1> DEFINE v == <<>>
           l == {}
           e == [p EXCEPT !.view = v, !.local = l]
           m == [e EXCEPT !.selected = None]
           n == [e EXCEPT !.selected = None, !.files = None]
<1>1. v \in Seq(Chats \X Nat) /\ l \in LocalEntries
  BY DEF LocalEntries
<1>2. Emptied(p) = e
  BY DEF Emptied
<1> HIDE DEF v, l
<1>3. e \in Screen /\ e.view = v /\ e.local = l
  BY <1>1 DEF Screen, LocalEntries
<1> HIDE DEF e
<1>4. m \in Screen /\ m.view = v /\ m.local = l
  BY <1>3 DEF Screen
<1>5. n \in Screen /\ n.view = v /\ n.local = l
  BY <1>3 DEF Screen
<1>6. m = [Emptied(p) EXCEPT !.selected = None]
  BY <1>2
<1>7. n = [Emptied(p) EXCEPT !.selected = None, !.files = None]
  BY <1>2
<1> HIDE DEF m, n
<1>8. Shown(m) /\ Shown(n)
  BY <1>4, <1>5, EmptyShown DEF v, l
<1> QED BY <1>2, <1>3, <1>4, <1>5, <1>6, <1>7, <1>8 DEF v, l

LEMMA ChosenIs ==
    ASSUME NEW p \in Screen, NEW c \in Chats
    PROVE  /\ Opened(p, c) \in Screen /\ Opened(p, c).view = <<>> /\ Opened(p, c).local = {}
           /\ Opened(p, c).selected = c
           /\ Chosen(p, c) \in Screen /\ Chosen(p, c).view = <<>> /\ Chosen(p, c).local = {}
           /\ Chosen(p, c).selected = c /\ Chosen(p, c).draft = None
<1> DEFINE e == Emptied(p)
           o == [e EXCEPT !.selected = c, !.older = 0]
           s == [o EXCEPT !.draft = None, !.files = None]
<1>1. e \in Screen /\ e.view = <<>> /\ e.local = {}
  BY EmptiedIs
<1>2. Opened(p, c) = o
  BY DEF Opened
<1>3. Chosen(p, c) = s
  BY <1>2 DEF Chosen
<1> HIDE DEF e
<1>4. o \in Screen /\ o.view = <<>> /\ o.local = {} /\ o.selected = c
  BY <1>1 DEF Screen
<1> HIDE DEF o
<1>5. s \in Screen /\ s.view = <<>> /\ s.local = {} /\ s.selected = c /\ s.draft = None
  BY <1>4 DEF Screen
<1> HIDE DEF s
<1> QED BY <1>2, <1>3, <1>4, <1>5

LEMMA BlankShown == Blank \in Screen /\ Shown(Blank) /\ Blank.local = {} /\ Blank.draft = None
<1>1. Blank \in Screen
  BY DEF Blank, Screen
<1> QED BY <1>1, EmptyShown DEF Blank

(* What the fields outside the view and the local entries hold is free.    *)
LEMMA ShownStays ==
    ASSUME Shown(phone), NEW p \in Screen, p.view = phone.view, p.local \subseteq phone.local,
           p.selected = phone.selected
    PROVE  Shown(p)
BY DEF Shown

LEMMA Bounds == PhoneTypeOK => /\ (Move \/ UNCHANGED moves) => moves' \in 0 .. MaxMoves
                               /\ (Fault \/ UNCHANGED faults) => faults' \in 0 .. MaxFaults
BY PhoneAssumption DEF PhoneTypeOK, Move, Fault

NetTyped == \A r \in net' : r \in Requests

(* The rest of the type invariant, for the steps of the screen.            *)
LEMMA ScreenTypes ==
    ASSUME Synced, UNCHANGED <<pc, send>>, NetTyped, phone' \in Screen, Shown(phone'),
           Move \/ UNCHANGED moves, Fault \/ UNCHANGED faults,
           \A r \in net' : r.kind = "post" => r \in net,
           phone'.local \subseteq phone.local
    PROVE  Synced'
<1>1. UNCHANGED <<conv, log, jobs, chatOf, send>>
  BY DEF pc
<1>2. Sending' /\ Posting' /\ ReturnedIsOver'
  BY <1>1, ScreenStep
<1>3. PhoneTypeOK'
  BY <1>1, Bounds DEF Synced, PhoneTypeOK, NetTyped
<1>4. Shown(phone)'
  BY <1>1 DEF Shown
<1> QED BY <1>2, <1>3, <1>4 DEF Synced

LEMMA TypeKeeps == Synced /\ Type => Synced'
<1> SUFFICES ASSUME Synced, Type PROVE Synced'
  OBVIOUS
<1>1. PICK files \in {phone.files, phone.selected} :
         phone' = [phone EXCEPT !.draft = phone.selected, !.files = files]
  BY DEF Type
<1>2. phone \in Screen /\ Shown(phone) /\ PhoneTypeOK
  BY DEF Synced, PhoneTypeOK
<1>3. /\ phone' \in Screen /\ phone'.view = phone.view /\ phone'.local = phone.local
      /\ phone'.selected = phone.selected
  BY <1>1, <1>2 DEF Screen
<1>4. Shown(phone')
  BY <1>2, <1>3, ShownStays
<1> QED BY <1>2, <1>3, <1>4, ScreenTypes DEF Type, NetTyped, PhoneTypeOK

LEMMA SyncedIs == Synced => /\ phone \in Screen /\ Shown(phone) /\ PhoneTypeOK
                            /\ \A r \in net : r \in Requests
BY DEF Synced, PhoneTypeOK

LEMMA ChooseKeeps == ASSUME Synced, NEW c \in Chats, Choose(c) PROVE Synced'
<1>1. phone' \in Screen /\ Shown(phone') /\ phone'.local = {}
  BY SyncedIs, ChosenIs, EmptyShown DEF Choose
<1>2. NetTyped /\ \A r \in net' : r.kind = "post" => r \in net
  BY SyncedIs, LoadTypes DEF Choose, NetTyped
<1> QED BY <1>1, <1>2, ScreenTypes DEF Choose

LEMMA CreateKeeps == Synced /\ Create => Synced'
<1> SUFFICES ASSUME Synced, Create PROVE Synced'
  OBVIOUS
<1> DEFINE new == [kind |-> "create", step |-> "asked", chat |-> None, heard |-> TRUE]
<1>1. new \in Requests /\ new.kind = "create"
  BY DEF Requests, Creates
<1>2. net' = net \cup {new} /\ phone' = phone
  BY DEF Create
<1> HIDE DEF new
<1>3. NetTyped /\ \A r \in net' : r.kind = "post" => r \in net
  BY <1>1, <1>2, SyncedIs DEF NetTyped
<1> QED BY <1>2, <1>3, SyncedIs, ScreenTypes DEF Create

LEMMA AskDeleteKeeps == ASSUME Synced, NEW c \in Chats, AskDelete(c) PROVE Synced'
<1> DEFINE new == [kind |-> "delete", step |-> "asked", chat |-> c, other |-> None,
                   was |-> phone.listed, heard |-> TRUE]
<1>1. new \in Requests /\ new.kind = "delete"
  BY SyncedIs DEF Requests, Deletes, Screen
<1>2. net' = net \cup {new} /\ phone' = phone
  BY DEF AskDelete
<1> HIDE DEF new
<1>3. NetTyped /\ \A r \in net' : r.kind = "post" => r \in net
  BY <1>1, <1>2, SyncedIs DEF NetTyped
<1> QED BY <1>2, <1>3, SyncedIs, ScreenTypes DEF AskDelete

LEMMA LoadOlderKeeps == Synced /\ LoadOlder => Synced'
<1> SUFFICES ASSUME Synced, LoadOlder PROVE Synced'
  OBVIOUS
<1> DEFINE new == [kind |-> "older", chat |-> phone.selected, before |-> phone.older]
<1>1. new \in Requests /\ new.kind = "older"
  BY SyncedIs DEF Requests, Olders, Screen, LoadOlder, Kept
<1>2. net' = net \cup {new} /\ phone' = phone
  BY DEF LoadOlder
<1> HIDE DEF new
<1>3. NetTyped /\ \A r \in net' : r.kind = "post" => r \in net
  BY <1>1, <1>2, SyncedIs DEF NetTyped
<1> QED BY <1>2, <1>3, SyncedIs, ScreenTypes DEF LoadOlder

LEMMA SyncKeeps == Synced /\ Sync => Synced'
<1> SUFFICES ASSUME Synced, Sync PROVE Synced'
  OBVIOUS
<1> DEFINE c == phone.selected
           more == IF c = None \/ Busy THEN net ELSE Load(c, TRUE, net) \cup Poll(c)
<1>1. net' = List(c = None, TRUE, more) /\ phone' = phone
  BY DEF Sync
<1>2. (c = None) \in BOOLEAN /\ (c # None => c \in Chats)
  BY SyncedIs DEF Screen
<1> HIDE DEF c
<1>3. \A r \in more : r \in Requests /\ (r.kind = "post" => r \in net)
  <2>1. CASE c = None \/ Busy
    BY <2>1, SyncedIs
  <2>2. CASE ~(c = None \/ Busy)
    <3>1. more = Load(c, TRUE, net) \cup Poll(c)
      BY <2>2
    <3>2. \A r \in Poll(c) : r \in Requests /\ r.kind # "post"
      <4> SUFFICES ASSUME NEW r \in Poll(c) PROVE r \in Requests /\ r.kind # "post"
        OBVIOUS
      <4>1. r \in Polls /\ r.kind = "poll"
        BY <1>2, <2>2, PollTypes
      <4> QED BY <4>1 DEF Requests
    <3> HIDE DEF more
    <3> QED BY <1>2, <2>2, <3>1, <3>2, SyncedIs, LoadTypes
  <2> QED BY <2>1, <2>2
<1> HIDE DEF more
<1>4. NetTyped /\ \A r \in net' : r.kind = "post" => r \in net
  BY <1>1, <1>2, <1>3, SyncedIs, ListTypes DEF NetTyped
<1> QED BY <1>1, <1>4, SyncedIs, ScreenTypes DEF Sync

(* The answers. Those that read leave the rest as it is.                   *)
LEMMA RemovedNet ==
    ASSUME Synced, NEW r, net' = net \ {r}
    PROVE  NetTyped /\ \A q \in net' : q.kind = "post" => q \in net
BY SyncedIs DEF NetTyped

LEMMA RemovedLoad ==
    ASSUME Synced, NEW r, NEW c \in Chats, net' = Load(c, FALSE, net \ {r})
    PROVE  NetTyped /\ \A q \in net' : q.kind = "post" => q \in net
<1> DEFINE others == net \ {r}
<1>1. \A q \in others : q \in Requests /\ q \in net
  BY SyncedIs
<1> HIDE DEF others
<1>2. net' = Load(c, FALSE, others)
  BY DEF others
<1> QED BY <1>1, <1>2, SyncedIs, LoadTypes DEF NetTyped

LEMMA LoadedKeeps ==
    ASSUME Synced, NEW r \in net, Loaded(r), UNCHANGED <<pc, moves, faults>>
    PROVE  Synced'
<1> DEFINE page == PageOf(r.chat, r.n)
           view == IF r.quiet THEN Appended(phone.view, page) ELSE page
           local == Reconciled(phone.local, page)
           older == IF r.quiet THEN phone.older ELSE First(r.n)
           read == [phone EXCEPT !.view = view, !.local = local,
                                 !.listed = @ \cup {r.chat}, !.older = older]
<1>1. r \in Loads /\ r.chat \in Chats /\ r.n \in Nat /\ r.quiet \in BOOLEAN
  BY SyncedIs, RequestIs DEF Loaded, Loads
<1>2. CASE phone' = phone
  BY <1>2, SyncedIs, RemovedNet, ScreenTypes DEF Loaded
<1>3. CASE phone' = [Emptied(phone) EXCEPT !.listed = @ \ {r.chat}, !.selected = None]
  <2> DEFINE e == Emptied(phone)
  <2>1. e \in Screen /\ e.view = <<>> /\ e.local = {}
    BY SyncedIs, EmptiedIs
  <2>2. phone' = [e EXCEPT !.listed = @ \ {r.chat}, !.selected = None]
    BY <1>3
  <2> HIDE DEF e
  <2>3. phone' \in Screen /\ phone'.view = <<>> /\ phone'.local = {}
    BY <2>1, <2>2 DEF Screen
  <2> QED BY <2>3, EmptyShown, RemovedNet, ScreenTypes DEF Loaded
<1>4. CASE phone' = read /\ Wanted(r)
  <2>1. /\ page \in Seq(Chats \X Nat) /\ Distinct(page) /\ Of(page, r.chat)
        /\ First(r.n) \in Nat
    BY <1>1, PageIs
  <2> HIDE DEF page
  <2>2. /\ phone.view \in Seq(Chats \X Nat) /\ phone.selected = r.chat /\ phone.older \in Nat
        /\ Distinct(phone.view) /\ Of(phone.view, r.chat)
    BY <1>4, SyncedIs DEF Screen, Shown, Wanted
  <2>3. view \in Seq(Chats \X Nat) /\ Distinct(view) /\ Of(view, r.chat)
    BY <2>1, <2>2, AppendedIs
  <2>4. local \subseteq phone.local
    BY DEF Reconciled
  <2>5. older \in Nat
    BY <1>1, <2>1, <2>2
  <2> HIDE DEF view, local, older
  <2>6. /\ phone' \in Screen /\ phone'.view = view /\ phone'.local = local
        /\ phone'.selected = r.chat
    BY <1>1, <1>4, <2>2, <2>3, <2>4, <2>5, SyncedIs DEF Screen
  <2>7. Shown(phone')
    BY <2>2, <2>3, <2>4, <2>6, SyncedIs DEF Shown
  <2> QED BY <2>4, <2>6, <2>7, RemovedNet, ScreenTypes DEF Loaded
<1> QED BY <1>2, <1>3, <1>4 DEF Loaded

LEMMA OlderLoadedKeeps ==
    ASSUME Synced, NEW r \in net, OlderLoaded(r), UNCHANGED <<pc, moves, faults>>
    PROVE  Synced'
<1> DEFINE page == PageOf(r.chat, r.before)
           view == Prepended(phone.view, page)
           older == First(r.before)
<1>1. r \in Olders /\ r.chat \in Chats /\ r.before \in Nat
  BY SyncedIs, RequestIs DEF OlderLoaded, Olders
<1>2. CASE phone.selected # r.chat
  <2>1. phone' = phone
    BY <1>2 DEF OlderLoaded
  <2> QED BY <2>1, SyncedIs, RemovedNet, ScreenTypes DEF OlderLoaded
<1>3. CASE phone.selected = r.chat
  <2>1. page \in Seq(Chats \X Nat) /\ Distinct(page) /\ Of(page, r.chat) /\ older \in Nat
    BY <1>1, PageIs
  <2> HIDE DEF page
  <2>2. /\ phone.view \in Seq(Chats \X Nat)
        /\ Distinct(phone.view) /\ Of(phone.view, r.chat)
    BY <1>3, SyncedIs DEF Screen, Shown
  <2>3. view \in Seq(Chats \X Nat) /\ Distinct(view) /\ Of(view, r.chat)
    BY <2>1, <2>2, PrependedIs
  <2>4. phone' = [phone EXCEPT !.view = view, !.older = older]
    BY <1>3 DEF OlderLoaded, page
  <2> HIDE DEF view, older
  <2>5. /\ phone' \in Screen /\ phone'.view = view /\ phone'.local = phone.local
        /\ phone'.selected = phone.selected
    BY <2>1, <2>3, <2>4, SyncedIs DEF Screen
  <2>6. Shown(phone')
    BY <1>3, <2>3, <2>5, SyncedIs DEF Shown
  <2> QED BY <2>5, <2>6, RemovedNet, ScreenTypes DEF OlderLoaded
<1> QED BY <1>2, <1>3

LEMMA PolledKeeps ==
    ASSUME Synced, NEW r \in net, Polled(r), UNCHANGED <<pc, moves, faults>>
    PROVE  Synced'
<1>1. r.task \in Sends \cup {None}
  BY SyncedIs, RequestIs DEF Polled, Polls
<1>2. /\ phone' \in Screen /\ phone'.view = phone.view /\ phone'.local = phone.local
      /\ phone'.selected = phone.selected
  BY <1>1, SyncedIs DEF Screen, Polled
<1>3. Shown(phone')
  BY <1>2, SyncedIs, ShownStays
<1> QED BY <1>2, <1>3, RemovedNet, ScreenTypes DEF Polled

LEMMA ListedKeeps ==
    ASSUME Synced, NEW r \in net, Listed(r), UNCHANGED <<pc, moves, faults>>
    PROVE  Synced'
<1> DEFINE listed == IF r.keep THEN phone.listed \cup r.chats ELSE r.chats
           p == [phone EXCEPT !.listed = listed]
<1>1. r \in Lists /\ r.chats \subseteq Chats
  BY SyncedIs, RequestIs DEF Listed, Lists
<1>2. listed \in SUBSET Chats
  BY <1>1, SyncedIs DEF Screen
<1> HIDE DEF listed
<1>3. p \in Screen /\ p.view = phone.view /\ p.local = phone.local /\ p.selected = phone.selected
  BY <1>2, SyncedIs DEF Screen
<1>4. Shown(p)
  BY <1>3, SyncedIs, ShownStays
<1>5. \/ phone' \in {phone, p} /\ net' = net \ {r}
      \/ \E c \in r.chats : phone' = Opened(p, c) /\ net' = Load(c, FALSE, net \ {r})
      \/ phone' = [Emptied(p) EXCEPT !.selected = None] /\ net' = net \ {r}
  BY DEF Listed, listed
<1> HIDE DEF p
<1>6. CASE phone' \in {phone, p} /\ net' = net \ {r}
  <2>1. phone' \in Screen /\ Shown(phone') /\ phone'.local = phone.local
    BY <1>3, <1>4, <1>6, SyncedIs
  <2> QED BY <1>6, <2>1, RemovedNet, ScreenTypes DEF Listed
<1>7. CASE \E c \in r.chats : phone' = Opened(p, c) /\ net' = Load(c, FALSE, net \ {r})
  <2>1. PICK c \in r.chats : phone' = Opened(p, c) /\ net' = Load(c, FALSE, net \ {r})
    BY <1>7
  <2>2. phone' \in Screen /\ Shown(phone') /\ phone'.local = {}
    BY <1>1, <1>3, <2>1, ChosenIs, EmptyShown
  <2>3. NetTyped /\ \A q \in net' : q.kind = "post" => q \in net
    BY <1>1, <2>1, RemovedLoad
  <2> QED BY <2>2, <2>3, ScreenTypes DEF Listed
<1>8. CASE phone' = [Emptied(p) EXCEPT !.selected = None] /\ net' = net \ {r}
  <2>1. phone' \in Screen /\ Shown(phone') /\ phone'.local = {}
    BY <1>3, <1>8, EmptiedIs
  <2> QED BY <1>8, <2>1, RemovedNet, ScreenTypes DEF Listed
<1> QED BY <1>5, <1>6, <1>7, <1>8

LEMMA CreatedKeeps ==
    ASSUME Synced, NEW r \in net, Created(r), UNCHANGED <<pc, moves, faults>>
    PROVE  Synced'
<1> DEFINE p == [phone EXCEPT !.listed = @ \cup {r.chat}]
<1>1. r.chat \in Chats
  <2>1. r \in Creates
    BY SyncedIs, RequestIs DEF Created
  <2> QED BY <2>1 DEF Creates, Created, Loads
<1>2. p \in Screen
  BY <1>1, SyncedIs DEF Screen
<1>3. phone' = Chosen(p, r.chat)
  BY DEF Created
<1> HIDE DEF p
<1>4. phone' \in Screen /\ Shown(phone') /\ phone'.local = {}
  BY <1>1, <1>2, <1>3, ChosenIs, EmptyShown
<1>5. NetTyped /\ \A q \in net' : q.kind = "post" => q \in net
  BY <1>1, RemovedLoad DEF Created
<1> QED BY <1>4, <1>5, ScreenTypes DEF Created

LEMMA DeletedKeeps ==
    ASSUME Synced, NEW r \in net, Deleted(r), UNCHANGED <<pc, moves, faults>>
    PROVE  Synced'
<1> DEFINE rest == (r.was \ {r.chat}) \cup ({r.other} \ {None})
           p == [phone EXCEPT !.listed = rest]
<1>1. r \in Deletes
  BY SyncedIs, RequestIs DEF Deleted
<1>2. rest \in SUBSET Chats
  BY <1>1 DEF Deletes
<1> HIDE DEF rest
<1>3. p \in Screen /\ p.view = phone.view /\ p.local = phone.local /\ p.selected = phone.selected
  BY <1>2, SyncedIs DEF Screen
<1>4. Shown(p)
  BY <1>3, SyncedIs, ShownStays
<1>5. \/ phone' \in {phone, p} /\ net' = net \ {r}
      \/ phone' = [Emptied(p) EXCEPT !.selected = None, !.files = None] /\ net' = net \ {r}
      \/ \E c \in rest : phone' = Chosen(p, c) /\ net' = Load(c, FALSE, net \ {r})
  BY DEF Deleted, rest
<1> HIDE DEF p
<1>6. CASE phone' \in {phone, p} /\ net' = net \ {r}
  <2>1. phone' \in Screen /\ Shown(phone') /\ phone'.local = phone.local
    BY <1>3, <1>4, <1>6, SyncedIs
  <2> QED BY <1>6, <2>1, RemovedNet, ScreenTypes DEF Deleted
<1>7. CASE \E c \in rest : phone' = Chosen(p, c) /\ net' = Load(c, FALSE, net \ {r})
  <2>1. PICK c \in rest : phone' = Chosen(p, c) /\ net' = Load(c, FALSE, net \ {r})
    BY <1>7
  <2>2. phone' \in Screen /\ Shown(phone') /\ phone'.local = {}
    BY <1>2, <1>3, <2>1, ChosenIs, EmptyShown
  <2>3. NetTyped /\ \A q \in net' : q.kind = "post" => q \in net
    BY <1>2, <2>1, RemovedLoad
  <2> QED BY <2>2, <2>3, ScreenTypes DEF Deleted
<1>8. CASE phone' = [Emptied(p) EXCEPT !.selected = None, !.files = None] /\ net' = net \ {r}
  <2>1. phone' \in Screen /\ Shown(phone') /\ phone'.local = {}
    BY <1>3, <1>8, EmptiedIs
  <2> QED BY <1>8, <2>1, RemovedNet, ScreenTypes DEF Deleted
<1> QED BY <1>5, <1>6, <1>7, <1>8

-----------------------------------------------------------------------------
(* The PC.                                                                 *)
Stores(c, x) == log' = [log EXCEPT ![c] = Append(@, x)]

LEMMA LogGrows ==
    ASSUME PhoneTypeOK, NEW c \in Chats, NEW x \in Sends \cup {Other}, Stores(c, x)
    PROVE  /\ log' \in [Chats -> Seq(Sends \cup {Other})]
           /\ \A d \in Chats : \A i \in DOMAIN log[d] :
                 i \in DOMAIN log'[d] /\ log'[d][i] = log[d][i]
           /\ \E i \in DOMAIN log'[c] : log'[c][i] = x
<1> DEFINE T == Sends \cup {Other}
           a == Append(log[c], x)
<1>1. log \in [Chats -> Seq(T)] /\ x \in T /\ log[c] \in Seq(T)
  BY DEF PhoneTypeOK
<1> HIDE DEF T
<1>2. /\ a \in Seq(T) /\ \A i \in DOMAIN log[c] : i \in DOMAIN a /\ a[i] = log[c][i]
      /\ Len(log[c]) + 1 \in DOMAIN a /\ a[Len(log[c]) + 1] = x
  BY <1>1
<1>3. log' = [log EXCEPT ![c] = a]
  BY DEF Stores
<1> HIDE DEF a
<1>4. log' \in [Chats -> Seq(T)]
  BY <1>1, <1>2, <1>3
<1>5. log'[c] = a /\ \A d \in Chats : d # c => log'[d] = log[d]
  BY <1>1, <1>3
<1> QED BY <1>2, <1>4, <1>5 DEF T

(* What a step of the PC does that leaves jobs, log and posts as they are. *)
LEMMA ChatsChange ==
    ASSUME Synced, UNCHANGED <<log, jobs, chatOf, phone, send, faults>>,
           Move \/ UNCHANGED moves, NetTyped,
           conv' \in [Chats -> {"new", "kept", "deleted"}],
           \A r \in net' : r.kind = "post" => r \in net
    PROVE  Synced'
<1>1. Sending' /\ Posting' /\ ReturnedIsOver'
  BY ScreenStep
<1>2. PhoneTypeOK'
  BY Bounds DEF Synced, PhoneTypeOK, NetTyped
<1>3. Shown(phone)'
  BY DEF Synced, Shown
<1> QED BY <1>1, <1>2, <1>3 DEF Synced

LEMMA OtherDeletesKeeps == ASSUME Synced, NEW c \in Chats, OtherDeletes(c) PROVE Synced'
<1>1. conv' \in [Chats -> {"new", "kept", "deleted"}]
  BY DEF OtherDeletes, Synced, PhoneTypeOK
<1>2. NetTyped /\ \A r \in net' : r.kind = "post" => r \in net
  BY SyncedIs DEF OtherDeletes, NetTyped
<1> QED BY <1>1, <1>2, ChatsChange DEF OtherDeletes

LEMMA ServeCreateKeeps ==
    ASSUME Synced, NEW r \in net, ServeCreate(r), UNCHANGED <<phone, send, moves>>
    PROVE  Synced'
<1>1. PICK c \in {d \in Chats : conv[d] = "new"} :
        /\ conv' = [conv EXCEPT ![c] = "kept"]
        /\ net' = (net \ {r}) \cup
                   IF r.heard THEN {[r EXCEPT !.step = "answered", !.chat = c]} ELSE {}
  BY DEF ServeCreate
<1> DEFINE a == [r EXCEPT !.step = "answered", !.chat = c]
<1>2. r \in Creates
  BY SyncedIs, RequestIs DEF ServeCreate
<1>3. a \in Requests /\ a.kind = "create"
  BY <1>2 DEF Creates, Requests
<1>4. net' \subseteq net \cup {a}
  BY <1>1
<1> HIDE DEF a
<1>5. NetTyped /\ \A q \in net' : q.kind = "post" => q \in net
  BY <1>3, <1>4, SyncedIs DEF NetTyped
<1>6. conv' \in [Chats -> {"new", "kept", "deleted"}]
  BY <1>1 DEF Synced, PhoneTypeOK
<1> QED BY <1>5, <1>6, ChatsChange DEF ServeCreate

LEMMA ServeDeleteKeeps ==
    ASSUME Synced, NEW r \in net, ServeDelete(r), UNCHANGED <<phone, send, moves>>
    PROVE  Synced'
<1>1. r \in Deletes
  BY SyncedIs, RequestIs DEF ServeDelete
<1>2. \E o \in Chats \cup {None} :
         net' \subseteq net \cup {[r EXCEPT !.step = "refused"],
                                  [r EXCEPT !.step = "answered", !.other = o]}
  <2>1. CASE InTurn \/ r.chat \notin Kept
    BY <2>1 DEF ServeDelete
  <2>2. CASE ~(InTurn \/ r.chat \notin Kept)
    <3>1. PICK o \in IF Kept = {r.chat} THEN {None} ELSE Kept \ {r.chat} :
                net' = (net \ {r}) \cup
                       IF r.heard THEN {[r EXCEPT !.step = "answered", !.other = o]} ELSE {}
      BY <2>2 DEF ServeDelete
    <3>2. o \in Chats \cup {None}
      BY DEF Kept
    <3> QED BY <3>1, <3>2
  <2> QED BY <2>1, <2>2
<1>3. PICK o \in Chats \cup {None} :
         net' \subseteq net \cup {[r EXCEPT !.step = "refused"],
                                  [r EXCEPT !.step = "answered", !.other = o]}
  BY <1>2
<1> DEFINE a == [r EXCEPT !.step = "refused"]
           b == [r EXCEPT !.step = "answered", !.other = o]
<1>4. a \in Requests /\ a.kind = "delete"
  BY <1>1 DEF Deletes, Requests
<1>5. b \in Requests /\ b.kind = "delete"
  BY <1>1 DEF Deletes, Requests
<1>6. net' \subseteq net \cup {a, b}
  BY <1>3
<1> HIDE DEF a, b
<1>7. NetTyped /\ \A q \in net' : q.kind = "post" => q \in net
  BY <1>4, <1>5, <1>6, SyncedIs DEF NetTyped
<1>8. conv' \in [Chats -> {"new", "kept", "deleted"}]
  BY DEF Synced, PhoneTypeOK, ServeDelete
<1> QED BY <1>7, <1>8, ChatsChange DEF ServeDelete

LEMMA ServePostKeeps ==
    ASSUME Synced, NEW r \in net, ServePost(r), UNCHANGED <<phone, send, moves>>
    PROVE  Synced'
<1>1. PICK job \in {"refused", "queued", "stuck"} :
         /\ jobs' = [jobs EXCEPT ![r.k] = job]
         /\ net' = (net \ {r}) \cup
                   IF ~r.heard THEN {} ELSE {[r EXCEPT !.step = Answer[job]]}
         /\ Fault \/ UNCHANGED faults
  BY DEF ServePost, Taken
<1> DEFINE a == [r EXCEPT !.step = Answer[job]]
<1>2. r \in Posts /\ r \in Kind("post") /\ r.step = "asked" /\ r.kind = "post"
  BY SyncedIs, RequestIs DEF ServePost, Kind
<1>3. r.k \in Sends /\ r.chat \in Chats
  BY <1>2 DEF Posts
<1>4. /\ a \in Requests /\ a.kind = "post" /\ a.k = r.k /\ a.chat = r.chat /\ a.heard = r.heard
      /\ a.step \in {"answered", "refused", "error"} /\ (a.step = "refused" => job = "refused")
  <2>1. /\ Answer[job] \in {"answered", "refused", "error"}
        /\ Answer[job] = "refused" => job = "refused"
    BY DEF Answer
  <2> QED BY <1>2, <2>1 DEF Posts, Requests
<1>5. \A q \in net' : \/ q = a /\ r.heard
                      \/ q \in net /\ (q.kind = "post" => q.k # r.k)
  <2>1. \A q \in net' : q \in net \ {r} \/ (q = a /\ r.heard)
    BY <1>1
  <2>2. \A q \in net \ {r} : q.kind = "post" => q.k # r.k
    BY <1>2 DEF Synced, Posting, Kind
  <2> HIDE DEF a
  <2> QED BY <2>1, <2>2
<1> HIDE DEF a
<1>6. /\ \A k \in Sends : k # r.k => jobs'[k] = jobs[k]
      /\ jobs'[r.k] = job
      /\ jobs' \in [Sends -> {"none", "refused", "over", "done"} \cup Active]
  BY <1>1, <1>3 DEF Synced, PhoneTypeOK, Active
<1>7. jobs[r.k] = "none" /\ chatOf[r.k] = r.chat
  BY <1>2 DEF Synced, Posting
<1>8. NetTyped
  BY <1>4, <1>5, SyncedIs DEF NetTyped
<1>9. UNCHANGED <<conv, log, chatOf>>
  BY DEF ServePost
<1>10. PhoneTypeOK' /\ Shown(phone)'
  BY <1>1, <1>6, <1>8, <1>9, Bounds DEF Synced, PhoneTypeOK, NetTyped, Shown
<1>11. \A q \in Kind("post")' : \/ q = a /\ r.heard
                                \/ q \in Kind("post") /\ q.k # r.k
  BY <1>4, <1>5 DEF Kind
<1>12. \A q \in Kind("post") : q.k \in Sends
  BY SyncedIs, RequestIs DEF Kind, Posts
<1>13. Sending'
  <2>1. send.step \in {"upload", "wait"} => send.k # r.k /\ send.k \in Sends
    BY <1>2 DEF Synced, Sending
  <2>2. send.step \in {"upload", "wait"} => \A q \in Kind("post")' : q.k # send.k
    BY <1>4, <1>11, <2>1 DEF Synced, Sending
  <2>3. send.step = "upload" => jobs'[send.k] = "none"
    BY <1>6, <2>1 DEF Synced, Sending
  <2>4. \A k \in Sends : chatOf[k] = None => jobs'[k] = "none"
    BY <1>3, <1>6, <1>7, NoChatApart DEF Synced, Sending
  <2>5. \A k \in Sends : jobs'[k] \in {"stored", "done"} =>
          chatOf[k] \in Chats /\ \E i \in DOMAIN log[chatOf[k]] : log[chatOf[k]][i] = k
    BY <1>6 DEF Synced, Sending
  <2>6. send.step # "none" => /\ send.k \in Sends /\ send.chat \in Chats
                              /\ chatOf[send.k] = send.chat
                              /\ \A e \in phone.local : e.k = send.k => e.delivery = "sending"
    BY DEF Synced, Sending
  <2> QED BY <1>9, <2>2, <2>3, <2>4, <2>5, <2>6 DEF Sending
<1>14. Posting'
  <2>1. ASSUME NEW q \in Kind("post")'
        PROVE  /\ chatOf[q.k] = q.chat
               /\ q.heard => send.step = "post" /\ send.k = q.k
               /\ q.step # "asked" => q.heard
               /\ q.step = "asked" => jobs'[q.k] = "none"
               /\ q.step = "refused" => jobs'[q.k] = "refused"
    <3>1. CASE q = a /\ r.heard
      BY <1>2, <1>4, <1>6, <1>7, <3>1 DEF Synced, Posting
    <3>2. CASE q \in Kind("post") /\ q.k # r.k
      BY <1>6, <1>12, <3>2 DEF Synced, Posting
    <3> QED BY <1>11, <3>1, <3>2
  <2>2. \A p, q \in Kind("post")' : p.k = q.k => p = q
    BY <1>4, <1>11 DEF Synced, Posting
  <2> QED BY <1>9, <2>1, <2>2 DEF Posting
<1>15. ReturnedIsOver'
  <2> SUFFICES ASSUME NEW e \in phone.local, e.delivery = "failed", e.told
               PROVE  jobs'[e.k] \notin Active /\ \A q \in Kind("post")' : q.k # e.k
    BY DEF ReturnedIsOver
  <2>1. jobs[e.k] \notin Active /\ \A q \in Kind("post") : q.k # e.k
    BY DEF Synced, ReturnedIsOver
  <2>2. e.k \in Sends
    BY SyncedIs DEF Screen, Entries
  <2> QED BY <1>2, <1>4, <1>6, <1>11, <2>1, <2>2
<1> QED BY <1>10, <1>13, <1>14, <1>15 DEF Synced

(* A job goes on: the jobs that are over, and those not yet made, stay.    *)
LEMMA JobGoesOn ==
    ASSUME Synced, NEW k \in Sends, jobs[k] \in Active, NEW to,
           to \in {"stored", "done", "over"}, jobs' = [jobs EXCEPT ![k] = to],
           UNCHANGED <<conv, chatOf, phone, send, net, moves, faults>>,
           log' \in [Chats -> Seq(Sends \cup {Other})],
           \A d \in Chats : \A i \in DOMAIN log[d] : i \in DOMAIN log'[d] /\ log'[d][i] = log[d][i],
           to \in {"stored", "done"} =>
              chatOf[k] \in Chats /\ \E i \in DOMAIN log'[chatOf[k]] : log'[chatOf[k]][i] = k
    PROVE  Synced'
<1>1. /\ jobs' \in [Sends -> {"none", "refused", "over", "done"} \cup Active]
      /\ jobs'[k] = to /\ \A j \in Sends : j # k => jobs'[j] = jobs[j]
  BY DEF Synced, PhoneTypeOK, Active
<1>2. jobs[k] # "none" /\ jobs[k] # "refused"
  BY DEF Active
<1>3. PhoneTypeOK' /\ Shown(phone)'
  BY <1>1 DEF Synced, PhoneTypeOK, Shown
<1>4. Kind("post")' = Kind("post") /\ \A q \in Kind("post") : q.k \in Sends
  BY SyncedIs, RequestIs DEF Kind, Posts
<1>5. Sending'
  <2>1. \A j \in Sends : jobs'[j] \in {"stored", "done"} =>
          chatOf[j] \in Chats /\ \E i \in DOMAIN log'[chatOf[j]] : log'[chatOf[j]][i] = j
    BY <1>1 DEF Synced, Sending
  <2>2. send.step = "upload" => send.k \in Sends /\ jobs'[send.k] = "none"
    BY <1>1, <1>2 DEF Synced, Sending
  <2>3. \A j \in Sends : chatOf[j] = None => jobs'[j] = "none"
    BY <1>1, <1>2 DEF Synced, Sending
  <2> QED BY <1>4, <2>1, <2>2, <2>3 DEF Synced, Sending
<1>6. Posting'
  BY <1>1, <1>2, <1>4 DEF Synced, Posting
<1>7. ReturnedIsOver'
  <2> SUFFICES ASSUME NEW e \in phone.local, e.delivery = "failed", e.told
               PROVE  jobs'[e.k] \notin Active /\ \A q \in Kind("post") : q.k # e.k
    BY <1>4 DEF ReturnedIsOver
  <2>1. jobs[e.k] \notin Active /\ \A q \in Kind("post") : q.k # e.k
    BY DEF Synced, ReturnedIsOver
  <2>2. e.k \in Sends
    BY SyncedIs DEF Screen, Entries
  <2> QED BY <1>1, <2>1, <2>2
<1> QED BY <1>3, <1>5, <1>6, <1>7 DEF Synced

LEMMA JobStoresKeeps == ASSUME Synced, NEW k \in Sends, JobStores(k) PROVE Synced'
<1>1. chatOf[k] \in Chats /\ jobs[k] \in Active /\ k \in Sends \cup {Other} /\ PhoneTypeOK
  BY DEF JobStores, Kept, Active, Synced
<1>2. PICK c \in Chats : c = chatOf[k] /\ Stores(c, k)
  BY <1>1 DEF JobStores, Stores
<1>3. /\ log' \in [Chats -> Seq(Sends \cup {Other})]
      /\ \A d \in Chats : \A i \in DOMAIN log[d] :
            i \in DOMAIN log'[d] /\ log'[d][i] = log[d][i]
      /\ \E i \in DOMAIN log'[c] : log'[c][i] = k
  BY <1>1, <1>2, LogGrows
<1>4. jobs' = [jobs EXCEPT ![k] = "stored"]
      /\ UNCHANGED <<conv, chatOf, phone, send, net, moves, faults>>
  BY DEF JobStores
<1> QED BY <1>1, <1>2, <1>3, <1>4, JobGoesOn

LEMMA JobEndsKeeps == ASSUME Synced, NEW k \in Sends, JobEnds(k) PROVE Synced'
<1>1. /\ jobs[k] \in Active
      /\ UNCHANGED <<conv, log, chatOf, phone, send, net, moves, faults>>
  BY DEF JobEnds
<1>2. PICK to \in {"done", "over"} :
         jobs' = [jobs EXCEPT ![k] = to] /\ (to = "done" => jobs[k] = "stored")
  BY DEF JobEnds
<1>3. log \in [Chats -> Seq(Sends \cup {Other})]
  BY DEF Synced, PhoneTypeOK
<1>4. jobs[k] = "stored" =>
         chatOf[k] \in Chats /\ \E i \in DOMAIN log[chatOf[k]] : log[chatOf[k]][i] = k
  BY DEF Synced, Sending
<1> QED BY <1>1, <1>2, <1>3, <1>4, JobGoesOn

LEMMA ForgottenKeeps == ASSUME Synced, NEW k \in Sends, Forgotten(k) PROVE Synced'
<1>1. /\ jobs[k] \in Active /\ jobs' = [jobs EXCEPT ![k] = "over"]
      /\ UNCHANGED <<conv, log, chatOf, phone, send, net, moves, faults>>
  BY DEF Forgotten, Active
<1>2. log \in [Chats -> Seq(Sends \cup {Other})]
  BY DEF Synced, PhoneTypeOK
<1> QED BY <1>1, <1>2, JobGoesOn

LEMMA OtherTurnKeeps == ASSUME Synced, NEW c \in Chats, OtherTurn(c) PROVE Synced'
<1>1. UNCHANGED <<conv, jobs, chatOf, phone, send, net, moves, faults>>
  BY DEF OtherTurn
<1>2. PhoneTypeOK /\ Other \in Sends \cup {Other} /\ Stores(c, Other)
  BY DEF OtherTurn, Synced, Stores
<1>3. /\ log' \in [Chats -> Seq(Sends \cup {Other})]
      /\ \A d \in Chats : \A i \in DOMAIN log[d] :
            i \in DOMAIN log'[d] /\ log'[d][i] = log[d][i]
  BY <1>2, LogGrows
<1>4. Sending'
  <2>1. \A j \in Sends : jobs[j] \in {"stored", "done"} =>
          chatOf[j] \in Chats /\ \E i \in DOMAIN log'[chatOf[j]] : log'[chatOf[j]][i] = j
    BY <1>3 DEF Synced, Sending
  <2> QED BY <1>1, <2>1 DEF Synced, Sending, Kind
<1>5. PhoneTypeOK' /\ Shown(phone)'
  BY <1>1, <1>3 DEF Synced, PhoneTypeOK, Shown
<1>6. Posting' /\ ReturnedIsOver'
  BY <1>1 DEF Synced, Posting, ReturnedIsOver, Kind
<1> QED BY <1>4, <1>5, <1>6 DEF Synced

-----------------------------------------------------------------------------
(* The call of send(). When it is over, or the app is, no answer is waited *)
(* for: what was asked and not answered may still be served.               *)
Orphan(r) == [r EXCEPT !.heard = FALSE]
Orphans == \A q \in net' : q.kind = "post" =>
              \E r \in Kind("post") : q = Orphan(r) /\ r.step = "asked"

LEMMA OrphanIs ==
    ASSUME NEW r \in Posts
    PROVE  /\ Orphan(r) \in Posts /\ Orphan(r).kind = "post" /\ ~Orphan(r).heard
           /\ Orphan(r).k = r.k /\ Orphan(r).chat = r.chat /\ Orphan(r).step = r.step
           /\ ~r.heard => Orphan(r) = r
BY DEF Orphan, Posts

LEMMA PostIs == Synced => \A r \in Kind("post") : r \in Posts /\ r.k \in Sends /\ r.chat \in Chats
<1> SUFFICES ASSUME Synced, NEW r \in Kind("post")
             PROVE  r \in Posts /\ r.k \in Sends /\ r.chat \in Chats
  OBVIOUS
<1>1. r \in Posts
  BY SyncedIs, RequestIs DEF Kind
<1> QED BY <1>1 DEF Posts

(* Posts that nobody waits for are their own orphans.                      *)
LEMMA UnheardOrphans ==
    ASSUME Synced, \A q \in net' : q.kind = "post" => q \in net /\ ~q.heard
    PROVE  Orphans
<1> SUFFICES ASSUME NEW q \in net', q.kind = "post"
             PROVE  \E r \in Kind("post") : q = Orphan(r) /\ r.step = "asked"
  BY DEF Orphans
<1>1. q \in Kind("post") /\ ~q.heard
  BY DEF Kind
<1>2. q.step = "asked"
  BY <1>1 DEF Synced, Posting
<1> QED BY <1>1, <1>2, OrphanIs, PostIs

LEMMA IdleIs == /\ Idle.step = "none"
                /\ Idle \in [k : Sends \cup {0}, chat : Chats \cup {None}, text : Chats \cup {None},
                             sent : BOOLEAN, step : {"none", "upload", "post", "wait"}]
BY DEF Idle

LEMMA SendOver ==
    ASSUME Synced, send' = Idle, UNCHANGED pc, Orphans
    PROVE  Sending' /\ Posting' /\ \A q \in Kind("post")' : \E r \in Kind("post") : q.k = r.k
<1>1. UNCHANGED <<conv, log, jobs, chatOf>>
  BY DEF pc
<1>2. send'.step = "none"
  BY IdleIs
<1>3. Sending'
  BY <1>1, <1>2 DEF Synced, Sending
<1>4. ASSUME NEW q \in Kind("post")'
      PROVE  \E r \in Kind("post") : /\ q = Orphan(r) /\ r.step = "asked" /\ q.step = "asked"
                                     /\ q.k = r.k /\ q.chat = r.chat /\ ~q.heard
  <2>1. PICK r \in Kind("post") : q = Orphan(r) /\ r.step = "asked"
    BY DEF Orphans, Kind
  <2> QED BY <2>1, OrphanIs, PostIs
<1>5. \A q \in Kind("post")' : /\ chatOf[q.k] = q.chat /\ ~q.heard /\ q.step = "asked"
                               /\ jobs[q.k] = "none"
  BY <1>4 DEF Synced, Posting
<1>6. \A p, q \in Kind("post")' : p.k = q.k => p = q
  BY <1>4 DEF Synced, Posting
<1>7. Posting'
  BY <1>1, <1>5, <1>6 DEF Posting
<1> QED BY <1>3, <1>4, <1>7

LEMMA FailedKeeps ==
    ASSUME Synced, send.step # "none", NEW error, Failed(error), UNCHANGED <<pc, moves>>,
           Fault \/ UNCHANGED faults, NetTyped, Orphans,
           Uncertain(error) \/ error = "server" \/
                             ( /\ jobs[send.k] \notin Active
                                 /\ \A r \in Kind("post")' : r.k # send.k )
    PROVE  Synced'
<1> DEFINE p == [phone EXCEPT !.task = None]
           back == ~send.sent /\ ~Uncertain(error)
           delivery == IF Uncertain(error) THEN "uncertain" ELSE "failed"
           told == error # "server"
           mark(e) == IF e.k = send.k THEN [e EXCEPT !.delivery = delivery, !.told = told] ELSE e
           local == {mark(e) : e \in phone.local}
           files == IF send.sent THEN None ELSE phone.files
           draft == IF back THEN send.text ELSE phone.draft
           q == [p EXCEPT !.files = files, !.draft = draft, !.local = local]
<1>1. UNCHANGED <<conv, log, jobs, chatOf>> /\ send' = Idle
  BY DEF pc, Failed, Finished
<1>2. p \in Screen /\ p.view = phone.view /\ p.local = phone.local /\ p.selected = phone.selected
  BY SyncedIs DEF Screen
<1>3. phone' = IF phone.selected # send.chat THEN p ELSE q
  <2>1. phone' = IF p.selected # send.chat THEN p
                 ELSE [p EXCEPT !.files = IF send.sent THEN None ELSE @,
                                !.draft = IF back THEN send.text ELSE @,
                                !.local = {IF e.k = send.k
                                           THEN [e EXCEPT !.delivery = delivery,
                                                          !.told = error # "server"]
                                           ELSE e
                                             : e \in @}]
    BY DEF Failed
  <2>2. p.files = phone.files /\ p.draft = phone.draft
    BY SyncedIs DEF Screen
  <2> HIDE DEF p
  <2> QED BY <1>2, <2>1, <2>2
<1>4. \A e \in phone.local : e \in Entries
  BY SyncedIs DEF Screen
<1>5. delivery \in {"uncertain", "failed"} /\ told \in BOOLEAN
  OBVIOUS
<1> HIDE DEF delivery, told
<1>6. \A e \in phone.local :
         /\ mark(e) \in Entries
         /\ mark(e).k = e.k
         /\ e.k # send.k => mark(e) = e
         /\ e.k = send.k => mark(e).delivery = delivery /\ mark(e).told = told
  BY <1>4, <1>5 DEF Entries
<1> HIDE DEF mark
<1>7. local \in LocalEntries /\ files \in Chats \cup {None} /\ draft \in Chats \cup {None}
  <2>1. local \in LocalEntries
    BY <1>6 DEF LocalEntries
  <2>2. files \in Chats \cup {None}
    BY SyncedIs DEF Screen
  <2>3. draft \in Chats \cup {None}
    BY SyncedIs DEF Screen, PhoneTypeOK
  <2> QED BY <2>1, <2>2, <2>3
<1> HIDE DEF p, files, draft
<1>8. \A e \in local : \E o \in phone.local : e = mark(o)
  OBVIOUS
<1> HIDE DEF local
<1>9. q \in Screen /\ q.view = phone.view /\ q.local = local /\ q.selected = phone.selected
  BY <1>2, <1>7 DEF Screen, LocalEntries
<1> HIDE DEF q
<1>10. Shown(p)
  BY <1>2, SyncedIs, ShownStays
<1>11. Shown(q)
  <2>1. \A e \in q.local : chatOf[e.k] = q.selected /\ q.selected # None
    BY <1>6, <1>8, <1>9, SyncedIs DEF Shown
  <2> QED BY <1>9, <2>1, SyncedIs DEF Shown
<1>12. phone' \in Screen /\ Shown(phone')
  BY <1>2, <1>3, <1>9, <1>10, <1>11
<1>13. Sending' /\ Posting' /\ \A r \in Kind("post")' : \E o \in Kind("post") : r.k = o.k
  BY <1>1, SendOver
<1>14. PhoneTypeOK'
  BY <1>1, <1>12, IdleIs, Bounds DEF Synced, PhoneTypeOK, NetTyped
<1>15. Shown(phone)'
  BY <1>1, <1>12 DEF Shown
<1>16. ReturnedIsOver'
  <2> SUFFICES ASSUME NEW e \in phone'.local, e.delivery = "failed", e.told
               PROVE  jobs[e.k] \notin Active /\ \A r \in Kind("post")' : r.k # e.k
    BY <1>1 DEF ReturnedIsOver
  <2>1. PICK o \in phone.local : e = o \/ (e = mark(o) /\ phone.selected = send.chat)
    BY <1>2, <1>3, <1>8, <1>9
  <2>2. \A d \in phone.local : d.delivery = "failed" /\ d.told =>
           jobs[d.k] \notin Active /\ \A r \in Kind("post")' : r.k # d.k
    BY <1>13 DEF Synced, ReturnedIsOver
  <2>3. CASE e = o \/ o.k # send.k
    BY <1>6, <2>1, <2>2, <2>3
  <2>4. CASE e = mark(o) /\ o.k = send.k
    <3>1. e.k = send.k /\ delivery = "failed" /\ told
      BY <1>6, <2>4
    <3>2. ~Uncertain(error) /\ error # "server"
      BY <3>1 DEF delivery, told
    <3> QED BY <3>1, <3>2
  <2> QED BY <2>1, <2>3, <2>4
<1> QED BY <1>13, <1>14, <1>15, <1>16 DEF Synced

LEMMA AppRestartKeeps == Synced /\ AppRestart => Synced'
<1> SUFFICES ASSUME Synced, AppRestart PROVE Synced'
  OBVIOUS
<1> DEFINE left == {[r EXCEPT !.heard = FALSE] : r \in {q \in net : Unheard(q)}}
<1>1. phone' = Blank /\ send' = Idle /\ net' = List(TRUE, FALSE, left) /\ UNCHANGED pc
  BY DEF AppRestart
<1>2. \A q \in left : \E r \in net : Unheard(r) /\ q = Orphan(r)
  BY DEF Orphan
<1> HIDE DEF left
<1>3. ASSUME NEW r \in net, Unheard(r)
      PROVE  /\ Orphan(r) \in Requests /\ Orphan(r).kind = r.kind
  <2>1. r \in Creates \/ r \in Deletes \/ r \in Posts
    BY <1>3, SyncedIs, RequestIs DEF Unheard
  <2>2. CASE r \in Creates
    BY <2>2 DEF Creates, Orphan, Requests
  <2>3. CASE r \in Deletes
    BY <2>3 DEF Deletes, Orphan, Requests
  <2>4. CASE r \in Posts
    BY <2>4 DEF Posts, Orphan, Requests
  <2> QED BY <2>1, <2>2, <2>3, <2>4
<1>4. \A q \in left : q \in Requests
  BY <1>2, <1>3
<1>5. NetTyped /\ \A q \in net' : q.kind = "post" => q \in left
  BY <1>1, <1>4, SyncedIs, ListTypes DEF NetTyped
<1>6. Orphans
  <2> SUFFICES ASSUME NEW q \in net', q.kind = "post"
               PROVE  \E r \in Kind("post") : q = Orphan(r) /\ r.step = "asked"
    BY DEF Orphans
  <2>1. PICK r \in net : Unheard(r) /\ q = Orphan(r)
    BY <1>2, <1>5
  <2> QED BY <1>3, <2>1 DEF Unheard, Kind
<1>7. Sending' /\ Posting'
  BY <1>1, <1>6, SendOver
<1>8. /\ UNCHANGED <<conv, log, jobs, chatOf>>
      /\ moves' \in 0 .. MaxMoves /\ faults' \in 0 .. MaxFaults
  BY SyncedIs, Bounds DEF AppRestart, pc
<1>9. PhoneTypeOK'
  BY <1>1, <1>5, <1>8, IdleIs, BlankShown DEF Synced, PhoneTypeOK, NetTyped
<1>10. Shown(phone)'
  BY <1>1, BlankShown DEF Shown
<1>11. ReturnedIsOver'
  BY <1>1, BlankShown DEF ReturnedIsOver
<1> QED BY <1>7, <1>9, <1>10, <1>11 DEF Synced

(* The request of the call of send() that is under way.                    *)
LEMMA HeardPost ==
    ASSUME Synced, NEW r \in net, r.kind = "post", r.heard
    PROVE  /\ send.step = "post" /\ send.k = r.k /\ r \in Kind("post")
           /\ \A q \in net : q.kind = "post" /\ q # r => ~q.heard /\ q.k # r.k
<1>1. r \in Kind("post") /\ \A q \in net : q.kind = "post" => q \in Kind("post")
  BY DEF Kind
<1> QED BY <1>1 DEF Synced, Posting

LEMMA FailsKeeps == ASSUME Synced, NEW r \in net, Fails(r) PROVE Synced'
<1> DEFINE o == Orphan(r)
<1>1. /\ Fault /\ UNCHANGED <<pc, moves>>
      /\ net' = net \ {r} \/ (Unheard(r) /\ net' = (net \ {r}) \cup {o})
  BY DEF Fails, Orphan
<1>2. r \in Requests
  BY SyncedIs
<1>3. CASE r.kind # "post"
  <2>1. UNCHANGED <<phone, send>>
    BY <1>3 DEF Fails
  <2>2. Unheard(r) => o \in Requests /\ o.kind # "post"
    <3>1. Unheard(r) => r \in Creates \/ r \in Deletes
      BY <1>2, <1>3, RequestIs DEF Unheard
    <3>2. CASE r \in Creates
      BY <3>2 DEF Creates, Orphan, Requests
    <3>3. CASE r \in Deletes
      BY <3>3 DEF Deletes, Orphan, Requests
    <3> QED BY <3>1, <3>2, <3>3
  <2> HIDE DEF o
  <2>3. NetTyped /\ \A q \in net' : q.kind = "post" => q \in net
    BY <1>1, <2>2, SyncedIs DEF NetTyped
  <2> QED BY <1>1, <2>1, <2>3, SyncedIs, ScreenTypes
<1>4. CASE r.kind = "post"
  <2>1. r.heard /\ \E error \in {"network", "timeout", "server"} : Failed(error)
    BY <1>4 DEF Fails, AnswerFails
  <2>2. PICK error \in {"network", "timeout", "server"} : Failed(error)
    BY <2>1
  <2>3. Uncertain(error) \/ error = "server"
    BY DEF Uncertain
  <2>4. /\ send.step = "post" /\ r \in Kind("post")
        /\ \A q \in net : q.kind = "post" /\ q # r => ~q.heard
    BY <1>4, <2>1, HeardPost
  <2>5. o \in Requests
    BY <2>4, PostIs, OrphanIs DEF Requests
  <2>6. r.step = "asked" \/ net' = net \ {r}
    BY <1>1 DEF Unheard
  <2> HIDE DEF o
  <2>7. NetTyped
    BY <1>1, <2>5, SyncedIs DEF NetTyped
  <2>8. Orphans
    <3> SUFFICES ASSUME NEW q \in net', q.kind = "post"
                 PROVE  \E p \in Kind("post") : q = Orphan(p) /\ p.step = "asked"
      BY DEF Orphans
    <3>1. CASE q = o /\ r.step = "asked"
      BY <2>4, <3>1 DEF o
    <3>2. CASE q \in net /\ q # r
      <4>1. q \in Kind("post") /\ ~q.heard
        BY <2>4, <3>2 DEF Kind
      <4>2. q.step = "asked"
        BY <4>1 DEF Synced, Posting
      <4> QED BY <4>1, <4>2, OrphanIs, PostIs
    <3> QED BY <1>1, <2>6, <3>1, <3>2
  <2> QED BY <1>1, <2>2, <2>3, <2>4, <2>7, <2>8, FailedKeeps
<1> QED BY <1>3, <1>4

(* A new request of the call: the only one of its message.                 *)
LEMMA NewPost ==
    ASSUME Synced, NEW k \in Sends, NEW c \in Chats, jobs[k] = "none", chatOf'[k] = c,
           \A r \in Kind("post") : r.k # k /\ ~r.heard /\ chatOf'[r.k] = chatOf[r.k],
           net' = net \cup {Post(k, c)}, jobs' = jobs, send'.step = "post", send'.k = k
    PROVE  /\ NetTyped /\ Posting'
           /\ \A r \in Kind("post")' : r \in Kind("post") \/ r.k = k
<1> DEFINE n == Post(k, c)
<1>1. /\ n \in Posts /\ n.kind = "post" /\ n.k = k /\ n.chat = c /\ n.step = "asked" /\ n.heard
  BY DEF Post, Posts
<1> HIDE DEF n
<1>2. net' = net \cup {n}
  BY DEF n
<1>3. NetTyped
  BY <1>1, <1>2, SyncedIs DEF NetTyped, Requests
<1>4. \A r \in Kind("post")' : r \in Kind("post") \/ r = n
  BY <1>2 DEF Kind
<1>5. ASSUME NEW q \in Kind("post")'
      PROVE  /\ chatOf'[q.k] = q.chat
             /\ q.heard => send'.step = "post" /\ send'.k = q.k
             /\ q.step # "asked" => q.heard
             /\ q.step = "asked" => jobs[q.k] = "none"
             /\ q.step = "refused" => jobs[q.k] = "refused"
  BY <1>1, <1>4, <1>5 DEF Synced, Posting
<1>6. \A p, q \in Kind("post")' : p.k = q.k => p = q
  BY <1>1, <1>4 DEF Synced, Posting
<1>7. Posting'
  BY <1>5, <1>6 DEF Posting
<1> QED BY <1>1, <1>3, <1>4, <1>7

LEMMA SendKeeps == Synced /\ Send => Synced'
<1> SUFFICES ASSUME Synced, Send PROVE Synced'
  OBVIOUS
<1>1. PICK k \in Sends :
        /\ chatOf[k] = None
        /\ chatOf' = [chatOf EXCEPT ![k] = phone.selected]
        /\ phone' = [phone EXCEPT !.draft = None,
                        !.local = @ \cup {[k |-> k, delivery |-> "sending", told |-> TRUE]}]
        /\ send' = [k |-> k, chat |-> phone.selected, text |-> phone.draft, sent |-> FALSE,
                    step |-> IF phone.files = None THEN "post" ELSE "upload"]
        /\ net' = IF phone.files = None THEN net \cup {Post(k, phone.selected)} ELSE net
  BY DEF Send
<1>2. PICK c \in Chats : c = phone.selected
  BY SyncedIs DEF Send, Composer, Screen
<1>3. send = Idle /\ send.step = "none" /\ UNCHANGED <<conv, log, jobs, moves, faults>>
  BY IdleIs DEF Send, Composer, Busy
<1>4. /\ chatOf' \in [Sends -> Chats \cup {None}]
      /\ chatOf'[k] = c /\ \A j \in Sends : j # k => chatOf'[j] = chatOf[j]
  BY <1>1, <1>2, SyncedIs DEF PhoneTypeOK
<1>5. jobs[k] = "none"
  BY <1>1 DEF Synced, Sending
<1>6. \A r \in Kind("post") : r.k # k /\ ~r.heard /\ chatOf'[r.k] = chatOf[r.k] /\ r.k \in Sends
  BY <1>1, <1>3, <1>4, PostIs, NoChatApart DEF Synced, Posting
<1>7. /\ send'.k = k /\ send'.chat = c /\ send'.step \in {"post", "upload"}
      /\ send'.step = "post" <=> phone.files = None
      /\ send' \in [k : Sends \cup {0}, chat : Chats \cup {None}, text : Chats \cup {None},
                    sent : BOOLEAN, step : {"none", "upload", "post", "wait"}]
  <2>1. phone.draft \in Chats \cup {None}
    BY SyncedIs DEF Screen
  <2> QED BY <1>1, <1>2, <2>1
<1> DEFINE n == [k |-> k, delivery |-> "sending", told |-> TRUE]
           local == phone.local \cup {n}
<1>8. n.k = k /\ n.delivery = "sending" /\ local \in LocalEntries
  <2>1. n \in Entries
    BY DEF Entries
  <2> QED BY <2>1, SyncedIs DEF Screen, LocalEntries
<1>9. phone' = [phone EXCEPT !.draft = None, !.local = local]
  BY <1>1
<1>10. \A e \in local : e = n \/ e \in phone.local
  OBVIOUS
<1> HIDE DEF n, local
<1>11. phone' \in Screen /\ phone'.view = phone.view /\ phone'.local = local /\ phone'.selected = c
  BY <1>2, <1>8, <1>9, SyncedIs DEF Screen, LocalEntries
<1>12. \A e \in phone.local : e.k \in Sends /\ e.k # k
  BY <1>1, <1>2, SyncedIs, NoChatApart DEF Shown, Screen, Entries
<1>13. Shown(phone)'
  <2>1. \A e \in phone'.local : chatOf'[e.k] = c /\ c # None
    BY <1>2, <1>4, <1>8, <1>10, <1>11, <1>12, SyncedIs, NoChatApart DEF Shown
  <2> QED BY <1>2, <1>11, <2>1, SyncedIs DEF Shown
<1>14. NetTyped /\ Posting' /\ \A r \in Kind("post")' : r \in Kind("post") \/ r.k = k
  <2>1. CASE phone.files = None
    BY <1>1, <1>2, <1>3, <1>4, <1>5, <1>6, <1>7, <2>1, NewPost
  <2>2. CASE phone.files # None
    <3>1. net' = net /\ Kind("post")' = Kind("post")
      BY <1>1, <2>2 DEF Kind
    <3>2. Posting'
      BY <1>3, <1>6, <3>1 DEF Synced, Posting
    <3> QED BY <3>1, <3>2, SyncedIs DEF NetTyped
  <2> QED BY <2>1, <2>2
<1>15. Sending'
  <2>1. \A e \in phone'.local : e.k = k => e.delivery = "sending"
    BY <1>8, <1>10, <1>11, <1>12
  <2>2. send'.step = "upload" => \A r \in Kind("post")' : r.k # k
    <3>1. send'.step = "upload" => net' = net
      BY <1>1, <1>7
    <3> QED BY <1>6, <3>1 DEF Kind
  <2>3. \A j \in Sends : chatOf'[j] = None => jobs[j] = "none"
    BY <1>4, <1>5 DEF Synced, Sending
  <2>4. \A j \in Sends : jobs[j] \in {"stored", "done"} =>
          chatOf'[j] \in Chats /\ \E i \in DOMAIN log[chatOf'[j]] : log[chatOf'[j]][i] = j
    BY <1>4, <1>5 DEF Synced, Sending
  <2> QED BY <1>3, <1>4, <1>5, <1>7, <2>1, <2>2, <2>3, <2>4 DEF Sending
<1>16. ReturnedIsOver'
  <2> SUFFICES ASSUME NEW e \in phone'.local, e.delivery = "failed", e.told
               PROVE  jobs[e.k] \notin Active /\ \A r \in Kind("post")' : r.k # e.k
    BY <1>3 DEF ReturnedIsOver
  <2>1. e \in phone.local
    BY <1>8, <1>10, <1>11
  <2> QED BY <1>12, <1>14, <2>1 DEF Synced, ReturnedIsOver
<1>17. PhoneTypeOK'
  BY <1>3, <1>4, <1>7, <1>11, <1>14 DEF Synced, PhoneTypeOK, NetTyped
<1> QED BY <1>13, <1>14, <1>15, <1>16, <1>17 DEF Synced

SendIs == [k : Sends \cup {0}, chat : Chats \cup {None}, text : Chats \cup {None},
           sent : BOOLEAN, step : {"none", "upload", "post", "wait"}]

LEMMA UploadKeeps == Synced /\ Upload => Synced'
<1> SUFFICES ASSUME Synced, Upload PROVE Synced'
  OBVIOUS
<1>1. send.step = "upload" /\ send \in SendIs /\ UNCHANGED <<pc, moves>>
  BY SyncedIs DEF Upload, PhoneTypeOK, SendIs
<1>2. /\ send.k \in Sends /\ send.chat \in Chats /\ chatOf[send.k] = send.chat
      /\ jobs[send.k] = "none" /\ \A r \in Kind("post") : r.k # send.k /\ ~r.heard
  BY <1>1 DEF Synced, Sending, Posting
<1>3. UNCHANGED <<conv, log, jobs, chatOf, moves>>
  BY <1>1 DEF pc
<1>4. CASE /\ send' = [send EXCEPT !.step = "post", !.sent = TRUE]
           /\ net' = net \cup {Post(send.k, send.chat)}
           /\ UNCHANGED <<phone, faults>>
  <2>1. send' \in SendIs /\ send'.step = "post" /\ send'.k = send.k /\ send'.chat = send.chat
    BY <1>1, <1>4 DEF SendIs
  <2>2. PICK k \in Sends, c \in Chats : k = send.k /\ c = send.chat
    BY <1>2
  <2>3. /\ jobs[k] = "none" /\ chatOf'[k] = c /\ net' = net \cup {Post(k, c)}
        /\ jobs' = jobs /\ send'.step = "post" /\ send'.k = k
        /\ \A r \in Kind("post") : r.k # k /\ ~r.heard /\ chatOf'[r.k] = chatOf[r.k]
    BY <1>2, <1>3, <1>4, <2>1, <2>2
  <2>4. NetTyped /\ Posting' /\ \A r \in Kind("post")' : r \in Kind("post") \/ r.k = k
    BY <2>3, NewPost
  <2>5. PhoneTypeOK'
    BY <1>3, <1>4, <2>1, <2>4 DEF Synced, PhoneTypeOK, NetTyped, SendIs
  <2>6. Shown(phone)'
    BY <1>3, <1>4 DEF Synced, Shown
  <2>7. Sending'
    BY <1>1, <1>3, <1>4, <2>1 DEF Synced, Sending
  <2>8. ReturnedIsOver'
    <3> SUFFICES ASSUME NEW e \in phone.local, e.delivery = "failed", e.told
                 PROVE  jobs[e.k] \notin Active /\ \A r \in Kind("post")' : r.k # e.k
      BY <1>3, <1>4 DEF ReturnedIsOver
    <3>1. e.k # k
      BY <1>1, <2>2 DEF Synced, Sending
    <3> QED BY <2>4, <3>1 DEF Synced, ReturnedIsOver
  <2> QED BY <2>4, <2>5, <2>6, <2>7, <2>8 DEF Synced
<1>5. ASSUME NEW error, Failed(error), UNCHANGED net, Fault \/ UNCHANGED faults PROVE Synced'
  <2>1. NetTyped
    BY <1>5, SyncedIs DEF NetTyped
  <2>2. Orphans
    BY <1>2, <1>5, UnheardOrphans DEF Kind
  <2>3. jobs[send.k] \notin Active /\ \A r \in Kind("post")' : r.k # send.k
    BY <1>2, <1>5 DEF Kind, Active
  <2> QED BY <1>1, <1>5, <2>1, <2>2, <2>3, FailedKeeps
<1>6. \/ /\ send' = [send EXCEPT !.step = "post", !.sent = TRUE]
         /\ net' = net \cup {Post(send.k, send.chat)}
         /\ UNCHANGED <<phone, faults>>
      \/ \E error \in {"http", "network", "timeout"} :
            Failed(error) /\ UNCHANGED net /\ (Fault \/ UNCHANGED faults)
  BY DEF Upload
<1> QED BY <1>4, <1>5, <1>6

LEMMA PostedKeeps ==
    ASSUME Synced, NEW r \in net, Posted(r), UNCHANGED <<pc, moves, faults>>
    PROVE  Synced'
<1>1. /\ r.kind = "post" /\ r.step # "asked" /\ r.heard /\ net' = net \ {r}
      /\ send.step = "post" /\ send.k = r.k /\ r \in Kind("post")
      /\ \A q \in net : q.kind = "post" /\ q # r => ~q.heard /\ q.k # r.k
  BY HeardPost DEF Posted
<1>2. UNCHANGED <<conv, log, jobs, chatOf>>
  BY DEF pc
<1>3. NetTyped
  BY <1>1, SyncedIs DEF NetTyped
<1>4. \A q \in Kind("post")' : q \in Kind("post") /\ ~q.heard /\ q.k # r.k
  BY <1>1 DEF Kind
<1>5. CASE r.step = "refused"
  <2>1. Failed("http")
    BY <1>5 DEF Posted
  <2>2. Orphans
    BY <1>1, UnheardOrphans
  <2>3. jobs[send.k] \notin Active
    BY <1>1, <1>5 DEF Synced, Posting, Active
  <2> QED BY <1>1, <1>3, <1>4, <2>1, <2>2, <2>3, FailedKeeps
<1>6. CASE r.step = "error"
  <2>1. Failed("server")
    BY <1>6 DEF Posted
  <2>2. Orphans
    BY <1>1, UnheardOrphans
  <2> QED BY <1>1, <1>3, <2>1, <2>2, FailedKeeps
<1>7. CASE r.step \notin {"refused", "error"}
  <2>1. send' = [send EXCEPT !.step = "wait"] /\ phone' = phone
    BY <1>7 DEF Posted
  <2>2. send \in SendIs
    BY SyncedIs DEF PhoneTypeOK, SendIs
  <2>3. send' \in SendIs /\ send'.step = "wait" /\ send'.k = send.k /\ send'.chat = send.chat
    BY <2>1, <2>2 DEF SendIs
  <2>4. PhoneTypeOK'
    BY <1>2, <1>3, <2>1, <2>3 DEF Synced, PhoneTypeOK, NetTyped, SendIs
  <2>5. Shown(phone)'
    BY <1>2, <2>1 DEF Synced, Shown
  <2>6. Sending'
    BY <1>1, <1>2, <1>4, <2>1, <2>3 DEF Synced, Sending
  <2>7. Posting'
    BY <1>2, <1>4 DEF Synced, Posting
  <2>8. ReturnedIsOver'
    BY <1>2, <1>4, <2>1 DEF Synced, ReturnedIsOver
  <2> QED BY <2>4, <2>5, <2>6, <2>7, <2>8 DEF Synced
<1> QED BY <1>5, <1>6, <1>7

(* The call is over, and the list is asked for anew.                       *)
LEMMA IdleNow ==
    ASSUME Synced, send.step = "wait", send' = Idle, UNCHANGED <<pc, moves, faults>>,
           net' = List(FALSE, FALSE, net),
           Shown(phone'), phone' \in Screen, phone'.local \subseteq phone.local
    PROVE  Synced'
<1>1. UNCHANGED <<conv, log, jobs, chatOf, moves, faults>>
  BY DEF pc
<1>2. NetTyped /\ \A r \in net' : r.kind = "post" => r \in net
  BY SyncedIs, ListTypes DEF NetTyped
<1>3. \A r \in net' : r.kind = "post" => r \in net /\ ~r.heard
  BY <1>2 DEF Synced, Posting, Kind
<1>4. Sending' /\ Posting' /\ \A q \in Kind("post")' : \E r \in Kind("post") : q.k = r.k
  BY <1>3, SendOver, UnheardOrphans
<1>5. PhoneTypeOK'
  BY <1>1, <1>2, IdleIs DEF Synced, PhoneTypeOK, NetTyped
<1>6. Shown(phone)'
  BY <1>1 DEF Shown
<1>7. ReturnedIsOver'
  BY <1>1, <1>4 DEF Synced, ReturnedIsOver
<1> QED BY <1>4, <1>5, <1>6, <1>7 DEF Synced

LEMMA SucceededKeeps ==
    ASSUME Synced, send.step = "wait", jobs[send.k] = "done", Succeeded,
           UNCHANGED <<pc, moves, faults>>
    PROVE  Synced'
<1> DEFINE at == CHOOSE i \in DOMAIN log[send.chat] : log[send.chat][i] = send.k
           p == [phone EXCEPT !.task = None, !.listed = @ \cup {send.chat}]
           local == {e \in phone.local : e.k # send.k}
           line == <<<<send.chat, at>>>>
           view == Appended(phone.view, line)
           q == [p EXCEPT !.files = None, !.local = local, !.view = view]
<1>1. send.k \in Sends /\ send.chat \in Chats /\ chatOf[send.k] = send.chat
  BY DEF Synced, Sending
<1>2. UNCHANGED <<conv, log, jobs, chatOf>> /\ send' = Idle /\ net' = List(FALSE, FALSE, net)
  BY DEF pc, Succeeded, Finished
<1>3. at \in Nat
  <2>1. \E i \in DOMAIN log[send.chat] : log[send.chat][i] = send.k
    BY <1>1 DEF Synced, Sending
  <2>2. log[send.chat] \in Seq(Sends \cup {Other})
    BY <1>1, SyncedIs DEF PhoneTypeOK
  <2> QED BY <2>1, <2>2
<1>4. /\ p \in Screen /\ p.view = phone.view /\ p.local = phone.local
      /\ p.selected = phone.selected
  BY <1>1, SyncedIs DEF Screen
<1>5. phone' = IF phone.selected # send.chat THEN p ELSE q
  <2>1. phone' = IF p.selected # send.chat THEN p
                 ELSE [p EXCEPT !.files = None, !.local = {e \in @ : e.k # send.k},
                                !.view = Appended(@, <<<<send.chat, at>>>>)]
    BY DEF Succeeded
  <2> HIDE DEF p, at
  <2> QED BY <1>4, <2>1
<1> HIDE DEF at, p
<1>6. CASE phone.selected # send.chat
  <2>1. Shown(phone') /\ phone' \in Screen /\ phone'.local \subseteq phone.local
    BY <1>4, <1>5, <1>6, SyncedIs, ShownStays
  <2> QED BY <1>2, <2>1, IdleNow
<1>7. CASE phone.selected = send.chat
  <2>1. line \in Seq(Chats \X Nat) /\ Distinct(line) /\ Of(line, send.chat)
    BY <1>1, <1>3 DEF Distinct, Of
  <2> HIDE DEF line
  <2>2. /\ phone.view \in Seq(Chats \X Nat)
        /\ Distinct(phone.view) /\ Of(phone.view, send.chat)
    BY <1>7, SyncedIs DEF Screen, Shown
  <2>3. view \in Seq(Chats \X Nat) /\ Distinct(view) /\ Of(view, send.chat)
    BY <2>1, <2>2, AppendedIs
  <2> HIDE DEF view
  <2>4. local \subseteq phone.local
    OBVIOUS
  <2> HIDE DEF local
  <2>5. /\ q \in Screen /\ q.view = view /\ q.local = local
        /\ q.selected = phone.selected
    BY <1>4, <2>3, <2>4 DEF Screen
  <2> HIDE DEF q
  <2>6. Shown(phone') /\ phone' \in Screen /\ phone'.local \subseteq phone.local
    BY <1>5, <1>7, <2>3, <2>4, <2>5, SyncedIs DEF Shown
  <2> QED BY <1>2, <2>6, IdleNow
<1> QED BY <1>6, <1>7

LEMMA FollowKeeps == Synced /\ Follow => Synced'
<1> SUFFICES ASSUME Synced, Follow PROVE Synced'
  OBVIOUS
<1>1. send.step = "wait" /\ UNCHANGED <<pc, moves>> /\ send.k \in Sends
  BY DEF Follow, Synced, Sending
<1>2. \A r \in net : r.kind = "post" => ~r.heard /\ r.k # send.k
  BY <1>1 DEF Synced, Sending, Posting, Kind
<1>3. CASE phone' = [phone EXCEPT !.task = send.k] /\ UNCHANGED <<send, net, faults>>
  <2>1. /\ phone' \in Screen /\ phone'.view = phone.view /\ phone'.local = phone.local
        /\ phone'.selected = phone.selected
    BY <1>1, <1>3, SyncedIs DEF Screen
  <2>2. Shown(phone')
    BY <2>1, SyncedIs, ShownStays
  <2> QED BY <1>1, <1>3, <2>1, <2>2, SyncedIs, ScreenTypes DEF NetTyped
<1>4. CASE jobs[send.k] = "done" /\ Succeeded /\ UNCHANGED faults
  BY <1>1, <1>4, SucceededKeeps
<1>5. ASSUME NEW error, Failed(error), UNCHANGED net, Fault \/ UNCHANGED faults,
             Uncertain(error) \/ error = "server" \/ jobs[send.k] = "over"
      PROVE  Synced'
  <2>1. NetTyped
    BY <1>5, SyncedIs DEF NetTyped
  <2>2. Orphans
    BY <1>2, <1>5, UnheardOrphans
  <2>3. \A r \in Kind("post")' : r.k # send.k
    BY <1>2, <1>5 DEF Kind
  <2> QED BY <1>1, <1>5, <2>1, <2>2, <2>3, FailedKeeps DEF Active
<1>6. \/ phone' = [phone EXCEPT !.task = send.k] /\ UNCHANGED <<send, net, faults>>
      \/ jobs[send.k] = "done" /\ Succeeded /\ UNCHANGED faults
      \/ \E error \in {"ended", "network", "timeout", "server"} :
            /\ Failed(error) /\ UNCHANGED net /\ (Fault \/ UNCHANGED faults)
            /\ Uncertain(error) \/ error = "server" \/ jobs[send.k] = "over"
  BY DEF Follow, AnswerFails, Uncertain
<1> QED BY <1>3, <1>4, <1>5, <1>6

-----------------------------------------------------------------------------
(* Every step of the phone, of the PC and of the connection.               *)
LEMMA SyncedInit == PhoneInit => Synced
<1> SUFFICES ASSUME PhoneInit PROVE Synced
  OBVIOUS
<1>1. /\ log = [c \in Chats |-> <<>>] /\ jobs = [k \in Sends |-> "none"]
      /\ chatOf = [k \in Sends |-> None] /\ phone = Blank /\ send = Idle
      /\ net = List(TRUE, FALSE, {}) /\ moves = 0 /\ faults = 0
      /\ conv \in [Chats -> {"new", "kept"}]
  BY DEF PhoneInit
<1>2. net = {[kind |-> "list", default |-> TRUE, keep |-> FALSE, current |-> TRUE,
              chats |-> Kept]}
  BY <1>1 DEF List
<1>3. \A r \in net : r \in Lists /\ r.kind = "list"
  <2> DEFINE n == [kind |-> "list", default |-> TRUE, keep |-> FALSE, current |-> TRUE,
                   chats |-> Kept]
  <2>1. Kept \in SUBSET Chats
    BY DEF Kept
  <2>2. n \in Lists /\ n.kind = "list"
    BY <2>1 DEF Lists
  <2>3. net = {n}
    BY <1>2
  <2> HIDE DEF n
  <2> QED BY <2>2, <2>3
<1>4. Kind("post") = {}
  BY <1>3 DEF Kind
<1>5. send.step = "none"
  BY <1>1, IdleIs
<1>6. PhoneTypeOK
  <2>1. conv \in [Chats -> {"new", "kept", "deleted"}]
    BY <1>1
  <2>2. log \in [Chats -> Seq(Sends \cup {Other})]
    <3>1. <<>> \in Seq(Sends \cup {Other})
      OBVIOUS
    <3> QED BY <1>1, <3>1
  <2>3. moves \in 0 .. MaxMoves /\ faults \in 0 .. MaxFaults
    BY <1>1, PhoneAssumption
  <2> QED BY <1>1, <1>3, <2>1, <2>2, <2>3, IdleIs, BlankShown DEF PhoneTypeOK, Requests
<1>7. Shown(phone)
  BY <1>1, BlankShown
<1>8. Sending
  BY <1>1, <1>5 DEF Sending
<1>9. Posting /\ ReturnedIsOver
  BY <1>1, <1>4, BlankShown DEF Posting, ReturnedIsOver
<1> QED BY <1>6, <1>7, <1>8, <1>9 DEF Synced

LEMMA SyncedNext == Synced /\ [PhoneNext]_phoneVars => Synced'
<1> SUFFICES ASSUME Synced, [PhoneNext]_phoneVars PROVE Synced'
  OBVIOUS
<1>1. ASSUME NEW r \in net, Serve(r) PROVE Synced'
  BY <1>1, ServeCreateKeeps, ServeDeleteKeeps, ServePostKeeps DEF Serve
<1>2. ASSUME NEW r \in net, Deliver(r) PROVE Synced'
  BY <1>2, LoadedKeeps, OlderLoadedKeeps, ListedKeeps, PolledKeeps, CreatedKeeps, DeletedKeeps,
     PostedKeeps DEF Deliver
<1>3. ASSUME NEW r \in net, Fails(r) PROVE Synced'
  BY <1>3, FailsKeeps
<1>4. ASSUME NEW k \in Sends, JobStores(k) \/ JobEnds(k) \/ Forgotten(k) PROVE Synced'
  BY <1>4, JobStoresKeeps, JobEndsKeeps, ForgottenKeeps
<1>5. ASSUME NEW c \in Chats, OtherTurn(c) \/ OtherDeletes(c) \/ Choose(c) \/ AskDelete(c)
      PROVE  Synced'
  BY <1>5, OtherTurnKeeps, OtherDeletesKeeps, ChooseKeeps, AskDeleteKeeps
<1>6. CASE Type \/ Send \/ Create \/ LoadOlder \/ AppRestart
  BY <1>6, TypeKeeps, SendKeeps, CreateKeeps, LoadOlderKeeps, AppRestartKeeps
<1>7. CASE Sync \/ Upload \/ Follow
  BY <1>7, SyncKeeps, UploadKeeps, FollowKeeps
<1>8. CASE UNCHANGED phoneVars
  <2>1. UNCHANGED <<conv, log, jobs, chatOf, phone, send, net, moves, faults>>
    BY <1>8 DEF phoneVars
  <2>2. PhoneTypeOK' /\ Shown(phone)' /\ Sending' /\ Posting' /\ ReturnedIsOver'
    BY <2>1 DEF Synced, PhoneTypeOK, Shown, Sending, Posting, ReturnedIsOver, Kind
  <2> QED BY <2>2 DEF Synced
<1> QED BY <1>1, <1>2, <1>3, <1>4, <1>5, <1>6, <1>7, <1>8 DEF PhoneNext

(* The inductive invariant of the phone: the screen shows what is of the   *)
(* open chat; the call of send(), its request and its job agree.           *)
THEOREM SyncedInvariant == PhoneSpec => []Synced
<1> QED BY SyncedInit, SyncedNext, PTL DEF PhoneSpec

(* Requests, screen and PC keep their types.                               *)
THEOREM PhoneTypeCorrect == PhoneSpec => []PhoneTypeOK
<1>1. Synced => PhoneTypeOK
  BY DEF Synced
<1> QED BY <1>1, SyncedInvariant, PTL

(* mergeMessages and reconcileLocalEntries: whatever the order in which    *)
(* the answers come, the screen shows each message once, and those of the  *)
(* chat that is open.                                                      *)
THEOREM NoMixingHolds == PhoneSpec => []NoMixing
<1>1. Synced => NoMixing
  BY DEF Synced, Shown, Distinct, Of, NoMixing
<1> QED BY <1>1, SyncedInvariant, PTL

(* A message that send() gave back to the composer is not, and will not    *)
(* become, a job of the PC.                                                *)
THEOREM ReturnedIsOverHolds == PhoneSpec => []ReturnedIsOver
<1>1. Synced => ReturnedIsOver
  BY DEF Synced
<1> QED BY <1>1, SyncedInvariant, PTL

-----------------------------------------------------------------------------
(* Where the screen goes in a step.                                        *)
Goes == \/ phone'.selected \in {phone.selected, None}
        \/ phone'.draft = None
        \/ \E r \in net : r.kind = "list" /\ r.default /\ Listed(r)

LEMMA ListedGoes == ASSUME Synced, NEW r \in net, Listed(r) PROVE Goes
<1> DEFINE listed == IF r.keep THEN phone.listed \cup r.chats ELSE r.chats
           p == [phone EXCEPT !.listed = listed]
<1>1. \/ phone' \in {phone, p}
      \/ r.default
      \/ phone' = [Emptied(p) EXCEPT !.selected = None]
  BY DEF Listed
<1>2. r \in Lists /\ r.chats \subseteq Chats /\ r.kind = "list"
  BY SyncedIs, RequestIs DEF Listed, Lists
<1>3. listed \in SUBSET Chats
  BY <1>2, SyncedIs DEF Screen
<1> HIDE DEF listed
<1>4. p \in Screen /\ p.selected = phone.selected
  BY <1>3, SyncedIs DEF Screen
<1> HIDE DEF p
<1>5. CASE phone' = [Emptied(p) EXCEPT !.selected = None]
  <2> DEFINE e == Emptied(p)
  <2>1. e \in Screen
    BY <1>4, EmptiedIs
  <2>2. phone' = [e EXCEPT !.selected = None]
    BY <1>5
  <2> HIDE DEF e
  <2>3. phone'.selected = None
    BY <2>1, <2>2 DEF Screen
  <2> QED BY <2>3 DEF Goes
<1> QED BY <1>1, <1>2, <1>4, <1>5 DEF Goes

LEMMA FailedGoes == ASSUME Synced, NEW error, Failed(error) PROVE phone'.selected = phone.selected
<1> DEFINE p == [phone EXCEPT !.task = None]
<1>1. p \in Screen /\ p.selected = phone.selected
  BY SyncedIs DEF Screen
<1>2. \/ phone' = p
      \/ \E files, draft, local :
            phone' = [p EXCEPT !.files = files, !.draft = draft, !.local = local]
  BY DEF Failed
<1> HIDE DEF p
<1> QED BY <1>1, <1>2 DEF Screen

LEMMA PostedGoes == ASSUME Synced, NEW r \in net, Posted(r) PROVE Goes
<1>1. phone' = phone \/ Failed("http") \/ Failed("server")
  BY DEF Posted
<1> QED BY <1>1, FailedGoes DEF Goes

LEMMA FollowGoes == Synced /\ Follow => Goes
<1> SUFFICES ASSUME Synced, Follow PROVE Goes
  OBVIOUS
<1>1. CASE Failed("ended") \/ AnswerFails
  BY <1>1, FailedGoes DEF Goes, AnswerFails
<1>2. CASE phone' = [phone EXCEPT !.task = send.k]
  <2>1. phone'.selected = phone.selected
    BY <1>2, SyncedIs DEF Screen
  <2> QED BY <2>1 DEF Goes
<1>3. CASE Succeeded
  <2> DEFINE p == [phone EXCEPT !.task = None, !.listed = @ \cup {send.chat}]
  <2>1. send.chat \in Chats \cup {None} /\ p.selected = phone.selected
    BY SyncedIs DEF PhoneTypeOK, Screen
  <2>2. \/ phone' = p
        \/ \E files, local, view :
              phone' = [p EXCEPT !.files = files, !.local = local, !.view = view]
    BY <1>3 DEF Succeeded
  <2>3. DOMAIN p = DOMAIN phone
    OBVIOUS
  <2>4. "selected" \in DOMAIN phone
    BY SyncedIs DEF Screen
  <2> HIDE DEF p
  <2>5. phone'.selected = phone.selected
    BY <2>1, <2>2, <2>3, <2>4
  <2> QED BY <2>5 DEF Goes
<1> QED BY <1>1, <1>2, <1>3 DEF Follow

LEMMA DeliverGoes == ASSUME Synced, NEW r \in net, Deliver(r) PROVE Goes
<1>1. CASE Loaded(r)
  <2>1. CASE phone' = [Emptied(phone) EXCEPT !.listed = @ \ {r.chat}, !.selected = None]
    <3> DEFINE e == Emptied(phone)
    <3>1. e \in Screen
      BY SyncedIs, EmptiedIs
    <3>2. phone' = [e EXCEPT !.listed = @ \ {r.chat}, !.selected = None]
      BY <2>1
    <3> HIDE DEF e
    <3>3. phone'.selected = None
      BY <3>1, <3>2 DEF Screen
    <3> QED BY <3>3 DEF Goes
  <2>2. CASE phone' # [Emptied(phone) EXCEPT !.listed = @ \ {r.chat}, !.selected = None]
    <3>1. \/ phone' = phone
          \/ \E view, local, listed, older :
                phone' = [phone EXCEPT !.view = view, !.local = local, !.listed = listed,
                                       !.older = older]
      BY <1>1, <2>2 DEF Loaded
    <3>2. phone'.selected = phone.selected
      BY <3>1, SyncedIs DEF Screen
    <3> QED BY <3>2 DEF Goes
  <2> QED BY <2>1, <2>2
<1>2. CASE OlderLoaded(r)
  <2>1. phone'.selected = phone.selected
    BY <1>2, SyncedIs DEF OlderLoaded, Screen
  <2> QED BY <2>1 DEF Goes
<1>3. CASE Listed(r)
  BY <1>3, ListedGoes
<1>4. CASE Polled(r)
  <2>1. phone'.selected = phone.selected
    BY <1>4, SyncedIs DEF Polled, Screen
  <2> QED BY <2>1 DEF Goes
<1>5. CASE Created(r)
  <2> DEFINE p == [phone EXCEPT !.listed = @ \cup {r.chat}]
  <2>1. r.chat \in Chats
    <3>1. r \in Creates
      BY <1>5, SyncedIs, RequestIs DEF Created
    <3> QED BY <1>5, <3>1 DEF Creates, Created
  <2>2. p \in Screen /\ phone' = Chosen(p, r.chat)
    BY <1>5, <2>1, SyncedIs DEF Screen, Created
  <2> HIDE DEF p
  <2> QED BY <2>1, <2>2, ChosenIs DEF Goes
<1>6. CASE Deleted(r)
  <2> DEFINE rest == (r.was \ {r.chat}) \cup ({r.other} \ {None})
             p == [phone EXCEPT !.listed = rest]
  <2>1. r \in Deletes
    BY <1>6, SyncedIs, RequestIs DEF Deleted
  <2>2. rest \in SUBSET Chats
    BY <2>1 DEF Deletes
  <2> HIDE DEF rest
  <2>3. p \in Screen /\ p.selected = phone.selected
    BY <2>2, SyncedIs DEF Screen
  <2>4. \/ phone' \in {phone, p}
        \/ phone' = [Emptied(p) EXCEPT !.selected = None, !.files = None]
        \/ \E c \in rest : phone' = Chosen(p, c)
    BY <1>6 DEF Deleted, rest
  <2> HIDE DEF p
  <2>5. CASE phone' = [Emptied(p) EXCEPT !.selected = None, !.files = None]
    <3> DEFINE e == Emptied(p)
    <3>1. e \in Screen
      BY <2>3, EmptiedIs
    <3>2. phone' = [e EXCEPT !.selected = None, !.files = None]
      BY <2>5
    <3> HIDE DEF e
    <3>3. phone'.selected = None
      BY <3>1, <3>2 DEF Screen
    <3> QED BY <3>3 DEF Goes
  <2>6. CASE \E c \in rest : phone' = Chosen(p, c)
    BY <2>2, <2>3, <2>6, ChosenIs DEF Goes
  <2> QED BY <2>3, <2>4, <2>5, <2>6 DEF Goes
<1>7. CASE Posted(r)
  BY <1>7, PostedGoes
<1> QED BY <1>1, <1>2, <1>3, <1>4, <1>5, <1>6, <1>7 DEF Deliver

LEMMA PhoneGoes == Synced /\ [PhoneNext]_phoneVars => Goes
<1> SUFFICES ASSUME Synced, [PhoneNext]_phoneVars PROVE Goes
  OBVIOUS
<1>1. ASSUME UNCHANGED phone PROVE Goes
  BY <1>1 DEF Goes
<1>2. ASSUME NEW r \in net, Fails(r) PROVE Goes
  <2>1. UNCHANGED phone \/ \E error \in {"network", "timeout", "server"} : Failed(error)
    BY <1>2 DEF Fails, AnswerFails
  <2> QED BY <1>1, <2>1, FailedGoes DEF Goes
<1>3. ASSUME NEW c \in Chats, Choose(c) PROVE Goes
  BY <1>3, SyncedIs, ChosenIs DEF Choose, Goes
<1>4. CASE Type
  <2>1. phone'.selected = phone.selected
    BY <1>4, SyncedIs DEF Type, Screen
  <2> QED BY <2>1 DEF Goes
<1>5. CASE Send
  <2>1. phone'.draft = None
    BY <1>5, SyncedIs DEF Send, Screen
  <2> QED BY <2>1 DEF Goes
<1>6. CASE AppRestart
  BY <1>6, BlankShown DEF AppRestart, Goes
<1>7. CASE Upload
  <2>1. UNCHANGED phone \/ \E error \in {"http", "network", "timeout"} : Failed(error)
    BY <1>7 DEF Upload
  <2> QED BY <1>1, <2>1, FailedGoes DEF Goes
<1>8. CASE Follow
  BY <1>8, FollowGoes
<1>9. ASSUME NEW r \in net, Serve(r) \/ Deliver(r) PROVE Goes
  BY <1>1, <1>9, DeliverGoes DEF Serve
<1>10. ASSUME NEW k \in Sends, JobStores(k) \/ JobEnds(k) \/ Forgotten(k) PROVE Goes
  BY <1>1, <1>10 DEF JobStores, JobEnds, Forgotten
<1>11. ASSUME NEW c \in Chats, OtherTurn(c) \/ OtherDeletes(c) \/ AskDelete(c) PROVE Goes
  BY <1>1, <1>11 DEF OtherTurn, OtherDeletes, AskDelete
<1>12. CASE Create \/ LoadOlder \/ Sync \/ UNCHANGED phoneVars
  BY <1>1, <1>12 DEF Create, LoadOlder, Sync, phoneVars
<1> QED BY <1>2, <1>3, <1>4, <1>5, <1>6, <1>7, <1>8, <1>9, <1>10, <1>11, <1>12 DEF PhoneNext

(* selectConversation and conversationSelectionAfterList: a text that was  *)
(* begun in a chat stays with it unless the screen was left without a chat *)
(* or the list of conversations chose one by itself.                       *)
THEOREM DraftFollowsHolds == PhoneSpec => DraftFollows
<1> DEFINE Followed ==
       \A c \in Chats : phone.draft = c /\ phone'.draft = c /\ phone.selected = c
         => \/ phone'.selected \in {c, None}
            \/ \E r \in net : r.kind = "list" /\ r.default /\ Listed(r)
<1>1. Synced /\ [PhoneNext]_phoneVars => Followed
  BY PhoneGoes, NoChatApart DEF Goes
<1>2. DraftFollows <=> [][Followed]_phoneVars
  BY DEF DraftFollows
<1> HIDE DEF Followed
<1> QED BY <1>1, <1>2, SyncedInvariant, PTL DEF PhoneSpec
=============================================================================

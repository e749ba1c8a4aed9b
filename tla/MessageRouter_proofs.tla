------------------------ MODULE MessageRouter_proofs ------------------------
(***************************************************************************)
(* Proofs about MessageRouter, for any number of messages, connections and *)
(* restarts and any size of the mailbox.                                   *)
(***************************************************************************)
EXTENDS MessageRouter, TLAPS, FiniteSetTheorems, WellFoundedInduction

(* Most steps are first-order reasoning about sets and functions: Zenon    *)
(* proves them, and the steps that need more say SMT.                      *)
USE Zenon

-----------------------------------------------------------------------------
(* Sequences as sets.                                                      *)
LEMMA SeqDomain == ASSUME NEW T, NEW q \in Seq(T) PROVE DOMAIN q = 1..Len(q)
BY SMT

LEMMA EmptySet == Range(<<>>) = {}
BY SMT DEF Range

LEMMA AppendSet ==
    ASSUME NEW T, NEW q \in Seq(T), NEW m \in T
    PROVE  Append(q, m) \in Seq(T) /\ Range(Append(q, m)) = Range(q) \union {m}
<1>1. Append(q, m) \in Seq(T) /\ Len(Append(q, m)) = Len(q) + 1
  BY SMT
<1>2. \A i \in 1..Len(q) : Append(q, m)[i] = q[i]
  BY SMT
<1>3. Append(q, m)[Len(q) + 1] = m
  BY SMT
<1> QED BY <1>1, <1>2, <1>3, SMT DEF Range

LEMMA SetIsTyped == ASSUME NEW T, NEW q \in Seq(T) PROVE Range(q) \subseteq T
BY SMT DEF Range

LEMMA TailSet ==
    ASSUME NEW T, NEW q \in Seq(T), q # <<>>
    PROVE  Tail(q) \in Seq(T) /\ Head(q) \in T /\ Range(q) = {Head(q)} \union Range(Tail(q))
<1>1. Tail(q) \in Seq(T) /\ Head(q) \in T /\ Len(q) \in Nat \ {0} /\ Len(Tail(q)) = Len(q) - 1
  BY SMT
<1>2. Head(q) = q[1] /\ \A i \in 1..Len(Tail(q)) : Tail(q)[i] = q[i + 1]
  BY SMT
<1>3. Range(q) \subseteq {Head(q)} \union Range(Tail(q))
  <2> SUFFICES ASSUME NEW i \in 1..Len(q), i # 1 PROVE q[i] \in Range(Tail(q))
    BY <1>1, <1>2, SMT DEF Range
  <2>1. i - 1 \in 1..Len(Tail(q)) /\ Tail(q)[i - 1] = q[i]
    BY <1>1, <1>2, SMT
  <2> QED BY <1>1, <2>1, SeqDomain DEF Range
<1>4. {Head(q)} \union Range(Tail(q)) \subseteq Range(q)
  <2>1. \A i \in 1..Len(Tail(q)) : i + 1 \in 1..Len(q) /\ Tail(q)[i] = q[i + 1]
    BY <1>1, <1>2, SMT
  <2>2. 1 \in 1..Len(q)
    BY <1>1, SMT
  <2> QED BY <1>1, <1>2, <2>1, <2>2, SMT DEF Range
<1> QED BY <1>1, <1>3, <1>4

LEMMA ConcatSet ==
    ASSUME NEW T, NEW p \in Seq(T), NEW q \in Seq(T)
    PROVE  p \o q \in Seq(T) /\ Range(p \o q) = Range(p) \union Range(q)
<1>1. p \o q \in Seq(T) /\ Len(p \o q) = Len(p) + Len(q)
  BY SMT
<1>2. \A i \in 1..Len(p) : i \in 1..Len(p \o q) /\ (p \o q)[i] = p[i]
  BY SMT
<1>3. \A i \in 1..Len(q) : Len(p) + i \in 1..Len(p \o q) /\ (p \o q)[Len(p) + i] = q[i]
  BY SMT
<1>4. ASSUME NEW i \in 1..Len(p \o q), i \notin 1..Len(p)
      PROVE  i - Len(p) \in 1..Len(q) /\ (p \o q)[i] = q[i - Len(p)]
  BY <1>1, <1>4, SMT
<1>5. Range(p \o q) \subseteq Range(p) \union Range(q)
  BY <1>1, <1>2, <1>4, SMT DEF Range
<1>6. Range(p) \union Range(q) \subseteq Range(p \o q)
  BY <1>1, <1>2, <1>3, SeqDomain, ZenonT(30) DEF Range
<1> QED BY <1>1, <1>5, <1>6

LEMMA SplitSet ==
    ASSUME NEW T, NEW q \in Seq(T), NEW k \in 1..Len(q)
    PROVE  /\ SubSeq(q, 1, k) \in Seq(T) /\ SubSeq(q, k + 1, Len(q)) \in Seq(T)
           /\ Range(q) = Range(SubSeq(q, 1, k)) \union Range(SubSeq(q, k + 1, Len(q)))
<1>1. /\ SubSeq(q, 1, k) \in Seq(T) /\ SubSeq(q, k + 1, Len(q)) \in Seq(T)
      /\ Len(SubSeq(q, 1, k)) = k /\ Len(SubSeq(q, k + 1, Len(q))) = Len(q) - k
  BY SMT
<1>2. /\ \A i \in 1..k : SubSeq(q, 1, k)[i] = q[i]
      /\ \A i \in 1..(Len(q) - k) : SubSeq(q, k + 1, Len(q))[i] = q[k + i]
  BY SMT
<1>3. q = SubSeq(q, 1, k) \o SubSeq(q, k + 1, Len(q))
  BY <1>1, <1>2, SMT
<1>4. PICK a, b \in Seq(T) : a = SubSeq(q, 1, k) /\ b = SubSeq(q, k + 1, Len(q))
  BY <1>1
<1>5. Range(a \o b) = Range(a) \union Range(b)
  BY ConcatSet, ZenonT(30)
<1> QED BY <1>3, <1>4, <1>5

-----------------------------------------------------------------------------
(* Every finite set of numbers can be listed in order.  A smallest set     *)
(* that could not would give one with its minimum removed.                 *)
Lists(q, S) ==
    /\ q \in [1..Cardinality(S) -> S]
    /\ \A x \in S : \E i \in DOMAIN q : q[i] = x
    /\ \A i, j \in DOMAIN q : i < j => q[i] < q[j]

LEMMA LeastNumber ==
    ASSUME NEW S \in SUBSET Nat, S # {}
    PROVE  \E x \in S : \A y \in S : x <= y
<1>1. PICK x \in S : \A y \in S : ~(<<y, x>> \in OpToRel(<, Nat))
  BY NatLessThanWellFounded, WFMin
<1>2. ASSUME NEW y \in S PROVE x <= y
  <2>1. <<y, x>> \in Nat \X Nat /\ <<y, x>>[1] = y /\ <<y, x>>[2] = x /\ x \in Nat /\ y \in Nat
    BY SMT
  <2>2. ~(y < x)
    BY <1>1, <2>1, SMT DEF OpToRel
  <2> QED BY <2>1, <2>2, SMT
<1> QED BY <1>2

LEMMA FiniteIsListed ==
    ASSUME NEW S \in SUBSET Nat, IsFiniteSet(S)
    PROVE  \E q : Lists(q, S)
<1> DEFINE Unlisted(n) == \E U \in SUBSET Nat :
                IsFiniteSet(U) /\ Cardinality(U) = n /\ ~\E q : Lists(q, U)
           B == {n \in Nat : Unlisted(n)}
<1> SUFFICES ASSUME B # {} PROVE FALSE
  <2>1. Cardinality(S) \in Nat
    BY FS_CardinalityType
  <2> QED BY <2>1
<1>1. PICK n \in B : \A k \in B : n <= k
  BY LeastNumber
<1>2. PICK U \in SUBSET Nat : IsFiniteSet(U) /\ Cardinality(U) = n /\ ~\E q : Lists(q, U)
  BY <1>1
<1>3. U # {}
  <2>1. ASSUME U = {} PROVE Lists(<<>>, U)
    <3>1. Cardinality(U) = 0
      BY <2>1, FS_EmptySet
    <3> QED BY <2>1, <3>1, SMT DEF Lists
  <2> QED BY <1>2, <2>1
<1>4. PICK x \in U : \A y \in U : x <= y
  BY <1>3, LeastNumber
<1> DEFINE V == U \ {x}
<1>5. IsFiniteSet(V) /\ Cardinality(V) = n - 1 /\ n \in Nat /\ n # 0
  <2>1. IsFiniteSet(V) /\ Cardinality(V) = n - 1
    BY <1>2, FS_RemoveElement, SMT
  <2>2. n \in Nat /\ n # 0
    BY <1>2, <1>3, FS_EmptySet
  <2> QED BY <2>1, <2>2
<1>6. PICK q : Lists(q, V)
  <2>1. n - 1 \in Nat /\ ~(n <= n - 1)
    BY <1>5, SMT
  <2>2. n - 1 \notin B
    BY <1>1, <2>1
  <2>3. V \in SUBSET Nat
    OBVIOUS
  <2> QED BY <1>5, <2>1, <2>2, <2>3
<1> DEFINE r == [i \in 1..n |-> IF i = 1 THEN x ELSE q[i - 1]]
<1>7. Lists(r, U)
  <2>1. q \in [1..(n - 1) -> V] /\ DOMAIN q = 1..(n - 1)
    BY <1>5, <1>6 DEF Lists
  <2>2. \A i \in 1..n : i # 1 => i - 1 \in 1..(n - 1)
    BY <1>5, SMT
  <2>3. r \in [1..n -> U]
    <3>1. \A i \in 1..n : i # 1 => q[i - 1] \in V
      BY <2>1, <2>2
    <3> QED BY <3>1
  <2>4. \A y \in U : \E i \in 1..n : r[i] = y
    <3> SUFFICES ASSUME NEW y \in U PROVE \E i \in 1..n : r[i] = y
      OBVIOUS
    <3>1. CASE y = x
      BY <1>5, <3>1, SMT
    <3>2. CASE y # x
      <4>1. PICK i \in 1..(n - 1) : q[i] = y
        BY <1>6, <2>1, <3>2 DEF Lists
      <4>2. i + 1 \in 1..n /\ i + 1 # 1 /\ (i + 1) - 1 = i
        BY <1>5, SMT
      <4> QED BY <4>1, <4>2
    <3> QED BY <3>1, <3>2
  <2>5. ASSUME NEW i \in 1..n, NEW j \in 1..n, i < j PROVE r[i] < r[j]
    <3>1. j # 1 /\ j - 1 \in 1..(n - 1) /\ r[j] = q[j - 1] /\ q[j - 1] \in V
      BY <1>5, <2>1, <2>2, <2>5, SMT
    <3>2. CASE i = 1
      <4>1. r[i] = x /\ x <= q[j - 1] /\ x # q[j - 1] /\ x \in Nat /\ q[j - 1] \in Nat
        BY <1>4, <3>1, <3>2
      <4> QED BY <3>1, <4>1, SMT
    <3>3. CASE i # 1
      <4>1. i - 1 \in 1..(n - 1) /\ r[i] = q[i - 1] /\ i - 1 < j - 1
        BY <1>5, <2>2, <2>5, <3>3, SMT
      <4> QED BY <1>6, <2>1, <3>1, <4>1 DEF Lists
    <3> QED BY <3>2, <3>3
  <2>6. DOMAIN r = 1..n
    OBVIOUS
  <2> QED BY <1>2, <2>3, <2>4, <2>5, <2>6 DEF Lists
<1> QED BY <1>2, <1>7

LEMMA InOrderFacts ==
    ASSUME NEW S \in SUBSET Nat, IsFiniteSet(S)
    PROVE  InOrder(S) \in Seq(S) /\ Range(InOrder(S)) = S
<1>1. Lists(InOrder(S), S)
  BY FiniteIsListed DEF InOrder, Lists
<1>2. Cardinality(S) \in Nat
  BY FS_CardinalityType
<1>3. InOrder(S) \in Seq(S)
  BY <1>1, <1>2, SMT DEF Lists
<1> QED BY <1>1, <1>3 DEF Lists, Range

LEMMA OutsideFacts ==
    ASSUME NEW T, NEW q \in Seq(T), NEW S
    PROVE  Outside(q, S) \in Seq(T) /\ Range(Outside(q, S)) = Range(q) \ S
<1> DEFINE P == {i \in DOMAIN q : q[i] \notin S}
           at == InOrder(P)
<1>1. DOMAIN q = 1..Len(q) /\ Len(q) \in Nat /\ \A i \in DOMAIN q : q[i] \in T
  BY SMT
<1>2. P \in SUBSET Nat /\ IsFiniteSet(P)
  <2>1. 1..Len(q) \subseteq Nat /\ IsFiniteSet(1..Len(q))
    BY <1>1, FS_Interval, SMT
  <2> QED BY <1>1, <2>1, FS_Subset
<1>3. at \in Seq(P) /\ Range(at) = P
  BY <1>2, InOrderFacts
<1>4. Outside(q, S) = [n \in DOMAIN at |-> q[at[n]]]
  BY DEF Outside
<1> HIDE DEF at
<1>5. DOMAIN at = 1..Len(at) /\ Len(at) \in Nat /\ \A n \in DOMAIN at : at[n] \in P
  BY <1>3, SMT
<1>6. Outside(q, S) \in Seq(T)
  BY <1>1, <1>4, <1>5, SMT
<1>7. Range(Outside(q, S)) = {q[i] : i \in P}
  <2>1. P = {at[n] : n \in DOMAIN at}
    BY <1>3 DEF Range
  <2>2. Range(Outside(q, S)) = {q[at[n]] : n \in DOMAIN at}
    BY <1>4, SMT DEF Range
  <2> HIDE DEF P
  <2> QED BY <2>1, <2>2
<1> QED BY <1>6, <1>7 DEF Range

-----------------------------------------------------------------------------
(* The inductive invariant.  The mailbox and what is kept next to it: an   *)
(* acknowledged message is not tracked and has no row to come back from.   *)
BoxOK ==
    /\ mailbox \in Seq(Msgs) /\ unacked \in Seq(Msgs) /\ dead \subseteq Msgs /\ processed \subseteq Msgs
    /\ stored \in [Msgs -> {"none", "mail", "dead"}]
    /\ \A m \in processed : stored[m] # "mail"
    /\ AckedIsNotReplayed /\ RestartRevivesNothing

(* The connections: one not yet opened has nothing queued.                 *)
SendType == [msg : Msgs, conn : Conns, by : Conns \union {NoConn}, retry : BOOLEAN, written : BOOLEAN]
ConnOK ==
    /\ current \in Conns \union {NoConn} /\ queued \in [Conns -> Seq(Msgs)] /\ sends \subseteq SendType
    /\ offered \in [Conns -> SUBSET Msgs] /\ received \subseteq Msgs
    /\ \A c \in Conns : c > opened => queued[c] = <<>>

(* The workers.                                                            *)
WorkerOK ==
    /\ handlers \subseteq 1..opened /\ alive \subseteq {opened}
    /\ wire \in [Conns -> SUBSET Msgs] /\ acks \in [Conns -> SUBSET Msgs]
    /\ \A c \in Conns \ alive : wire[c] = {}
    /\ opened \in 0..MaxConns
CountOK == sent \in 0..MaxMessages /\ restarts \in 0..MaxRestarts

(* What is already offered: all that was written, is on its way to the     *)
(* worker or back from it, or has been acknowledged.                       *)
OfferedFirst ==
    /\ \A s \in sends : s.written => s.msg \in offered[s.conn]
    /\ \A c \in Conns : wire[c] \subseteq offered[c] /\ acks[c] \subseteq offered[c]
    /\ \A m \in processed : \E c \in Conns : m \in offered[c]

(* Where the messages are that were unacknowledged when connection c was   *)
(* registered, or have become so since.                                    *)
CoveredBy(c, m) ==
    \/ m \in offered[c] \/ m \in Range(queued[c]) \/ \E s \in sends : s.conn = c /\ s.msg = m
    \/ m \in Range(mailbox) \/ m \in received \/ m \in dead
CurrentIsCovered == current # NoConn => \A m \in Range(unacked) : CoveredBy(current, m)

IndInv == BoxOK /\ ConnOK /\ WorkerOK /\ CountOK /\ OfferedFirst /\ CurrentIsCovered

(* What is in the keeping of the router, spelled out.                      *)
Held(m) ==
    \/ m \in Range(mailbox) \/ m \in Range(unacked) \/ m \in dead \/ m \in received
    \/ \E s \in sends : s.msg = m
    \/ \E c \in Conns : m \in Range(queued[c])
    \/ \E c \in Conns : m \in offered[c]

LEMMA KnownIsHeld ==
    /\ \A m : m \in Known <=> Held(m)
    /\ \A m : m \in Known' <=> Held(m)'
<1>1. \A m : m \in Known <=> Held(m)
  BY DEF Known, InHand, Held
<1>2. \A m : m \in Known' <=> Held(m)'
  BY DEF Known, InHand, Held
<1> QED BY <1>1, <1>2

(* The step of KeepsMessages.                                              *)
Keeps == restarts' = restarts => Known \union ((1..sent') \ (1..sent)) \subseteq Known'

LEMMA KeepsIfHeld ==
    ASSUME sent' = sent, \A m : Held(m) => Held(m)'
    PROVE  Keeps
BY KnownIsHeld DEF Keeps

LEMMA ConstantFacts ==
    /\ NoConn \notin Conns /\ Conns \subseteq Nat
    /\ Msgs \subseteq Nat /\ IsFiniteSet(Msgs)
<1>1. NoConn \notin Conns /\ Conns \subseteq Nat /\ Msgs \subseteq Nat
  BY BoundsAreTyped, SMT DEF NoConn, Conns, Msgs
<1>2. IsFiniteSet(Msgs)
  BY BoundsAreTyped, FS_Interval, SMT DEF Msgs
<1> QED BY <1>1, <1>2

LEMMA CallFacts ==
    ASSUME NEW m \in Msgs, NEW c \in Conns, NEW by \in Conns \union {NoConn}, NEW b \in BOOLEAN
    PROVE  /\ Call(m, c, by, b) \in SendType /\ Call(m, c, by, b).msg = m
           /\ Call(m, c, by, b).conn = c /\ ~Call(m, c, by, b).written
BY DEF Call, SendType

LEMMA WrittenFacts ==
    ASSUME NEW s \in SendType
    PROVE  /\ [s EXCEPT !.written = TRUE] \in SendType /\ [s EXCEPT !.written = TRUE].msg = s.msg
           /\ [s EXCEPT !.written = TRUE].conn = s.conn
BY DEF SendType

(* _enqueue_locked, for a message that was not acknowledged.               *)
Requeued(m) ==
    \E lost \in SUBSET Msgs :
        /\ mailbox' \in Seq(Msgs) /\ unacked' \in Seq(Msgs)
        /\ Range(mailbox) \subseteq Range(mailbox') \union lost /\ m \in Range(mailbox')
        /\ dead' = dead \union lost /\ Range(unacked') = Range(unacked) \union {m}
        /\ processed' = processed /\ stored' \in [Msgs -> {"none", "mail", "dead"}]
        /\ \A x \in Msgs : stored'[x] = "mail" => x = m \/ (stored[x] = "mail" /\ x \notin lost)

LEMMA EnqueueEffect ==
    ASSUME BoxOK, NEW m \in Msgs, Enqueue(m)
    PROVE  IF m \in processed THEN UNCHANGED boxVars ELSE Requeued(m)
<1> SUFFICES ASSUME m \notin processed PROVE Requeued(m)
  BY DEF Enqueue, IsDuplicate
<1>1. mailbox \in Seq(Msgs) /\ unacked \in Seq(Msgs) /\ stored \in [Msgs -> {"none", "mail", "dead"}]
  BY DEF BoxOK
<1>2. PICK kept, lost :
        /\ kept = IF Full THEN Tail(mailbox) ELSE mailbox
        /\ lost = IF Full THEN {Head(mailbox)} ELSE {}
        /\ mailbox' = Append(kept, m) /\ dead' = dead \union lost
        /\ unacked' = IF m \in Range(unacked) THEN unacked ELSE Append(unacked, m)
        /\ stored' = [x \in Msgs |-> IF x = m THEN "mail" ELSE IF x \in lost THEN "dead" ELSE stored[x]]
        /\ processed' = processed
  BY ZenonT(60) DEF Enqueue, IsDuplicate
<1>3. kept \in Seq(Msgs) /\ lost \subseteq Msgs /\ Range(mailbox) \subseteq Range(kept) \union lost
  <2>1. Full => mailbox # <<>>
    BY <1>1, BoundsAreTyped, SMT DEF Full
  <2> QED BY <1>1, <1>2, <2>1, TailSet
<1>4. mailbox' \in Seq(Msgs) /\ Range(mailbox') = Range(kept) \union {m}
  <2>1. Append(kept, m) \in Seq(Msgs) /\ Range(Append(kept, m)) = Range(kept) \union {m}
    BY <1>3, AppendSet, SMT
  <2> QED BY <1>2, <2>1
<1>5. unacked' \in Seq(Msgs) /\ Range(unacked') = Range(unacked) \union {m}
  <2>1. Append(unacked, m) \in Seq(Msgs) /\ Range(Append(unacked, m)) = Range(unacked) \union {m}
    BY <1>1, AppendSet, SMT
  <2> QED BY <1>1, <1>2, <2>1
<1>6. /\ stored' \in [Msgs -> {"none", "mail", "dead"}]
      /\ \A x \in Msgs : stored'[x] = "mail" => x = m \/ (stored[x] = "mail" /\ x \notin lost)
  BY <1>1, <1>2, SMT
<1> QED BY <1>2, <1>3, <1>4, <1>5, <1>6 DEF Requeued
(* What a call of it keeps, whatever becomes of the message.               *)
LEMMA EnqueueKeeps ==
    ASSUME BoxOK, NEW m \in Msgs, Enqueue(m)
    PROVE  /\ BoxOK' /\ processed' = processed
           /\ dead \subseteq dead' /\ Range(mailbox) \subseteq Range(mailbox') \union dead'
           /\ Range(unacked) \subseteq Range(unacked')
           /\ Range(unacked') \subseteq Range(unacked) \union Range(mailbox')
           /\ m \in processed \/ m \in Range(mailbox')
<1>1. CASE m \in processed
  BY <1>1, EnqueueEffect DEF BoxOK, boxVars, AckedIsNotReplayed, RestartRevivesNothing
<1>2. CASE m \notin processed
  <2>1. PICK lost \in SUBSET Msgs :
        /\ mailbox' \in Seq(Msgs) /\ unacked' \in Seq(Msgs)
        /\ Range(mailbox) \subseteq Range(mailbox') \union lost /\ m \in Range(mailbox')
        /\ dead' = dead \union lost /\ Range(unacked') = Range(unacked) \union {m}
        /\ processed' = processed /\ stored' \in [Msgs -> {"none", "mail", "dead"}]
        /\ \A x \in Msgs : stored'[x] = "mail" => x = m \/ (stored[x] = "mail" /\ x \notin lost)
    BY <1>2, EnqueueEffect DEF Requeued
  <2>2. AckedIsNotReplayed'
    BY <1>2, <2>1 DEF BoxOK, AckedIsNotReplayed
  <2>3. RestartRevivesNothing'
    BY <2>1 DEF BoxOK, RestartRevivesNothing
  <2>4. \A x \in processed' : stored'[x] # "mail"
    BY <1>2, <2>1 DEF BoxOK
  <2>5. dead' \subseteq Msgs /\ processed' \subseteq Msgs
    BY <2>1 DEF BoxOK
  <2>6. BoxOK'
    BY <2>1, <2>2, <2>3, <2>4, <2>5 DEF BoxOK
  <2> QED BY <2>1, <2>6
<1> QED BY <1>1, <1>2

-----------------------------------------------------------------------------
(* One lemma for each action: it keeps the invariant and the messages.     *)
LEMMA RouteKeeps == ASSUME IndInv, NEW m \in Msgs, Route(m) PROVE IndInv' /\ Keeps
<1>1. /\ m = sent + 1 /\ sent' = m
      /\ UNCHANGED <<current, queued, handlers, alive, wire, acks, opened, offered, received, restarts>>
  BY DEF Route, workerVars, history
<1>2. WorkerOK' /\ CountOK'
  <2>1. CountOK'
    BY <1>1, BoundsAreTyped, SMT DEF IndInv, CountOK, Msgs
  <2> QED BY <1>1, <2>1 DEF IndInv, WorkerOK
<1>3. \A x : x \in (1..sent') \ (1..sent) => x = m
  BY <1>1, SMT DEF IndInv, CountOK
<1>4. CASE current = NoConn
  <2>1. Enqueue(m) /\ sends' = sends
    BY <1>4 DEF Route
  <2>2. /\ BoxOK' /\ processed' = processed
        /\ dead \subseteq dead' /\ Range(mailbox) \subseteq Range(mailbox') \union dead'
        /\ Range(unacked) \subseteq Range(unacked') /\ (m \in processed \/ m \in Range(mailbox'))
    BY <2>1, EnqueueKeeps DEF IndInv
  <2>3. ConnOK' /\ OfferedFirst' /\ CurrentIsCovered'
    BY <1>1, <1>4, <2>1, <2>2 DEF IndInv, ConnOK, OfferedFirst, CurrentIsCovered
  <2>4. Held(m)'
    BY <1>1, <2>2 DEF Held, IndInv, OfferedFirst
  <2>5. \A x : Held(x) => Held(x)'
    BY <1>1, <2>1, <2>2 DEF Held
  <2>6. Keeps
    BY <1>3, <2>4, <2>5, KnownIsHeld DEF Keeps
  <2> QED BY <1>2, <2>2, <2>3, <2>6 DEF IndInv
<1>5. CASE current # NoConn
  <2>1. PICK s : /\ s = Call(m, current, NoConn, FALSE) /\ sends' = sends \union {s}
                 /\ s \in SendType /\ s.msg = m /\ ~s.written
    <3>1. current \in Conns
      BY <1>5 DEF IndInv, ConnOK
    <3> QED BY <1>5, <3>1, CallFacts, ZenonT(60) DEF Route
  <2>2. UNCHANGED boxVars
    BY <1>5 DEF Route
  <2>3. BoxOK' /\ ConnOK'
    BY <1>1, <2>1, <2>2 DEF IndInv, BoxOK, ConnOK, boxVars, AckedIsNotReplayed, RestartRevivesNothing
  <2>4. OfferedFirst'
    BY <1>1, <2>1, <2>2 DEF IndInv, OfferedFirst, boxVars
  <2>5. CurrentIsCovered'
    BY <1>1, <2>1, <2>2 DEF IndInv, CurrentIsCovered, CoveredBy, boxVars
  <2>6. Held(m)' /\ \A x : Held(x) => Held(x)'
    BY <1>1, <2>1, <2>2 DEF Held, boxVars
  <2>7. Keeps
    BY <1>3, <2>6, KnownIsHeld DEF Keeps
  <2> QED BY <1>2, <2>3, <2>4, <2>5, <2>7 DEF IndInv
<1> QED BY <1>4, <1>5

LEMMA WriteKeeps == ASSUME IndInv, NEW s \in sends, Write(s) PROVE IndInv' /\ Keeps
<1>1. /\ UNCHANGED <<mailbox, dead, unacked, processed, stored, current, queued, handlers, alive, acks>>
      /\ UNCHANGED <<opened, sent, received, restarts>>
      /\ wire' = [wire EXCEPT ![s.conn] = IF s.conn \in alive THEN @ \union {s.msg} ELSE @]
      /\ offered' = [offered EXCEPT ![s.conn] = @ \union {s.msg}]
  BY DEF Write, boxVars
<1>2. PICK w : sends' = (sends \ {s}) \union {w} /\ w \in SendType /\ w.msg = s.msg /\ w.conn = s.conn
  <2>1. s \in SendType
    BY DEF IndInv, ConnOK
  <2> QED BY <2>1, WrittenFacts DEF Write
<1>3. s.conn \in Conns /\ s.msg \in Msgs
  BY DEF IndInv, ConnOK, SendType
<1>4. (\A c \in Conns : offered[c] \subseteq offered'[c]) /\ s.msg \in offered'[s.conn]
  BY <1>1, <1>3 DEF IndInv, ConnOK
<1>5. \A c \in Conns : wire'[c] = IF c = s.conn /\ s.conn \in alive THEN wire[c] \union {s.msg} ELSE wire[c]
  BY <1>1, <1>3 DEF IndInv, WorkerOK
<1>6. BoxOK' /\ CountOK'
  BY <1>1 DEF IndInv, BoxOK, CountOK, AckedIsNotReplayed, RestartRevivesNothing
<1>7. ConnOK'
  <2>1. offered' \in [Conns -> SUBSET Msgs]
    BY <1>1, <1>3 DEF IndInv, ConnOK
  <2> QED BY <1>1, <1>2, <2>1 DEF IndInv, ConnOK
<1>8. WorkerOK'
  <2>1. wire' \in [Conns -> SUBSET Msgs]
    BY <1>1, <1>3 DEF IndInv, WorkerOK
  <2> QED BY <1>1, <1>5, <2>1 DEF IndInv, WorkerOK
<1>9. OfferedFirst'
  <2>1. \A x \in sends' : x.written => x.msg \in offered'[x.conn]
    <3>1. \A x \in sends : x.conn \in Conns
      BY DEF IndInv, ConnOK, SendType
    <3> QED BY <1>2, <1>4, <3>1 DEF IndInv, OfferedFirst
  <2>2. \A c \in Conns : wire'[c] \subseteq offered'[c] /\ acks'[c] \subseteq offered'[c]
    BY <1>1, <1>4, <1>5, SMT DEF IndInv, OfferedFirst
  <2>3. \A m \in processed' : \E c \in Conns : m \in offered'[c]
    BY <1>1, <1>4 DEF IndInv, OfferedFirst
  <2> QED BY <2>1, <2>2, <2>3 DEF OfferedFirst
<1>10. CurrentIsCovered'
  <2>1. current \in Conns => \A m : CoveredBy(current, m) => CoveredBy(current, m)'
    BY <1>1, <1>2, <1>4 DEF CoveredBy
  <2> QED BY <1>1, <2>1 DEF IndInv, CurrentIsCovered, ConnOK
<1>11. \A m : Held(m) => Held(m)'
  BY <1>1, <1>2, <1>4 DEF Held
<1> QED BY <1>1, <1>6, <1>7, <1>8, <1>9, <1>10, <1>11, KeepsIfHeld DEF IndInv

LEMMA SendOkKeeps == ASSUME IndInv, NEW s \in sends, SendOk(s) PROVE IndInv' /\ Keeps
<1>1. /\ UNCHANGED <<mailbox, dead, unacked, processed, stored, current, queued, handlers, alive, wire>>
      /\ UNCHANGED <<acks, opened, sent, offered, received, restarts>>
      /\ s.written /\ sends' = sends \ {s}
  BY DEF SendOk, boxVars, workerVars, history
<1>2. BoxOK' /\ ConnOK' /\ WorkerOK' /\ CountOK' /\ OfferedFirst'
  BY <1>1 DEF IndInv, BoxOK, ConnOK, WorkerOK, CountOK, OfferedFirst, AckedIsNotReplayed, RestartRevivesNothing
<1>3. s.msg \in offered[s.conn] /\ s.conn \in Conns
  BY <1>1 DEF IndInv, OfferedFirst, ConnOK, SendType
<1>4. CurrentIsCovered'
  BY <1>1, <1>3 DEF IndInv, CurrentIsCovered, CoveredBy
<1>5. \A m : Held(m) => Held(m)'
  BY <1>1, <1>3 DEF Held
<1> QED BY <1>1, <1>2, <1>4, <1>5, KeepsIfHeld DEF IndInv

LEMMA SendFailsKeeps == ASSUME IndInv, NEW s \in sends, SendFails(s) PROVE IndInv' /\ Keeps
<1> DEFINE now == IF current = s.conn THEN NoConn ELSE current
<1>1. /\ UNCHANGED <<queued, handlers, alive, wire, opened, sent, offered, received, restarts>>
      /\ current' = now /\ RetryOrRequeue(s, now) /\ acks' = [acks EXCEPT ![s.conn] = {}]
  BY DEF SendFails, history
<1>2. s.conn \in Conns /\ s.msg \in Msgs /\ s.by \in Conns \union {NoConn}
  BY DEF IndInv, ConnOK, SendType
<1>3. now \in Conns \union {NoConn} /\ (now # NoConn => now = current /\ s.conn # current)
  BY DEF IndInv, ConnOK
<1>4. acks' \in [Conns -> SUBSET Msgs] /\ \A c \in Conns : acks'[c] \subseteq acks[c]
  BY <1>1, <1>2 DEF IndInv, WorkerOK
<1>5. WorkerOK' /\ CountOK'
  BY <1>1, <1>4 DEF IndInv, WorkerOK, CountOK
<1> HIDE DEF now
<1>6. CASE now # NoConn /\ ~s.retry
  <2>1. UNCHANGED <<mailbox, dead, unacked, processed, stored>>
    BY <1>1, <1>6 DEF RetryOrRequeue, boxVars
  <2>2. PICK w : sends' = (sends \ {s}) \union {w} /\ w \in SendType /\ w.msg = s.msg /\ ~w.written
    <3>1. now \in Conns
      BY <1>3, <1>6
    <3>2. sends' = (sends \ {s}) \union {Call(s.msg, now, s.by, TRUE)}
      BY <1>1, <1>6 DEF RetryOrRequeue
    <3> QED BY <1>2, <3>1, <3>2, CallFacts
  <2>3. BoxOK' /\ ConnOK'
    BY <1>1, <1>3, <2>1, <2>2 DEF IndInv, BoxOK, ConnOK, AckedIsNotReplayed, RestartRevivesNothing
  <2>4. OfferedFirst'
    BY <1>1, <1>4, <2>1, <2>2 DEF IndInv, OfferedFirst
  <2>5. CurrentIsCovered'
    BY <1>1, <1>3, <1>6, <2>1, <2>2 DEF IndInv, CurrentIsCovered, CoveredBy
  <2>6. \A m : Held(m) => Held(m)'
    BY <1>1, <2>1, <2>2 DEF Held
  <2> QED BY <1>1, <1>5, <2>3, <2>4, <2>5, <2>6, KeepsIfHeld DEF IndInv
<1>7. CASE ~(now # NoConn /\ ~s.retry)
  <2>1. Enqueue(s.msg) /\ sends' = sends \ {s}
    BY <1>1, <1>7 DEF RetryOrRequeue
  <2>2. /\ BoxOK' /\ processed' = processed
        /\ dead \subseteq dead' /\ Range(mailbox) \subseteq Range(mailbox') \union dead'
        /\ Range(unacked) \subseteq Range(unacked')
        /\ Range(unacked') \subseteq Range(unacked) \union Range(mailbox')
        /\ s.msg \in processed \/ s.msg \in Range(mailbox')
    BY <1>2, <2>1, EnqueueKeeps DEF IndInv
  <2>3. ConnOK' /\ OfferedFirst'
    BY <1>1, <1>3, <1>4, <2>1, <2>2 DEF IndInv, ConnOK, OfferedFirst
  <2>4. CurrentIsCovered'
    <3> SUFFICES ASSUME now # NoConn, NEW m \in Range(unacked') PROVE CoveredBy(current, m)'
      BY <1>1, <1>3 DEF CurrentIsCovered
    <3>1. CASE m \in Range(mailbox')
      BY <3>1 DEF CoveredBy
    <3>2. CASE m \in Range(unacked)
      <4>1. CoveredBy(current, m) /\ s.conn # current /\ current' = current
        BY <1>1, <1>3, <3>2 DEF IndInv, CurrentIsCovered
      <4> QED BY <1>1, <2>1, <2>2, <4>1 DEF CoveredBy
    <3> QED BY <2>2, <3>1, <3>2
  <2>5. Held(s.msg)'
    BY <1>1, <2>2 DEF Held, IndInv, OfferedFirst
  <2>6. \A m : Held(m) => Held(m)'
    BY <1>1, <2>1, <2>2, <2>5 DEF Held
  <2> QED BY <1>1, <1>5, <2>2, <2>3, <2>4, <2>6, KeepsIfHeld DEF IndInv
<1> QED BY <1>6, <1>7

(* Steps that touch neither messages nor connections but the current one.  *)
LEMMA DisconnectKeeps ==
    ASSUME IndInv, current' \in {current, NoConn}, handlers' \subseteq handlers,
           acks' \in [Conns -> SUBSET Msgs], \A c \in Conns : acks'[c] \subseteq acks[c],
           UNCHANGED <<mailbox, dead, unacked, processed, stored, queued, sends, alive, wire, opened>>,
           UNCHANGED <<sent, offered, received, restarts>>
    PROVE  IndInv' /\ Keeps
<1>1. BoxOK' /\ ConnOK' /\ CountOK'
  BY DEF IndInv, BoxOK, ConnOK, CountOK, AckedIsNotReplayed, RestartRevivesNothing
<1>2. WorkerOK' /\ OfferedFirst'
  BY DEF IndInv, WorkerOK, OfferedFirst
<1>3. CurrentIsCovered'
  BY DEF IndInv, CurrentIsCovered, CoveredBy
<1>4. \A m : Held(m) => Held(m)'
  BY DEF Held
<1> QED BY <1>1, <1>2, <1>3, <1>4, KeepsIfHeld DEF IndInv

LEMMA LeaveKeeps ==
    ASSUME IndInv, SendEventFails \/ \E c \in Conns : EndConnection(c)
    PROVE  IndInv' /\ Keeps
<1>1. acks \in [Conns -> SUBSET Msgs] /\ current \in Conns \union {NoConn}
  BY DEF IndInv, WorkerOK, ConnOK
<1>2. PICK c \in Conns :
        /\ acks' = [acks EXCEPT ![c] = {}] /\ handlers' \subseteq handlers
        /\ current' \in {current, NoConn}
        /\ UNCHANGED <<mailbox, dead, unacked, processed, stored, queued, sends, alive, wire, opened>>
        /\ UNCHANGED <<sent, offered, received, restarts>>
  BY <1>1 DEF SendEventFails, EndConnection, boxVars, history
<1>3. acks' \in [Conns -> SUBSET Msgs] /\ \A d \in Conns : acks'[d] \subseteq acks[d]
  BY <1>1, <1>2
<1> QED BY <1>2, <1>3, DisconnectKeeps

LEMMA RegisterKeeps == ASSUME IndInv, NEW c \in Conns, Register(c) PROVE IndInv' /\ Keeps
<1>1. /\ c = opened + 1 /\ alive = {} /\ opened' = c /\ alive' = {c} /\ handlers' = handlers \union {c}
      /\ current' = c /\ queued' = [queued EXCEPT ![c] = Replay(c)] /\ mailbox' = <<>>
      /\ stored' = Forget(Range(Replay(c)))
      /\ UNCHANGED <<dead, unacked, processed, sends, wire, acks, sent, offered, received, restarts>>
  BY DEF Register, history
<1>2. Replay(c) \in Seq(Msgs) /\ Range(Replay(c)) = Range(mailbox) \union Range(unacked)
  <2>1. mailbox \in Seq(Msgs) /\ unacked \in Seq(Msgs)
    BY DEF IndInv, BoxOK
  <2>2. \A S : Outside(unacked, S) \in Seq(Msgs) /\ Range(Outside(unacked, S)) = Range(unacked) \ S
    BY <2>1, OutsideFacts
  <2>3. PICK rest : /\ rest \in Seq(Msgs) /\ Range(rest) = Range(unacked) \ Range(mailbox)
                    /\ Replay(c) = mailbox \o rest
    BY <2>2 DEF Replay
  <2>4. Replay(c) \in Seq(Msgs) /\ Range(Replay(c)) = Range(mailbox) \union Range(rest)
    BY <2>1, <2>3, ConcatSet, SMT
  <2> QED BY <2>3, <2>4
<1>3. queued[c] = <<>> /\ opened \in Nat
  BY <1>1, BoundsAreTyped, SMT DEF IndInv, ConnOK, WorkerOK
<1>4. queued' \in [Conns -> Seq(Msgs)] /\ queued'[c] = Replay(c) /\ \A d \in Conns : d # c => queued'[d] = queued[d]
  BY <1>1, <1>2 DEF IndInv, ConnOK
<1>5. BoxOK'
  <2>1. /\ stored' \in [Msgs -> {"none", "mail", "dead"}]
        /\ \A m \in Msgs : stored'[m] = "mail" => stored[m] = "mail" /\ m \notin Range(mailbox)
    BY <1>1, <1>2 DEF IndInv, BoxOK, Forget
  <2>2. RestartRevivesNothing'
    BY <2>1 DEF IndInv, BoxOK, RestartRevivesNothing
  <2>3. mailbox' \in Seq(Msgs)
    BY <1>1, SMT
  <2> QED BY <1>1, <2>1, <2>2, <2>3 DEF IndInv, BoxOK, AckedIsNotReplayed
<1>6. ConnOK'
  <2>1. \A d \in Conns : d > opened' => d # c /\ d > opened
    BY <1>1, <1>3, ConstantFacts, SMT
  <2>2. \A d \in Conns : d > opened' => queued'[d] = <<>>
    BY <1>4, <2>1 DEF IndInv, ConnOK
  <2> QED BY <1>1, <1>4, <2>2 DEF IndInv, ConnOK
<1>7. WorkerOK'
  <2>1. handlers' \subseteq 1..opened' /\ alive' \subseteq {opened'} /\ opened' \in 0..MaxConns
    BY <1>1, BoundsAreTyped, SMT DEF IndInv, WorkerOK, Conns
  <2> QED BY <1>1, <2>1 DEF IndInv, WorkerOK
<1>8. CountOK' /\ OfferedFirst'
  BY <1>1 DEF IndInv, CountOK, OfferedFirst
<1>9. CurrentIsCovered'
  BY <1>1, <1>2, <1>4 DEF CurrentIsCovered, CoveredBy
<1>10. \A m : Held(m) => Held(m)'
  <2>1. \A m, d : d \in Conns /\ m \in Range(queued[d]) => m \in Range(queued'[d])
    BY <1>3, <1>4, EmptySet
  <2> QED BY <1>1, <1>2, <1>4, <2>1 DEF Held
<1> QED BY <1>1, <1>5, <1>6, <1>7, <1>8, <1>9, <1>10, KeepsIfHeld DEF IndInv

LEMMA FlushKeeps == ASSUME IndInv, NEW c \in Conns, Flush(c) PROVE IndInv' /\ Keeps
<1>1. /\ UNCHANGED <<mailbox, dead, unacked, processed, stored, current, handlers, alive, wire, acks>>
      /\ UNCHANGED <<opened, sent, offered, received, restarts>> /\ queued[c] # <<>>
      /\ queued' = [queued EXCEPT ![c] = Tail(@)]
  BY DEF Flush, boxVars, workerVars, history
<1>2. /\ Tail(queued[c]) \in Seq(Msgs) /\ Head(queued[c]) \in Msgs
      /\ Range(queued[c]) = {Head(queued[c])} \union Range(Tail(queued[c]))
  BY <1>1, TailSet DEF IndInv, ConnOK
<1>3. /\ queued' \in [Conns -> Seq(Msgs)] /\ queued'[c] = Tail(queued[c])
      /\ \A d \in Conns : d # c => queued'[d] = queued[d]
  BY <1>1, <1>2 DEF IndInv, ConnOK
<1>4. PICK w : /\ sends' = sends \union {w} /\ w \in SendType /\ w.msg = Head(queued[c])
               /\ w.conn = c /\ ~w.written
  <2>1. sends' = sends \union {Call(Head(queued[c]), c, c, FALSE)}
    BY DEF Flush
  <2> QED BY <1>2, <2>1, CallFacts
<1>5. BoxOK' /\ WorkerOK' /\ CountOK'
  BY <1>1 DEF IndInv, BoxOK, WorkerOK, CountOK, AckedIsNotReplayed, RestartRevivesNothing
<1>6. ConnOK'
  <2>1. ~(c > opened)
    BY <1>1 DEF IndInv, ConnOK
  <2>2. \A d \in Conns : d > opened' => queued'[d] = <<>>
    BY <1>1, <1>3, <2>1 DEF IndInv, ConnOK
  <2> QED BY <1>1, <1>3, <1>4, <2>2 DEF IndInv, ConnOK
<1>7. OfferedFirst'
  BY <1>1, <1>4 DEF IndInv, OfferedFirst
<1>8. \A m, d : d \in Conns /\ m \in Range(queued[d]) => m \in Range(queued'[d]) \/ (d = c /\ m = w.msg)
  BY <1>2, <1>3, <1>4
<1>9. CurrentIsCovered'
  <2>1. current \in Conns => \A m : CoveredBy(current, m) => CoveredBy(current, m)'
    BY <1>1, <1>4, <1>8 DEF CoveredBy
  <2> QED BY <1>1, <2>1 DEF IndInv, CurrentIsCovered, ConnOK
<1>10. \A m : Held(m) => Held(m)'
  BY <1>1, <1>4, <1>8 DEF Held
<1> QED BY <1>1, <1>5, <1>6, <1>7, <1>9, <1>10, KeepsIfHeld DEF IndInv

LEMMA AckKeeps == ASSUME IndInv, NEW c \in Conns, NEW m \in Msgs, Ack(c, m) PROVE IndInv' /\ Keeps
<1>1. /\ UNCHANGED <<mailbox, dead, current, queued, sends, handlers, alive, wire, opened>>
      /\ UNCHANGED <<sent, offered, received, restarts>> /\ m \in acks[c]
      /\ acks' = [acks EXCEPT ![c] = @ \ {m}] /\ unacked' = Outside(unacked, {m})
      /\ processed' = processed \union {m} /\ stored' = Forget({m})
  BY DEF Ack, Acknowledge, connVars, history
<1>2. unacked' \in Seq(Msgs) /\ Range(unacked') = Range(unacked) \ {m}
  <2>1. unacked \in Seq(Msgs)
    BY DEF IndInv, BoxOK
  <2>2. Outside(unacked, {m}) \in Seq(Msgs) /\ Range(Outside(unacked, {m})) = Range(unacked) \ {m}
    BY <2>1, OutsideFacts
  <2> QED BY <1>1, <2>2
<1>3. m \in offered[c]
  BY <1>1 DEF IndInv, OfferedFirst
<1>4. BoxOK'
  <2>1. /\ stored' \in [Msgs -> {"none", "mail", "dead"}]
        /\ \A x \in Msgs : stored'[x] = "mail" => stored[x] = "mail" /\ x # m
    BY <1>1 DEF IndInv, BoxOK, Forget
  <2>2. RestartRevivesNothing' /\ AckedIsNotReplayed'
    BY <1>1, <1>2, <2>1 DEF IndInv, BoxOK, RestartRevivesNothing, AckedIsNotReplayed
  <2>3. \A x \in processed' : stored'[x] # "mail"
    BY <1>1, <2>1 DEF IndInv, BoxOK
  <2> QED BY <1>1, <1>2, <2>1, <2>2, <2>3 DEF IndInv, BoxOK
<1>5. ConnOK' /\ CountOK'
  BY <1>1 DEF IndInv, ConnOK, CountOK
<1>6. acks' \in [Conns -> SUBSET Msgs] /\ \A d \in Conns : acks'[d] \subseteq acks[d]
  BY <1>1 DEF IndInv, WorkerOK
<1>7. WorkerOK' /\ OfferedFirst'
  <2>1. WorkerOK'
    BY <1>1, <1>6 DEF IndInv, WorkerOK
  <2>2. \A d \in Conns : wire'[d] \subseteq offered'[d] /\ acks'[d] \subseteq offered'[d]
    BY <1>1, <1>6 DEF IndInv, OfferedFirst
  <2>3. \A x \in processed' : \E d \in Conns : x \in offered'[d]
    BY <1>1, <1>3 DEF IndInv, OfferedFirst
  <2> QED BY <1>1, <2>1, <2>2, <2>3 DEF IndInv, OfferedFirst
<1>8. CurrentIsCovered'
  BY <1>1, <1>2 DEF IndInv, CurrentIsCovered, CoveredBy
<1>9. \A x : Held(x) => Held(x)'
  BY <1>1, <1>2, <1>3 DEF Held
<1> QED BY <1>1, <1>4, <1>5, <1>7, <1>8, <1>9, KeepsIfHeld DEF IndInv

LEMMA WorkerKeeps ==
    ASSUME IndInv, NEW c \in Conns, WorkerEnds(c) \/ \E m \in Msgs : WorkerRead(c, m)
    PROVE  IndInv' /\ Keeps
<1>1. /\ UNCHANGED <<mailbox, dead, unacked, processed, stored, current, queued, sends, handlers>>
      /\ UNCHANGED <<opened, sent, offered, received, restarts>>
  BY DEF WorkerEnds, WorkerRead, boxVars, connVars, history
<1>2. BoxOK' /\ ConnOK' /\ CountOK' /\ CurrentIsCovered'
  BY <1>1 DEF IndInv, BoxOK, ConnOK, CountOK, CurrentIsCovered, CoveredBy, AckedIsNotReplayed,
              RestartRevivesNothing
<1>3. \A m : Held(m) => Held(m)'
  BY <1>1 DEF Held
<1>4. /\ wire \in [Conns -> SUBSET Msgs] /\ acks \in [Conns -> SUBSET Msgs] /\ alive \subseteq {opened}
      /\ \A d \in Conns \ alive : wire[d] = {}
  BY DEF IndInv, WorkerOK
<1>5. CASE WorkerEnds(c)
  <2>1. alive = {c} /\ alive' = {} /\ wire' = [wire EXCEPT ![c] = {}] /\ acks' = acks
    BY <1>4, <1>5 DEF WorkerEnds
  <2>2. wire' \in [Conns -> SUBSET Msgs] /\ \A d \in Conns : wire'[d] = {}
    BY <1>4, <2>1
  <2> QED BY <1>1, <1>2, <1>3, <2>1, <2>2, KeepsIfHeld DEF IndInv, WorkerOK, OfferedFirst
<1>6. ASSUME NEW m \in Msgs, WorkerRead(c, m) PROVE IndInv' /\ Keeps
  <2>1. /\ c \in alive /\ m \in wire[c] /\ alive' = alive
        /\ wire' = [wire EXCEPT ![c] = @ \ {m}] /\ acks' = [acks EXCEPT ![c] = @ \union {m}]
    BY <1>6 DEF WorkerRead
  <2>2. /\ wire' \in [Conns -> SUBSET Msgs] /\ acks' \in [Conns -> SUBSET Msgs]
        /\ \A d \in Conns : wire'[d] \subseteq wire[d] /\ acks'[d] \subseteq acks[d] \union wire[d]
    BY <1>4, <2>1
  <2> QED BY <1>1, <1>2, <1>3, <2>1, <2>2, KeepsIfHeld DEF IndInv, WorkerOK, OfferedFirst
<1> QED BY <1>5, <1>6

LEMMA ReceiveKeeps == ASSUME IndInv, NEW k, Receive(k) PROVE IndInv' /\ Keeps
<1>1. PICK got :
        /\ UNCHANGED <<dead, unacked, processed, current, queued, sends, handlers, alive, wire, acks>>
        /\ UNCHANGED <<opened, sent, offered, restarts>> /\ k \in 1..Len(mailbox)
        /\ got = Range(SubSeq(mailbox, 1, k)) \ processed
        /\ mailbox' = SubSeq(mailbox, k + 1, Len(mailbox)) /\ stored' = Forget(got)
        /\ received' = received \union got
  BY DEF Receive, connVars, workerVars
<1>2. /\ mailbox' \in Seq(Msgs) /\ got \subseteq Msgs
      /\ Range(mailbox) \subseteq got \union processed \union Range(mailbox')
      /\ Range(mailbox') \subseteq Range(mailbox)
  <2>1. mailbox \in Seq(Msgs)
    BY DEF IndInv, BoxOK
  <2>2. /\ SubSeq(mailbox, 1, k) \in Seq(Msgs) /\ SubSeq(mailbox, k + 1, Len(mailbox)) \in Seq(Msgs)
        /\ Range(mailbox) = Range(SubSeq(mailbox, 1, k)) \union Range(SubSeq(mailbox, k + 1, Len(mailbox)))
    BY <1>1, <2>1, SplitSet
  <2>3. Range(SubSeq(mailbox, 1, k)) \subseteq Msgs
    BY <2>2, SetIsTyped
  <2> QED BY <1>1, <2>2, <2>3
<1>3. BoxOK'
  <2>1. /\ stored' \in [Msgs -> {"none", "mail", "dead"}]
        /\ \A x \in Msgs : stored'[x] = "mail" => stored[x] = "mail" /\ x \notin got
    BY <1>1 DEF IndInv, BoxOK, Forget
  <2>2. RestartRevivesNothing'
    BY <1>2, <2>1 DEF IndInv, BoxOK, RestartRevivesNothing
  <2> QED BY <1>1, <1>2, <2>1, <2>2 DEF IndInv, BoxOK, AckedIsNotReplayed
<1>4. ConnOK' /\ WorkerOK' /\ CountOK' /\ OfferedFirst'
  BY <1>1, <1>2 DEF IndInv, ConnOK, WorkerOK, CountOK, OfferedFirst
<1>5. CurrentIsCovered'
  <2> SUFFICES ASSUME current # NoConn, NEW m \in Range(unacked) PROVE CoveredBy(current, m)'
    BY <1>1 DEF CurrentIsCovered
  <2>1. CoveredBy(current, m) /\ m \notin processed
    BY DEF IndInv, CurrentIsCovered, BoxOK, AckedIsNotReplayed
  <2> QED BY <1>1, <1>2, <2>1 DEF CoveredBy
<1>6. \A m : Held(m) => Held(m)'
  BY <1>1, <1>2 DEF Held, IndInv, OfferedFirst
<1> QED BY <1>1, <1>3, <1>4, <1>5, <1>6, KeepsIfHeld DEF IndInv

(* restore_mailbox: what comes back is what had a row in the mailbox.      *)
LEMMA RestartKeeps == ASSUME IndInv, RestartDaemon PROVE IndInv' /\ Keeps
<1>1. /\ restarts' = restarts + 1 /\ restarts < MaxRestarts /\ mailbox' = Restored
      /\ dead' = {} /\ unacked' = <<>> /\ processed' = {} /\ current' = NoConn
      /\ queued' = [c \in Conns |-> <<>>] /\ sends' = {} /\ handlers' = {} /\ alive' = {}
      /\ wire' = [c \in Conns |-> {}] /\ acks' = [c \in Conns |-> {}]
      /\ UNCHANGED <<stored, opened, sent, offered, received>>
  BY DEF RestartDaemon, history
<1>2. mailbox' \in Seq(Msgs) /\ Range(mailbox') = {m \in Msgs : stored[m] = "mail"}
  <2> DEFINE S == {m \in Msgs : stored[m] = "mail"}
  <2>1. S \in SUBSET Nat /\ IsFiniteSet(S) /\ S \subseteq Msgs
    BY ConstantFacts, FS_Subset
  <2>2. Restored \in Seq(S) /\ Range(Restored) = S
    BY <2>1, InOrderFacts DEF Restored
  <2>3. Restored \in Seq(Msgs)
    BY <2>1, <2>2, SMT
  <2> QED BY <1>1, <2>2, <2>3
<1>3. <<>> \in Seq(Msgs) /\ Range(<<>>) = {}
  BY EmptySet, SMT
<1>4. BoxOK'
  BY <1>1, <1>2, <1>3 DEF IndInv, BoxOK, AckedIsNotReplayed, RestartRevivesNothing
<1>5. ConnOK'
  BY <1>1, <1>3 DEF IndInv, ConnOK
<1>6. WorkerOK' /\ OfferedFirst' /\ CurrentIsCovered'
  BY <1>1 DEF IndInv, WorkerOK, OfferedFirst, CurrentIsCovered
<1>7. CountOK' /\ restarts' # restarts
  BY <1>1, BoundsAreTyped, SMT DEF IndInv, CountOK
<1> QED BY <1>4, <1>5, <1>6, <1>7 DEF IndInv, Keeps

-----------------------------------------------------------------------------
LEMMA NextKeeps == ASSUME IndInv, [Next]_vars PROVE IndInv' /\ Keeps
<1>1. CASE UNCHANGED vars
  <2>1. /\ UNCHANGED <<mailbox, dead, unacked, processed, stored, current, queued, sends, handlers>>
        /\ UNCHANGED <<alive, wire, acks, opened, sent, offered, received, restarts>>
    BY <1>1 DEF vars, boxVars, connVars, workerVars, history
  <2>2. acks' \in [Conns -> SUBSET Msgs]
    BY <2>1 DEF IndInv, WorkerOK
  <2> QED BY <2>1, <2>2, DisconnectKeeps
<1>2. CASE Next
  BY <1>2, RouteKeeps, WriteKeeps, SendOkKeeps, SendFailsKeeps, LeaveKeeps, RegisterKeeps, FlushKeeps,
     AckKeeps, WorkerKeeps, ReceiveKeeps, RestartKeeps DEF Next
<1> QED BY <1>1, <1>2

(* The inductive invariant.                                                *)
THEOREM Invariance == Spec => []IndInv
<1>1. Init => IndInv
  <2> SUFFICES ASSUME Init PROVE IndInv
    OBVIOUS
  <2>1. <<>> \in Seq(Msgs) /\ Range(<<>>) = {}
    BY EmptySet, SMT
  <2>2. BoxOK
    BY <2>1 DEF Init, BoxOK, AckedIsNotReplayed, RestartRevivesNothing
  <2>3. ConnOK
    BY <2>1 DEF Init, ConnOK
  <2>4. WorkerOK /\ CountOK
    BY BoundsAreTyped, SMT DEF Init, WorkerOK, CountOK
  <2>5. OfferedFirst /\ CurrentIsCovered
    BY DEF Init, OfferedFirst, CurrentIsCovered
  <2> QED BY <2>2, <2>3, <2>4, <2>5 DEF IndInv
<1>2. IndInv /\ [Next]_vars => IndInv'
  BY NextKeeps
<1> QED BY <1>1, <1>2, PTL DEF Spec

(* Type correctness.                                                       *)
THEOREM Typed == Spec => []TypeOK
<1>1. IndInv => TypeOK
  BY DEF IndInv, BoxOK, ConnOK, WorkerOK, CountOK, SendType, TypeOK
<1> QED BY <1>1, Invariance, PTL

(* A connected worker is offered every unacknowledged message, by register *)
(* or after it, unless the message is in the mailbox, received or dead.    *)
THEOREM UnackedAreOffered == Spec => []UnackedIsOffered
<1>1. IndInv => UnackedIsOffered
  <2> SUFFICES ASSUME IndInv, current # NoConn, NEW m \in Range(unacked)
               PROVE  m \in offered[current] \union InHand \union Range(mailbox) \union received \union dead
    BY DEF UnackedIsOffered
  <2>1. CoveredBy(current, m) /\ current \in Conns
    BY DEF IndInv, CurrentIsCovered, ConnOK
  <2> QED BY <2>1 DEF CoveredBy, InHand
<1> QED BY <1>1, Invariance, PTL

(* ack is final: an acknowledged message is not tracked again, although a  *)
(* send of it may fail later.                                              *)
THEOREM AckedStaysAcked == Spec => []AckedIsNotReplayed
<1>1. IndInv => AckedIsNotReplayed
  BY DEF IndInv, BoxOK
<1> QED BY <1>1, Invariance, PTL

(* restore_mailbox brings back only what was in the mailbox.               *)
THEOREM RestartIsClean == Spec => []RestartRevivesNothing
<1>1. IndInv => RestartRevivesNothing
  BY DEF IndInv, BoxOK
<1> QED BY <1>1, Invariance, PTL

(* No step of a running daemon loses a message that was routed: it stays   *)
(* in a queue or in the hands of a coroutine until it is offered to a      *)
(* worker, received by a client or dead.                                   *)
THEOREM NoMessageLost == Spec => KeepsMessages
<1>1. IndInv /\ [Next]_vars => [restarts' = restarts => Known \union ((1..sent') \ (1..sent)) \subseteq Known']_vars
  BY NextKeeps DEF Keeps
<1> QED BY <1>1, Invariance, PTL DEF Spec, KeepsMessages

=============================================================================

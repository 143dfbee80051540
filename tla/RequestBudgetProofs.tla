--------------------------- MODULE RequestBudgetProofs --------------------------
(***************************************************************************)
(* Proofs about RequestBudget, for any processes, allowance, window and    *)
(* circumstances: AllowanceKept is an invariant, and PenaltyHonoured holds.*)
(***************************************************************************)
EXTENDS RequestBudget, SequenceTheorems, WellFoundedInduction, TLAPS

USE AllowanceAssumption, WorldAssumption, BoundAssumption

--------------------------------------------------------------------------------
\* What pruning keeps

\* A set of numbers has a least one.
LEMMA Least ==
  ASSUME NEW T \in SUBSET Nat, T # {}
  PROVE  \E x \in T : \A y \in T : x <= y
<1>1. PICK x \in T : \A y \in T : <<y, x>> \notin OpToRel(<, Nat)
  BY NatLessThanWellFounded, WFMin, Zenon
<1>2. \A y \in T : ~(y < x)
  BY <1>1, Zenon DEF OpToRel
<1> QED  BY <1>2

\* n entries at the front of s have run out, and the next one, if any, has not.
Gone(s, n) ==
  /\ \A i \in 1 .. n : s[i] <= clock - Window
  /\ n < Len(s) => s[n + 1] > clock - Window

\* What is kept of a list is the list without some entries at its front, which
\* have run out; the first one that is kept has not.
LEMMA KeptIsSuffix ==
  ASSUME clock \in Nat, NEW s \in Seq(Int)
  PROVE  \E n \in 0 .. Len(s) :
           /\ Gone(s, n)
           /\ Kept(s) \in Seq(Int) /\ Len(Kept(s)) = Len(s) - n
           /\ \A i \in 1 .. Len(s) - n : Kept(s)[i] = s[n + i]
<1> DEFINE T == {i \in 1 .. Len(s) : s[i] > clock - Window}
           n == CHOOSE n \in 0 .. Len(s) : Gone(s, n)
<1>0. Len(s) \in Nat /\ \A i \in 1 .. Len(s) : s[i] \in Int
  BY LenProperties, ElementOfSeq
<1>1. \E k \in 0 .. Len(s) : Gone(s, k)
  <2>1. CASE T = {}
    BY <1>0, <2>1 DEF Gone
  <2>2. CASE T # {}
    <3>1. T \in SUBSET Nat  OBVIOUS
    <3>2. PICK x \in T : \A y \in T : x <= y
      BY <2>2, <3>1, Least
    <3>3. x - 1 \in 0 .. Len(s) /\ Gone(s, x - 1)
      BY <1>0, <3>2 DEF Gone
    <3> QED  BY <3>3
  <2> QED  BY <2>1, <2>2
<1>2. n \in 0 .. Len(s) /\ Gone(s, n)
  BY <1>1, Zenon
<1>3. Kept(s) = SubSeq(s, n + 1, Len(s))
  BY DEF Kept, Gone
<1> HIDE DEF n
<1>4. \A i \in n + 1 .. Len(s) : s[i] \in Int
  BY <1>0, <1>2
<1>5. /\ SubSeq(s, n + 1, Len(s)) \in Seq(Int)
      /\ Len(SubSeq(s, n + 1, Len(s))) = IF n + 1 <= Len(s) THEN Len(s) - (n + 1) + 1 ELSE 0
      /\ \A i \in 1 .. Len(s) - (n + 1) + 1 : SubSeq(s, n + 1, Len(s))[i] = s[(n + 1) + i - 1]
  <2>1. n + 1 \in Int /\ Len(s) \in Int  BY <1>0, <1>2
  <2> QED  BY <1>4, <2>1, SubSeqProperties
<1> QED  BY <1>0, <1>2, <1>3, <1>5

\* A full list that is kept in full is full of entries whose first has not run
\* out; one whose first has run out is not kept in full.
LEMMA KeptFull ==
  ASSUME clock \in Nat, NEW s \in Times
  PROVE  /\ Kept(s) \in Times
         /\ Len(Kept(s)) >= Limit =>
              Kept(s) = s /\ Len(s) = Limit /\ s[1] > clock - Window
         /\ (Len(s) = Limit /\ s[1] > clock - Window) => Kept(s) = s
<1>1. PICK n \in 0 .. Len(s) :
           /\ Gone(s, n)
           /\ Kept(s) \in Seq(Int) /\ Len(Kept(s)) = Len(s) - n
           /\ \A i \in 1 .. Len(s) - n : Kept(s)[i] = s[n + i]
  BY KeptIsSuffix DEF Times
<1>2. Len(s) \in Nat /\ Len(s) <= Limit  BY LenProperties DEF Times
<1>3. n = 0 => Kept(s) = s
  BY <1>1, <1>2, SeqEqual DEF Times
<1>4. \A i \in 1 .. Len(s) : s[i] \in Int
  BY ElementOfSeq DEF Times
<1>5. Kept(s) \in Times
  BY <1>1, <1>2 DEF Times
<1>6. Len(Kept(s)) >= Limit => n = 0 /\ Len(s) = Limit /\ s[1] > clock - Window
  BY <1>1, <1>2 DEF Gone
<1>7. (Len(s) = Limit /\ s[1] > clock - Window) => n = 0
  BY <1>1, <1>2, <1>4 DEF Gone
<1> QED  BY <1>3, <1>5, <1>6, <1>7

--------------------------------------------------------------------------------
\* Types, the order of times, and processes that do not run

\* Times are in the order of the clock, and none is to come.
Ordered(s) ==
  /\ \A i, j \in 1 .. Len(s) : i <= j => s[i] <= s[j]
  /\ \A i \in 1 .. Len(s) : s[i] <= clock

InOrder ==
  /\ Ordered(claims) /\ Ordered(sent)
  /\ \A p \in Procs : Ordered(asked[p])

\* A process that is down was told nothing and has asked nothing; where they run
\* one at a time, no two are up.
Absent ==
  /\ \A p \in Procs : At(p, "down") => told[p] = 0 /\ warned[p] = 0 /\ asked[p] = <<>>
  /\ ~world.overlap => \A p, q \in Procs : At(p, "down") \/ At(q, "down") \/ p = q

Safe == TypeOK /\ InOrder /\ Absent

\* A time that is claimed goes to the end of what is kept.
LEMMA ClaimAppends ==
  ASSUME NEW s \in Seq(Int), NEW t \in Int
  PROVE  /\ Append(s, t) \in Seq(Int) /\ Append(s, t) # <<>>
         /\ Len(Append(s, t)) = Len(s) + 1
         /\ Append(s, t)[Len(s) + 1] = t
         /\ \A i \in 1 .. Len(s) : Append(s, t)[i] = s[i]
  OBVIOUS

\* The present time goes to the end of a list of past ones, which stays ordered.
LEMMA NowAppends ==
  ASSUME clock \in Ticks, NEW s \in Seq(Ticks)
  PROVE  /\ Append(s, clock) \in Seq(Ticks) /\ Len(s) \in Nat
         /\ Append(s, clock) # <<>>
         /\ Len(Append(s, clock)) = Len(s) + 1
         /\ Append(s, clock)[Len(s) + 1] = clock
         /\ \A i \in 1 .. Len(s) : Append(s, clock)[i] = s[i]
         /\ \A i \in 1 .. Len(s) : s[i] \in Int /\ s[i] \in Ticks
         /\ Ordered(s) => Ordered(Append(s, clock))
<1>1. /\ Append(s, clock) \in Seq(Ticks) /\ Len(s) \in Nat
      /\ Append(s, clock) # <<>>
      /\ Len(Append(s, clock)) = Len(s) + 1
      /\ Append(s, clock)[Len(s) + 1] = clock
      /\ \A i \in 1 .. Len(s) : Append(s, clock)[i] = s[i]
  BY LenProperties
<1>2. \A i \in 1 .. Len(s) : s[i] \in Int /\ s[i] \in Ticks
  BY ElementOfSeq DEF Ticks
<1>3. \A i \in 1 .. Len(s) + 1 : i \in 1 .. Len(s) \/ i = Len(s) + 1
  BY <1>1
<1>4. Ordered(s) => Ordered(Append(s, clock))
  <2> SUFFICES ASSUME Ordered(s) PROVE Ordered(Append(s, clock))
    OBVIOUS
  <2> DEFINE t == Append(s, clock)
  <2>1. /\ Len(t) = Len(s) + 1 /\ t[Len(s) + 1] = clock
        /\ \A i \in 1 .. Len(s) : t[i] = s[i] /\ t[i] \in Int
    BY <1>1, <1>2
  <2>2. clock \in Int  BY DEF Ticks
  <2> HIDE DEF t
  <2> QED  BY <1>1, <1>3, <2>1, <2>2 DEF Ordered
<1> QED  BY <1>1, <1>2, <1>4

\* A penalty fills the whole allowance.
LEMMA PenaltyFills ==
  ASSUME NEW v \in Int
  PROVE  /\ [i \in 1 .. Limit |-> v] \in Times
         /\ Len([i \in 1 .. Limit |-> v]) = Limit
         /\ \A i \in 1 .. Limit : [j \in 1 .. Limit |-> v][i] = v
<1> DEFINE s == [i \in 1 .. Limit |-> v]
<1>1. s \in [1 .. Limit -> Int]  OBVIOUS
<1>2. s \in Seq(Int)  BY <1>1, SeqDef
<1>3. Len(s) \in Nat /\ DOMAIN s = 1 .. Len(s)  BY <1>2, LenProperties
<1>4. Len(s) = Limit
  <2>1. DOMAIN s = 1 .. Limit  OBVIOUS
  <2> HIDE DEF s
  <2>2. \A i \in Int : i \in 1 .. Limit <=> i \in 1 .. Len(s)  BY <1>3, <2>1
  <2>3. Len(s) \in Nat /\ Limit \in Nat /\ Limit # 0  BY <1>3
  <2>4. Limit \in 1 .. Limit  BY <2>3
  <2>5. Limit \in 1 .. Len(s)  BY <2>2, <2>3, <2>4
  <2>6. Len(s) \in 1 .. Len(s)  BY <2>3, <2>5
  <2>7. Len(s) \in 1 .. Limit  BY <2>2, <2>3, <2>6
  <2> QED  BY <2>3, <2>5, <2>7
<1> QED  BY <1>2, <1>4 DEF Times

\* The clock alone keeps past times past.
LEMMA TickOrders ==
  ASSUME clock \in Nat, clock' \in Nat, clock' >= clock, NEW s \in Seq(Ticks), Ordered(s)
  PROVE  /\ \A i, j \in 1 .. Len(s) : i <= j => s[i] <= s[j]
         /\ \A i \in 1 .. Len(s) : s[i] <= clock'
<1>1. \A i \in 1 .. Len(s) : s[i] \in Nat  BY ElementOfSeq DEF Ticks
<1> QED  BY <1>1 DEF Ordered

\* Every step keeps the types and the order.
LEMMA SafeStep == Safe /\ [Next]_vars => Safe'
<1> SUFFICES ASSUME Safe, [Next]_vars PROVE Safe'
  OBVIOUS
<1>0. clock \in Nat /\ <<>> \in Times /\ <<>> \in Seq(Ticks) /\ Len(<<>>) = 0
  BY EmptySeq DEF Safe, TypeOK, Ticks, Times
<1> USE <1>0 DEF Safe, TypeOK, InOrder, Absent, At, GoTo, own, past, Places,
                 Claiming, Penalising
<1>1. CASE Tick
  <2>1. /\ UNCHANGED <<world, pc, times, file, own, past>>
        /\ clock' \in Ticks /\ clock' \in Nat /\ clock' >= clock
    BY <1>1 DEF Tick, Ticks
  <2>2. InOrder'
    <3>1. Ordered(claims)' /\ Ordered(sent)'
      BY <2>1, TickOrders DEF Ordered
    <3>2. ASSUME NEW p \in Procs PROVE Ordered(asked[p])'
      BY <2>1, <3>2, TickOrders DEF Ordered
    <3> QED  BY <3>1, <3>2
  <2> QED  BY <2>1, <2>2
<1>2. ASSUME NEW p \in Procs, Start(p) PROVE Safe'
  <2>1. PICK s \in {file} \cup (IF "read" \in world.fails THEN {<<>>} ELSE {}) :
          times' = [times EXCEPT ![p] = s]
    BY <1>2 DEF Start
  <2>2. s \in Times /\ times' \in [Procs -> Times]  BY <2>1
  <2>3. UNCHANGED <<world, clock, file, own, past>> /\ pc' = [pc EXCEPT ![p] = "idle"]
    BY <1>2 DEF Start
  <2>4. ~world.overlap => \A q \in Procs : pc[q] = "down"
    BY <1>2 DEF Start
  <2>5. TypeOK'  BY <2>2, <2>3
  <2>6. InOrder'  BY <2>3 DEF Ordered
  <2>7. Absent'  BY <2>3, <2>4
  <2> QED  BY <2>5, <2>6, <2>7
<1>3. ASSUME NEW p \in Procs, Claim(p) PROVE Safe'
  <2>1. Kept(times[p]) \in Seq(Int) /\ Len(Kept(times[p])) \in Nat
    BY KeptFull, LenProperties DEF Times
  <2>2. times'[p] \in Times
    BY <1>3, <2>1, ClaimAppends DEF Claim, Times
  <2>3. times' \in [Procs -> Times]
    BY <1>3, <2>2 DEF Claim
  <2>4. claims' \in Seq(Ticks) /\ Ordered(claims')
    BY <1>3, NowAppends DEF Claim
  <2>5. UNCHANGED <<world, clock, file, own, sent, asked, barred, latest>>
        /\ pc' = [pc EXCEPT ![p] = "claimed"] /\ pc[p] = "idle"
    BY <1>3 DEF Claim
  <2>6. TypeOK'  BY <2>3, <2>4, <2>5
  <2>7. InOrder'  BY <2>4, <2>5 DEF Ordered
  <2>8. Absent'  BY <2>5
  <2> QED  BY <2>6, <2>7, <2>8
<1>4. ASSUME NEW p \in Procs, Refuse(p) PROVE Safe'
  <2>1. times[p] \in Times  OBVIOUS
  <2>2. Kept(times[p]) = times[p] /\ Len(times[p]) = Limit
        /\ times[p][1] > clock - Window
    BY <1>4, <2>1, KeptFull DEF Refuse
  <2>3. times[p][1] \in Int  BY <2>1, <2>2, ElementOfSeq DEF Times
  <2>4. Kept(times[p])[1] + Window \in Nat
    BY <2>2, <2>3
  <2>5. InOrder'  BY <1>4 DEF Refuse, Ordered
  <2>6. TypeOK' /\ Absent'  BY <1>4, <2>2, <2>4 DEF Refuse
  <2> QED  BY <2>5, <2>6
<1>5. ASSUME NEW p \in Procs, Truncate(p) \/ Save(p) \/ SaveFails(p) PROVE Safe'
  <2>0. /\ UNCHANGED <<world, clock, times, own, claims, sent, asked, latest>>
        /\ file' \in {<<>>, file, times[p]} /\ barred' \in {barred, warned[p]}
    BY <1>5 DEF Truncate, Save, SaveFails
  <2>1a. \E place \in Places : pc' = [pc EXCEPT ![p] = place]
    BY <1>5 DEF Truncate, Save, SaveFails, Places
  <2>1b. file' \in Times /\ barred' \in Nat  BY <2>0
  <2>1c. pc' \in [Procs -> Places]  BY <2>1a
  <2>1. /\ UNCHANGED <<world, clock, times, own, claims, sent, asked, latest>>
        /\ pc' \in [Procs -> Places] /\ file' \in Times /\ barred' \in Nat
    BY <2>0, <2>1b, <2>1c
  <2>2. pc[p] # "down" /\ \A q \in Procs : q # p => pc'[q] = pc[q]
    BY <1>5 DEF Truncate, Save, SaveFails
  <2>3. TypeOK'  BY <2>1
  <2>4. InOrder'  BY <2>1 DEF Ordered
  <2>5. pc'[p] # "down"
    BY <1>5 DEF Truncate, Save, SaveFails
  <2>6. Absent'  BY <2>1, <2>2, <2>5
  <2> QED  BY <2>3, <2>4, <2>6
<1>6. ASSUME NEW p \in Procs, Send(p) PROVE Safe'
  <2>1. /\ UNCHANGED <<world, clock, times, file, own, claims, barred, latest>>
        /\ sent' = Append(sent, clock) /\ pc[p] = "saved" /\ pc' = [pc EXCEPT ![p] = "asked"]
        /\ asked' = [asked EXCEPT ![p] = Append(asked[p], clock)]
    BY <1>6 DEF Send
  <2>2. sent' \in Seq(Ticks) /\ Ordered(sent')  BY <2>1, NowAppends
  <2>3. Append(asked[p], clock) \in Seq(Ticks) /\ Ordered(Append(asked[p], clock))
    BY NowAppends
  <2>4. TypeOK'  BY <2>1, <2>2, <2>3
  <2>5. InOrder'  BY <2>1, <2>2, <2>3 DEF Ordered
  <2>6. Absent'  BY <2>1
  <2> QED  BY <2>4, <2>5, <2>6
<1>7. ASSUME NEW p \in Procs, SendFails(p) \/ Answer(p) PROVE Safe'
  <2>1. InOrder'  BY <1>7 DEF SendFails, Answer, Ordered
  <2>2. TypeOK' /\ Absent'  BY <1>7 DEF SendFails, Answer
  <2> QED  BY <2>1, <2>2
<1>8. ASSUME NEW p \in Procs, NEW span \in world.spans, Penalise(p, span) PROVE Safe'
  <2>1. span \in Nat  BY DEF World
  <2>2. times' \in [Procs -> Times]
    <3>1. clock - Window + span + 1 \in Int  BY <2>1
    <3> QED  BY <1>8, <3>1, PenaltyFills DEF Penalise
  <2>3. /\ UNCHANGED <<world, clock, file, told, claims, barred>>
        /\ sent' = <<>> /\ asked' = [asked EXCEPT ![p] = <<>>]
        /\ warned' = [warned EXCEPT ![p] = clock + span]
        /\ latest' \in {clock + span, latest}
        /\ pc[p] = "asked" /\ pc' = [pc EXCEPT ![p] = "refused"]
    BY <1>8 DEF Penalise
  <2>4. TypeOK'  BY <2>1, <2>2, <2>3
  <2>5. InOrder'  BY <2>3 DEF Ordered
  <2>6. Absent'  BY <2>3
  <2> QED  BY <2>4, <2>5, <2>6
<1>9. ASSUME NEW p \in Procs, Stop(p) PROVE Safe'
  <2>1. InOrder'  BY <1>9 DEF Stop, Ordered
  <2>2. TypeOK' /\ Absent'  BY <1>9 DEF Stop
  <2> QED  BY <2>1, <2>2
<1>10. CASE UNCHANGED vars
  BY <1>10 DEF vars, Ordered
<1> QED
  BY <1>1, <1>2, <1>3, <1>4, <1>5, <1>6, <1>7, <1>8, <1>9, <1>10 DEF Next

--------------------------------------------------------------------------------
\* A claim is refused only when it is right to

\* The first n entries of s are the times of n different claims, in order.
Recalled(s, n) ==
  \E e \in [1 .. n -> 1 .. Len(claims)] :
    /\ \A i, j \in 1 .. n : i < j => e[j] - e[i] >= j - i
    /\ \A i \in 1 .. n : claims[e[i]] = s[i]

\* s is what a refusal left, for a span that ends no later than the latest.
Penal(s) ==
  /\ Len(s) = Limit
  /\ \A i \in 1 .. Limit : s[i] = s[1] /\ s[i] <= latest - Window + 1

\* Where an entry comes from.
Founded(s) == Recalled(s, Len(s)) \/ Penal(s)

\* What a process or the file holds was claimed, or is a penalty.
Remembered ==
  /\ Founded(file)
  /\ \A p \in Procs : Founded(times[p])

\* Nothing is recalled by an empty list.
LEMMA RecalledEmpty == Founded(<<>>)
<1> DEFINE e == [i \in 1 .. 0 |-> i]
<1>1. e \in [1 .. 0 -> 1 .. Len(claims)]  OBVIOUS
<1>2. \A i, j \in 1 .. 0 : FALSE  OBVIOUS
<1>3. Len(<<>>) = 0  OBVIOUS
<1> QED  BY <1>1, <1>2, <1>3 DEF Recalled, Founded

\* A list that is shorter at its front is recalled as well.
LEMMA RecalledPart ==
  ASSUME NEW s, NEW t, NEW n \in Nat, NEW m \in Nat, NEW k \in Nat, k + m <= n,
         \A i \in 1 .. m : t[i] = s[k + i], Recalled(s, n)
  PROVE  Recalled(t, m)
<1>1. PICK e \in [1 .. n -> 1 .. Len(claims)] :
        /\ \A i, j \in 1 .. n : i < j => e[j] - e[i] >= j - i
        /\ \A i \in 1 .. n : claims[e[i]] = s[i]
  BY DEF Recalled
<1> DEFINE f == [i \in 1 .. m |-> e[k + i]]
<1>2. f \in [1 .. m -> 1 .. Len(claims)]
  <2>1. \A i \in 1 .. m : k + i \in 1 .. n  OBVIOUS
  <2> QED  BY <1>1, <2>1
<1>3. \A i, j \in 1 .. m : i < j => f[j] - f[i] >= j - i
  <2> SUFFICES ASSUME NEW i \in 1 .. m, NEW j \in 1 .. m, i < j
               PROVE  f[j] - f[i] >= j - i
    OBVIOUS
  <2>1. k + i \in 1 .. n /\ k + j \in 1 .. n /\ k + i < k + j  OBVIOUS
  <2>2. e[k + j] - e[k + i] >= (k + j) - (k + i)  BY <1>1, <2>1
  <2> QED  BY <2>2
<1>4. \A i \in 1 .. m : claims[f[i]] = t[i]
  <2> SUFFICES ASSUME NEW i \in 1 .. m PROVE claims[f[i]] = t[i]
    OBVIOUS
  <2>1. k + i \in 1 .. n /\ f[i] = e[k + i] /\ t[i] = s[k + i]  OBVIOUS
  <2> HIDE DEF f
  <2> QED  BY <1>1, <2>1
<1> QED  BY <1>2, <1>3, <1>4 DEF Recalled

\* What is recalled stays so as claims are made, and a list whose last entry is
\* the claim just made is recalled in full.
LEMMA RecalledGrows ==
  ASSUME Safe, claims' = Append(claims, clock), NEW s, NEW n \in Nat, Recalled(s, n)
  PROVE  /\ Recalled(s, n)'
         /\ s[n + 1] = clock => Recalled(s, n + 1)'
<1>1. PICK e \in [1 .. n -> 1 .. Len(claims)] :
        /\ \A i, j \in 1 .. n : i < j => e[j] - e[i] >= j - i
        /\ \A i \in 1 .. n : claims[e[i]] = s[i]
  BY DEF Recalled
<1>2. /\ Len(claims) \in Nat /\ Len(claims') = Len(claims) + 1
      /\ claims'[Len(claims) + 1] = clock
      /\ \A i \in 1 .. Len(claims) : claims'[i] = claims[i]
  BY NowAppends DEF Safe, TypeOK
<1>3. Recalled(s, n)'
  <2>1. e \in [1 .. n -> 1 .. Len(claims')]  BY <1>1, <1>2
  <2>2. \A i \in 1 .. n : claims'[e[i]] = s[i]  BY <1>1, <1>2
  <2> QED  BY <1>1, <2>1, <2>2 DEF Recalled
<1>4. ASSUME s[n + 1] = clock PROVE Recalled(s, n + 1)'
  <2> DEFINE f == [i \in 1 .. n + 1 |-> IF i = n + 1 THEN Len(claims) + 1 ELSE e[i]]
  <2>1. f \in [1 .. n + 1 -> 1 .. Len(claims')]  BY <1>1, <1>2
  <2>2. \A i, j \in 1 .. n + 1 : i < j => f[j] - f[i] >= j - i
    <3> SUFFICES ASSUME NEW i \in 1 .. n + 1, NEW j \in 1 .. n + 1, i < j
                 PROVE  f[j] - f[i] >= j - i
      OBVIOUS
    <3>1. i \in 1 .. n /\ f[i] = e[i]  OBVIOUS
    <3>2. CASE j \in 1 .. n
      <4>1. f[j] = e[j]  BY <3>2
      <4> HIDE DEF f
      <4> QED  BY <1>1, <3>1, <3>2, <4>1
    <3>3. CASE j = n + 1
      <4>1. f[j] = Len(claims) + 1  BY <3>3
      <4>0. n \in 1 .. n  BY <3>1
      <4>2. n \in 1 .. n /\ e[n] \in 1 .. Len(claims) /\ e[i] \in 1 .. Len(claims)
        BY <1>1, <3>1, <4>0
      <4>3. i < n => e[n] - e[i] >= n - i  BY <1>1, <3>1, <4>2
      <4>4. i = n => e[n] = e[i]  OBVIOUS
      <4> HIDE DEF f
      <4> QED  BY <1>2, <3>1, <3>3, <4>1, <4>2, <4>3, <4>4
    <3> QED  BY <3>2, <3>3
  <2>3. \A i \in 1 .. n + 1 : claims'[f[i]] = s[i]  BY <1>1, <1>2, <1>4
  <2> HIDE DEF f
  <2> QED  BY <2>1, <2>2, <2>3 DEF Recalled
<1> QED  BY <1>3, <1>4

\* What is kept of a list that is founded, when it leaves room, is recalled.
LEMMA RecalledKept ==
  ASSUME Safe, NEW s \in Times, Founded(s), Len(Kept(s)) < Limit
  PROVE  Recalled(Kept(s), Len(Kept(s))) /\ Kept(s) \in Seq(Int) /\ Len(Kept(s)) \in Nat
<1>1. PICK n \in 0 .. Len(s) :
           /\ Gone(s, n)
           /\ Kept(s) \in Seq(Int) /\ Len(Kept(s)) = Len(s) - n
           /\ \A i \in 1 .. Len(s) - n : Kept(s)[i] = s[n + i]
  BY KeptIsSuffix DEF Safe, TypeOK, Ticks, Times
<1>2. Len(s) \in Nat /\ clock \in Nat  BY LenProperties DEF Times, Safe, TypeOK, Ticks
<1>3. n \in Nat /\ Len(s) - n \in Nat /\ n + (Len(s) - n) <= Len(s)  BY <1>1, <1>2
<1>4. CASE Recalled(s, Len(s))
  <2>1. Recalled(Kept(s), Len(s) - n)  BY <1>1, <1>2, <1>3, <1>4, RecalledPart
  <2> QED  BY <1>1, <1>3, <2>1
<1>5. CASE Penal(s)
  <2>1. Len(s) = Limit /\ \A i \in 1 .. Limit : s[i] = s[1]  BY <1>5 DEF Penal
  <2>2. s[1] \in Int
    <3>1. 1 \in 1 .. Len(s)  BY <2>1
    <3> QED  BY <3>1, ElementOfSeq DEF Times
  <2>3. n # 0  BY <1>1, <2>1
  <2>4. ~(n < Len(s))
    <3> SUFFICES ASSUME n < Len(s) PROVE FALSE
      OBVIOUS
    <3>1. n \in 1 .. Limit /\ n + 1 \in 1 .. Limit /\ n \in 1 .. n  BY <1>3, <2>1, <2>3
    <3>2. s[n] <= clock - Window /\ s[n + 1] > clock - Window  BY <1>1, <3>1 DEF Gone
    <3>3. s[n] = s[1] /\ s[n + 1] = s[1]  BY <2>1, <3>1
    <3> QED  BY <1>2, <2>2, <3>2, <3>3
  <2>5. Len(Kept(s)) = 0  BY <1>1, <1>2, <1>3, <2>4
  <2>6. Kept(s) = <<>>  BY <1>1, <2>5, EmptySeq
  <2>7. Recalled(<<>>, 0)
    <3> DEFINE e == [i \in 1 .. 0 |-> i]
    <3>1. e \in [1 .. 0 -> 1 .. Len(claims)]  OBVIOUS
    <3>2. \A i, j \in 1 .. 0 : FALSE  OBVIOUS
    <3> QED  BY <3>1, <3>2 DEF Recalled
  <2> QED  BY <1>1, <2>5, <2>6, <2>7
<1> QED  BY <1>4, <1>5 DEF Founded

\* What is founded stays so where claims stay and the latest span does not shrink.
LEMMA FoundedStays ==
  ASSUME NEW s, Founded(s), UNCHANGED claims, latest \in Nat, latest' \in Nat,
         latest' >= latest, s \in Times
  PROVE  Founded(s)'
<1>1. ASSUME Penal(s) PROVE Penal(s)'
  <2>1. \A i \in 1 .. Len(s) : s[i] \in Int  BY ElementOfSeq DEF Times
  <2> QED  BY <1>1, <2>1 DEF Penal
<1>2. ASSUME Recalled(s, Len(s)) PROVE Recalled(s, Len(s))'
  BY <1>2 DEF Recalled
<1> QED  BY <1>1, <1>2 DEF Founded

\* Every step remembers only what was claimed, or a penalty.
LEMMA RememberedStep ==
  ASSUME Safe, Remembered, [Next]_vars
  PROVE  Remembered'
<1>0. /\ Safe' /\ clock \in Nat /\ latest \in Nat /\ latest' \in Nat
      /\ file \in Times /\ times \in [Procs -> Times] /\ <<>> \in Times
  BY SafeStep, EmptySeq DEF Safe, TypeOK, Ticks, Times
<1> USE <1>0
\* Where nothing is claimed or refused, lists are only copied or emptied.
<1>1. ASSUME claims' = claims, latest' = latest,
             file' \in {file, <<>>} \cup {times[q] : q \in Procs},
             \A q \in Procs : times'[q] \in {times[q], <<>>, file}
      PROVE  Remembered'
  <2>1. \A s : Founded(s) => Founded(s)'
    BY <1>1 DEF Founded, Recalled, Penal
  <2>2. Founded(<<>>) /\ Founded(file) /\ \A q \in Procs : Founded(times[q])
    BY RecalledEmpty DEF Remembered
  <2>3. Founded(file)'  BY <1>1, <2>1, <2>2
  <2>4. ASSUME NEW q \in Procs PROVE Founded(times[q])'
    BY <1>1, <2>1, <2>2
  <2> QED  BY <2>3, <2>4 DEF Remembered
<1>2. CASE Tick \/ UNCHANGED vars
  BY <1>1, <1>2 DEF Tick, vars, past
<1>3. ASSUME NEW p \in Procs, Start(p) PROVE Remembered'
  <2>1. /\ UNCHANGED <<claims, latest, file>>
        /\ \E s \in {file, <<>>} : times' = [times EXCEPT ![p] = s]
    BY <1>3 DEF Start, past
  <2> QED  BY <1>1, <2>1
<1>4. ASSUME NEW p \in Procs, Claim(p) PROVE Remembered'
  <2>0. PICK k : k = Kept(times[p])  OBVIOUS
  <2>1. /\ UNCHANGED <<latest, file>> /\ times' = [times EXCEPT ![p] = Append(k, clock)]
        /\ claims' = Append(claims, clock) /\ Len(k) < Limit
    BY <1>4, <2>0 DEF Claim
  <2>2. Recalled(k, Len(k)) /\ k \in Seq(Int) /\ Len(k) \in Nat
    BY <2>0, <2>1, RecalledKept DEF Remembered
  <2>3. PICK t : t = Append(k, clock)  OBVIOUS
  <2>4. Len(t) = Len(k) + 1 /\ t[Len(k) + 1] = clock /\ \A i \in 1 .. Len(k) : t[i] = k[i]
    BY <2>2, <2>3, ClaimAppends
  <2>5. times'[p] = t /\ \A q \in Procs : q # p => times'[q] = times[q]  BY <2>1, <2>3
  <2>6. Recalled(t, Len(k))
    <3>1. \A i \in 1 .. Len(k) : t[i] = k[0 + i]  BY <2>2, <2>4
    <3>2. 0 + Len(k) <= Len(k)  BY <2>2
    <3> QED  BY <2>2, <3>1, <3>2, RecalledPart
  <2>7. Founded(t)'
    <3>1. Recalled(t, Len(k) + 1)'  BY <2>1, <2>2, <2>4, <2>6, RecalledGrows
    <3> QED  BY <2>4, <3>1 DEF Founded
  <2>8. \A s \in Times : Founded(s) => Founded(s)'
    <3> SUFFICES ASSUME NEW s \in Times, Founded(s) PROVE Founded(s)'
      OBVIOUS
    <3>1. Len(s) \in Nat  BY LenProperties DEF Times
    <3>2. CASE Recalled(s, Len(s))
      BY <2>1, <3>1, <3>2, RecalledGrows DEF Founded
    <3>3. CASE Penal(s)
      BY <2>1, <3>3 DEF Founded, Penal
    <3> QED  BY <3>2, <3>3 DEF Founded
  <2>9. Founded(file)'  BY <2>1, <2>8 DEF Remembered
  <2>10. ASSUME NEW q \in Procs PROVE Founded(times[q])'
    <3>1. CASE q = p  BY <2>5, <2>7, <3>1
    <3>2. CASE q # p  BY <2>5, <2>8, <3>2 DEF Remembered
    <3> QED  BY <3>1, <3>2
  <2> QED  BY <2>9, <2>10 DEF Remembered
<1>5. ASSUME NEW p \in Procs, Refuse(p) PROVE Remembered'
  <2>1. Kept(times[p]) = times[p]
    BY <1>5, KeptFull DEF Refuse
  <2>2. UNCHANGED <<claims, latest, file, times>>
    BY <1>5, <2>1 DEF Refuse, past
  <2> QED  BY <1>1, <2>2
<1>6. ASSUME NEW p \in Procs, Truncate(p) \/ Save(p) \/ SaveFails(p) PROVE Remembered'
  <2>1. UNCHANGED <<claims, latest, times>> /\ file' \in {file, <<>>, times[p]}
    BY <1>6 DEF Truncate, Save, SaveFails, past
  <2> QED  BY <1>1, <2>1
<1>7. ASSUME NEW p \in Procs, Send(p) \/ SendFails(p) \/ Answer(p) PROVE Remembered'
  <2>1. UNCHANGED <<claims, latest, times, file>>
    BY <1>7 DEF Send, SendFails, Answer, past
  <2> QED  BY <1>1, <2>1
<1>8. ASSUME NEW p \in Procs, NEW span \in world.spans, Penalise(p, span) PROVE Remembered'
  <2>1. span \in Nat  BY DEF Safe, TypeOK, World
  <2>0. PICK v \in Int : v = clock - Window + span + 1  BY <2>1
  <2>0a. PICK t : t = [i \in 1 .. Limit |-> v]  OBVIOUS
  <2>2. v \in Int  OBVIOUS
  <2>3. /\ UNCHANGED <<claims, file>> /\ times' = [times EXCEPT ![p] = t]
        /\ latest' >= latest /\ latest' >= clock + span
    BY <1>8, <2>0, <2>0a, <2>1 DEF Penalise
  <2>4. Len(t) = Limit /\ \A i \in 1 .. Limit : t[i] = v  BY <2>0a, <2>2, PenaltyFills
  <2>5. Founded(t)'
    <3>0. PICK m \in Nat : m = latest' /\ m >= clock + span  BY <2>3
    <3>1. v <= latest' - Window + 1
      <4>1. clock \in Int /\ span \in Int /\ Window \in Int  BY <2>1
      <4>2. v \in Int /\ v + Window = clock + span + 1  BY ONLY <2>0, <4>1
      <4>3. m \in Int /\ m >= clock + span  BY ONLY <3>0, <4>1
      <4>4. v + Window <= m + 1  BY ONLY <4>1, <4>2, <4>3
      <4>5. v <= m - Window + 1  BY ONLY <4>1, <4>2, <4>3, <4>4
      <4> QED  BY ONLY <3>0, <4>5
    <3>2. 1 \in 1 .. Limit  OBVIOUS
    <3> QED  BY <2>4, <3>1, <3>2 DEF Founded, Penal
  <2>6. \A s \in Times : Founded(s) => Founded(s)'
    BY <2>3, FoundedStays
  <2>7. Founded(file)'  BY <2>3, <2>6 DEF Remembered
  <2>8. ASSUME NEW q \in Procs PROVE Founded(times[q])'
    <3>1. CASE q = p  BY <2>3, <2>5, <3>1
    <3>2. CASE q # p  BY <2>3, <2>6, <3>2 DEF Remembered
    <3> QED  BY <3>1, <3>2
  <2> QED  BY <2>7, <2>8 DEF Remembered
<1>9. ASSUME NEW p \in Procs, Stop(p) PROVE Remembered'
  <2>1. UNCHANGED <<claims, latest, file>> /\ times' = [times EXCEPT ![p] = <<>>]
    BY <1>9 DEF Stop
  <2> QED  BY <1>1, <2>1
<1> QED
  BY <1>2, <1>3, <1>4, <1>5, <1>6, <1>7, <1>8, <1>9 DEF Next

\* A claim is refused when the allowance has been claimed in full, or while the
\* span of a refusal lasts.
LEMMA RefusalIsRight == Safe /\ Remembered => RefusedOnlyWhenUsed
<1> SUFFICES ASSUME Safe, Remembered, NEW p \in Procs, Len(Kept(times[p])) >= Limit
             PROVE  \/ Len(claims) >= Limit /\ claims[Len(claims) - Limit + 1] > clock - Window
                    \/ clock <= latest
  BY DEF RefusedOnlyWhenUsed
<1> DEFINE s == times[p]
<1>1. clock \in Nat /\ latest \in Nat /\ s \in Times /\ claims \in Seq(Ticks)
      /\ Len(claims) \in Nat /\ Ordered(claims)
  BY LenProperties DEF Safe, TypeOK, Ticks, InOrder
<1>2. Len(s) = Limit /\ s[1] > clock - Window /\ 1 \in 1 .. Limit  BY <1>1, KeptFull
<1>3. CASE Penal(s)
  <2>1. s[1] \in Int  BY <1>1, <1>2, ElementOfSeq DEF Times
  <2>2. s[1] <= latest - Window + 1  BY <1>2, <1>3 DEF Penal
  <2> HIDE DEF s
  <2> QED  BY <1>1, <1>2, <2>1, <2>2
<1>4. CASE Recalled(s, Len(s))
  <2>1. PICK e \in [1 .. Limit -> 1 .. Len(claims)] :
          /\ \A i, j \in 1 .. Limit : i < j => e[j] - e[i] >= j - i
          /\ \A i \in 1 .. Limit : claims[e[i]] = s[i]
    BY <1>2, <1>4 DEF Recalled
  <2> HIDE DEF s
  <2>2. 1 \in 1 .. Limit /\ Limit \in 1 .. Limit
        /\ e[1] \in 1 .. Len(claims) /\ e[Limit] \in 1 .. Len(claims)
    OBVIOUS
  <2>3. e[Limit] - e[1] >= Limit - 1  BY <2>1, <2>2
  <2>4. Len(claims) >= Limit /\ e[1] <= Len(claims) - Limit + 1
    BY <1>1, <2>2, <2>3
  <2>5. Len(claims) - Limit + 1 \in 1 .. Len(claims)  BY <1>1, <2>4
  <2>6. claims[e[1]] <= claims[Len(claims) - Limit + 1]
    BY <1>1, <2>2, <2>4, <2>5 DEF Ordered
  <2>7. claims[e[1]] > clock - Window  BY <1>2, <2>1, <2>2
  <2>8. claims[e[1]] \in Int /\ claims[Len(claims) - Limit + 1] \in Int
    BY <1>1, <2>2, <2>5, ElementOfSeq DEF Ticks
  <2> QED  BY <1>1, <2>4, <2>6, <2>7, <2>8
<1> QED  BY <1>3, <1>4 DEF Remembered, Founded

--------------------------------------------------------------------------------
\* No more than the allowance is sent

\* Each recent entry of r, counted from the last, is in s or something later is.
Covers(s, r, now) ==
  \A k \in 1 .. Len(r) :
    r[Len(r) - k + 1] > now - Window =>
      k <= Len(s) /\ s[Len(s) - k + 1] >= r[Len(r) - k + 1]

\* What was sent, with the claim that is about to be.
With(p, r) == IF pc[p] \in Unsent THEN Append(r, clock) ELSE r

\* Nothing has to be covered, or it has for a shorter time.
LEMMA CoversLess ==
  ASSUME NEW s \in Seq(Int), NEW r \in Seq(Int), NEW now \in Int, NEW later \in Int,
         now <= later, Covers(s, r, now)
  PROVE  Covers(s, r, later) /\ \A t : Covers(t, <<>>, now)
<1>1. Len(r) \in Nat /\ \A i \in 1 .. Len(r) : r[i] \in Int
  BY LenProperties, ElementOfSeq
<1>2. Covers(s, r, later)
  <2> SUFFICES ASSUME NEW k \in 1 .. Len(r), r[Len(r) - k + 1] > later - Window
               PROVE  k <= Len(s) /\ s[Len(s) - k + 1] >= r[Len(r) - k + 1]
    BY DEF Covers
  <2>1. Len(r) - k + 1 \in 1 .. Len(r)  BY <1>1
  <2>2. r[Len(r) - k + 1] > now - Window  BY <1>1, <2>1
  <2> QED  BY <2>2 DEF Covers
<1>3. \A t : Covers(t, <<>>, now)
  BY EmptySeq DEF Covers
<1> QED  BY <1>2, <1>3

\* What is kept covers what was covered.
LEMMA CoversKept ==
  ASSUME clock \in Nat, NEW s \in Times, NEW r \in Seq(Int), Covers(s, r, clock)
  PROVE  Covers(Kept(s), r, clock)
<1>1. PICK n \in 0 .. Len(s) :
           /\ Gone(s, n)
           /\ Kept(s) \in Seq(Int) /\ Len(Kept(s)) = Len(s) - n
           /\ \A i \in 1 .. Len(s) - n : Kept(s)[i] = s[n + i]
  BY KeptIsSuffix DEF Times
<1>2. /\ Len(s) \in Nat /\ \A i \in 1 .. Len(s) : s[i] \in Int
      /\ Len(r) \in Nat /\ \A i \in 1 .. Len(r) : r[i] \in Int
  BY LenProperties, ElementOfSeq DEF Times
<1> SUFFICES ASSUME NEW k \in 1 .. Len(r), r[Len(r) - k + 1] > clock - Window
             PROVE  /\ k <= Len(Kept(s))
                    /\ Kept(s)[Len(Kept(s)) - k + 1] >= r[Len(r) - k + 1]
  BY DEF Covers
<1>3. k <= Len(s) /\ s[Len(s) - k + 1] >= r[Len(r) - k + 1]  BY DEF Covers
<1>4. Len(s) - k + 1 \in 1 .. Len(s) /\ Len(r) - k + 1 \in 1 .. Len(r)  BY <1>2, <1>3
<1>5. s[Len(s) - k + 1] > clock - Window  BY <1>2, <1>3, <1>4, SMTT(30)
<1>6. ~(Len(s) - k + 1 \in 1 .. n)
  <2> SUFFICES ASSUME Len(s) - k + 1 \in 1 .. n PROVE FALSE
    OBVIOUS
  <2>1. s[Len(s) - k + 1] <= clock - Window  BY <1>1 DEF Gone
  <2>2. s[Len(s) - k + 1] \in Int  BY <1>2, <1>4
  <2> QED  BY <1>5, <2>1, <2>2
<1>7. Len(s) - n - k + 1 \in 1 .. Len(s) - n  BY <1>1, <1>2, <1>4, <1>6
<1>8. Kept(s)[Len(s) - n - k + 1] = s[n + (Len(s) - n - k + 1)]  BY <1>1, <1>7
<1>9. n + (Len(s) - n - k + 1) = Len(s) - k + 1  BY <1>1, <1>2
<1> QED  BY <1>1, <1>2, <1>3, <1>7, <1>8, <1>9

\* The same time at the end of both.
LEMMA CoversClaim ==
  ASSUME NEW s \in Seq(Int), NEW r \in Seq(Int), NEW t \in Int, NEW now, Covers(s, r, now)
  PROVE  Covers(Append(s, t), Append(r, t), now)
<1>1. /\ Len(s) \in Nat /\ Len(r) \in Nat
      /\ Len(Append(s, t)) = Len(s) + 1 /\ Len(Append(r, t)) = Len(r) + 1
      /\ Append(s, t)[Len(s) + 1] = t /\ Append(r, t)[Len(r) + 1] = t
      /\ \A i \in 1 .. Len(s) : Append(s, t)[i] = s[i]
      /\ \A i \in 1 .. Len(r) : Append(r, t)[i] = r[i]
  BY LenProperties, ClaimAppends
<1>2. PICK S : S = Append(s, t)  OBVIOUS
<1>3. PICK R : R = Append(r, t)  OBVIOUS
<1> SUFFICES ASSUME NEW k \in 1 .. Len(R), R[Len(R) - k + 1] > now - Window
             PROVE  k <= Len(S) /\ S[Len(S) - k + 1] >= R[Len(R) - k + 1]
  BY <1>2, <1>3 DEF Covers
<1>4. Len(S) = Len(s) + 1 /\ Len(R) = Len(r) + 1  BY <1>1, <1>2, <1>3
<1>5. CASE k = 1
  <2>1. Len(S) - k + 1 = Len(s) + 1 /\ Len(R) - k + 1 = Len(r) + 1  BY <1>1, <1>4, <1>5
  <2> QED  BY <1>1, <1>2, <1>3, <1>4, <1>5, <2>1
<1>6. CASE k # 1
  <2>1. PICK m \in 1 .. Len(r) : k = m + 1  BY <1>1, <1>4, <1>6
  <2>2. Len(R) - k + 1 = Len(r) - m + 1 /\ Len(r) - m + 1 \in 1 .. Len(r)  BY <1>1, <1>4, <2>1
  <2>3. R[Len(R) - k + 1] = r[Len(r) - m + 1]  BY <1>1, <1>3, <2>2
  <2>4. m <= Len(s) /\ s[Len(s) - m + 1] >= r[Len(r) - m + 1]  BY <2>3 DEF Covers
  <2>5. Len(S) - k + 1 = Len(s) - m + 1 /\ Len(s) - m + 1 \in 1 .. Len(s)
    BY <1>1, <1>4, <2>1, <2>4
  <2>6. S[Len(S) - k + 1] = s[Len(s) - m + 1]  BY <1>1, <1>2, <2>5
  <2> QED  BY <1>1, <1>4, <2>1, <2>3, <2>4, <2>6
<1> QED  BY <1>5, <1>6

\* A claim that is given up was not sent: the rest is covered still.
LEMMA CoversDrop ==
  ASSUME clock \in Ticks, NEW s \in Seq(Int), NEW r \in Seq(Ticks), Ordered(r),
         Covers(s, Append(r, clock), clock)
  PROVE  Covers(s, r, clock)
<1>1. /\ Len(r) \in Nat /\ Len(Append(r, clock)) = Len(r) + 1
      /\ Append(r, clock)[Len(r) + 1] = clock
      /\ \A i \in 1 .. Len(r) : Append(r, clock)[i] = r[i]
      /\ \A i \in 1 .. Len(r) : r[i] \in Int
      /\ clock \in Int
  BY NowAppends DEF Ticks
<1>2. PICK R : R = Append(r, clock)  OBVIOUS
<1>3. Len(R) = Len(r) + 1 /\ R[Len(r) + 1] = clock /\ \A i \in 1 .. Len(r) : R[i] = r[i]
  BY <1>1, <1>2
<1>4. Len(s) \in Nat /\ \A i \in 1 .. Len(s) : s[i] \in Int  BY LenProperties, ElementOfSeq
<1> SUFFICES ASSUME NEW k \in 1 .. Len(r), r[Len(r) - k + 1] > clock - Window
             PROVE  k <= Len(s) /\ s[Len(s) - k + 1] >= r[Len(r) - k + 1]
  BY DEF Covers
<1>5. Len(r) - k + 1 \in 1 .. Len(r) /\ k \in 1 .. Len(R)  BY <1>1, <1>3
<1>6. Len(R) - k + 1 = Len(r) - k + 2  BY <1>1, <1>3
<1>7. R[Len(R) - k + 1] >= r[Len(r) - k + 1] /\ R[Len(R) - k + 1] \in Int
  <2>1. CASE k = 1
    <3>1. R[Len(R) - k + 1] = clock  BY <1>1, <1>3, <1>6, <2>1
    <3>2. r[Len(r) - k + 1] <= clock  BY <1>5 DEF Ordered
    <3> QED  BY <1>1, <1>5, <3>1, <3>2
  <2>2. CASE k # 1
    <3>1. Len(r) - k + 2 \in 1 .. Len(r) /\ Len(r) - k + 1 <= Len(r) - k + 2
      BY <1>1, <2>2
    <3>2. r[Len(r) - k + 1] <= r[Len(r) - k + 2]  BY <1>5, <3>1 DEF Ordered
    <3>3. r[Len(r) - k + 1] \in Int /\ r[Len(r) - k + 2] \in Int  BY <1>1, <1>5, <3>1
    <3> QED  BY <1>3, <1>6, <3>1, <3>2, <3>3
  <2> QED  BY <2>1, <2>2
<1>8. R[Len(R) - k + 1] > clock - Window  BY <1>1, <1>5, <1>7
<1>9. k <= Len(s) /\ s[Len(s) - k + 1] >= R[Len(R) - k + 1]
  BY <1>2, <1>5, <1>8 DEF Covers
<1>10. s[Len(s) - k + 1] \in Int
  <2>1. Len(s) - k + 1 \in 1 .. Len(s)  BY <1>4, <1>9
  <2> QED  BY <1>4, <2>1
<1> QED  BY <1>1, <1>5, <1>7, <1>9, <1>10, SMTT(30)

\* A request that was claimed can be sent.
LEMMA CoversSend ==
  ASSUME clock \in Ticks, NEW s \in Times, NEW r \in Seq(Ticks), Spaced(r),
         Covers(s, Append(r, clock), clock)
  PROVE  Spaced(Append(r, clock))
<1>1. /\ Len(r) \in Nat /\ Len(Append(r, clock)) = Len(r) + 1
      /\ Append(r, clock)[Len(r) + 1] = clock
      /\ \A i \in 1 .. Len(r) : Append(r, clock)[i] = r[i]
      /\ \A i \in 1 .. Len(r) : r[i] \in Int
      /\ clock \in Int
  BY NowAppends DEF Ticks
<1>2. PICK R : R = Append(r, clock)  OBVIOUS
<1>3. Len(R) = Len(r) + 1 /\ R[Len(r) + 1] = clock /\ \A i \in 1 .. Len(r) : R[i] = r[i]
  BY <1>1, <1>2
<1>4. Len(s) \in Nat /\ Len(s) <= Limit  BY LenProperties DEF Times
<1> SUFFICES ASSUME NEW i \in 1 .. Len(R) - Limit
             PROVE  R[i + Limit] - R[i] >= Window
  BY <1>2 DEF Spaced
<1>5. i \in 1 .. Len(r)  BY <1>1, <1>3
<1>6. CASE i + Limit = Len(R)
  <2>1. Limit + 1 \in 1 .. Len(R) /\ Len(R) - (Limit + 1) + 1 = i  BY <1>1, <1>3, <1>6
  <2>2. ~(Limit + 1 <= Len(s))  BY <1>4
  <2>3. ~(R[i] > clock - Window)
    <3>1. R[Len(R) - (Limit + 1) + 1] > clock - Window => Limit + 1 <= Len(s)
      BY <1>2, <2>1 DEF Covers
    <3> QED  BY <2>1, <2>2, <3>1
  <2>4. R[i] \in Int /\ R[i + Limit] = clock  BY <1>1, <1>3, <1>5, <1>6
  <2> QED  BY <1>1, <2>3, <2>4
<1>7. CASE i + Limit # Len(R)
  <2>1. i \in 1 .. Len(r) - Limit /\ i + Limit \in 1 .. Len(r)  BY <1>1, <1>3, <1>7
  <2>2. r[i + Limit] - r[i] >= Window  BY <2>1 DEF Spaced
  <2> QED  BY <1>3, <1>5, <2>1, <2>2
<1> QED  BY <1>6, <1>7

\* In each run of a process, whatever runs beside it.
RunCovered ==
  \A p \in Procs :
    /\ Spaced(asked[p])
    /\ ~At(p, "down") => Covers(times[p], With(p, asked[p]), clock)

\* Every step of a process keeps its own requests covered and apart.
LEMMA RunCoveredStep ==
  ASSUME Safe, RunCovered, [Next]_vars
  PROVE  RunCovered'
<1>0. /\ Safe' /\ clock \in Nat /\ clock \in Int /\ clock \in Ticks /\ <<>> \in Seq(Ticks)
      /\ times \in [Procs -> Times] /\ pc \in [Procs -> Places]
      /\ asked \in [Procs -> Seq(Ticks)] /\ \A q \in Procs : asked[q] \in Seq(Int)
  BY SafeStep DEF Safe, TypeOK, Ticks
<1>0a. Spaced(<<>>) /\ \A s : Covers(s, <<>>, clock)
  BY EmptySeq DEF Spaced, Covers
<1> USE <1>0, <1>0a
\* It is enough to look at one process at a time.
<1>1. ASSUME NEW p \in Procs, clock' = clock,
             \A q \in Procs : q # p => pc'[q] = pc[q] /\ times'[q] = times[q] /\ asked'[q] = asked[q],
             Spaced(asked'[p]),
             pc'[p] # "down" =>
               Covers(times'[p], IF pc'[p] \in Unsent THEN Append(asked'[p], clock) ELSE asked'[p], clock)
      PROVE  RunCovered'
  <2> SUFFICES ASSUME NEW q \in Procs
               PROVE  /\ Spaced(asked'[q])
                      /\ pc'[q] # "down" =>
                           Covers(times'[q],
                                  IF pc'[q] \in Unsent THEN Append(asked'[q], clock) ELSE asked'[q], clock)
    BY <1>1 DEF RunCovered, With, At, Spaced, Covers
  <2>1. CASE q = p  BY <1>1, <2>1
  <2>2. CASE q # p  BY <1>1, <2>2 DEF RunCovered, With, At
  <2> QED  BY <2>1, <2>2
<1>2. CASE Tick
  <2>1. /\ UNCHANGED <<pc, times, asked>> /\ clock' \in Int /\ clock <= clock'
        /\ \A q \in Procs : pc[q] \notin Unsent
    BY <1>2 DEF Tick, own, past, Unsent, Claiming, Ticks
  <2> SUFFICES ASSUME NEW q \in Procs
               PROVE  Spaced(asked[q]) /\ (pc[q] # "down" => Covers(times[q], asked[q], clock'))
    BY <2>1 DEF RunCovered, With, At, Spaced, Covers
  <2>2. times[q] \in Seq(Int)  BY DEF Times
  <2> QED  BY <2>1, <2>2, CoversLess DEF RunCovered, With, At
<1>3. CASE UNCHANGED vars
  BY <1>3 DEF vars, RunCovered, With, At, Spaced, Covers
<1>4. ASSUME NEW p \in Procs, Start(p) PROVE RunCovered'
  <2>1. /\ UNCHANGED <<clock, asked>> /\ asked[p] = <<>> /\ pc'[p] = "idle"
        /\ \A q \in Procs : q # p => pc'[q] = pc[q] /\ times'[q] = times[q]
    BY <1>4 DEF Start, Safe, Absent, At, GoTo, past
  <2>2. pc'[p] \notin Unsent  BY <2>1 DEF Unsent, Claiming
  <2> QED  BY <1>1, <2>1, <2>2
<1>5. ASSUME NEW p \in Procs, Claim(p) PROVE RunCovered'
  <2>1. /\ UNCHANGED <<clock, asked>> /\ pc[p] = "idle" /\ pc'[p] = "claimed"
        /\ times'[p] = Append(Kept(times[p]), clock)
        /\ \A q \in Procs : q # p => pc'[q] = pc[q] /\ times'[q] = times[q]
    BY <1>5 DEF Claim, At, GoTo
  <2>2. Covers(times[p], asked[p], clock) /\ Spaced(asked[p])
    BY <2>1 DEF RunCovered, At, With, Unsent, Claiming
  <2>3. Covers(Kept(times[p]), asked[p], clock)  BY <2>2, CoversKept
  <2>4. Kept(times[p]) \in Seq(Int)  BY KeptFull DEF Times
  <2>5. Covers(Append(Kept(times[p]), clock), Append(asked[p], clock), clock)
    BY <2>3, <2>4, CoversClaim
  <2>6. pc'[p] \in Unsent  BY <2>1 DEF Unsent, Claiming
  <2> QED  BY <1>1, <2>1, <2>2, <2>5, <2>6
<1>6. ASSUME NEW p \in Procs, Refuse(p) PROVE RunCovered'
  <2>1. /\ UNCHANGED <<clock, asked, pc>> /\ times'[p] = times[p]
        /\ \A q \in Procs : q # p => times'[q] = times[q]
    BY <1>6, KeptFull DEF Refuse, past
  <2> QED  BY <1>1, <2>1 DEF RunCovered, With, At
<1>7. ASSUME NEW p \in Procs, Truncate(p) \/ Save(p) \/ SaveFails(p) \/ Answer(p) PROVE RunCovered'
  <2>1. /\ UNCHANGED <<clock, asked, times>> /\ pc[p] # "down"
        /\ \A q \in Procs : q # p => pc'[q] = pc[q]
        /\ pc'[p] \in Unsent <=> pc[p] \in Unsent
    BY <1>7 DEF Truncate, Save, SaveFails, Answer, At, GoTo, own, past, Claiming, Penalising, Unsent
  <2> QED  BY <1>1, <2>1 DEF RunCovered, With, At
<1>8. ASSUME NEW p \in Procs, Send(p) PROVE RunCovered'
  <2>1. /\ UNCHANGED <<clock, times>> /\ pc[p] = "saved" /\ pc'[p] = "asked"
        /\ asked'[p] = Append(asked[p], clock)
        /\ \A q \in Procs : q # p => pc'[q] = pc[q] /\ asked'[q] = asked[q]
    BY <1>8 DEF Send, At, GoTo
  <2>2. Covers(times[p], Append(asked[p], clock), clock) /\ Spaced(asked[p])
    BY <2>1 DEF RunCovered, At, With, Unsent
  <2>3. Spaced(Append(asked[p], clock))  BY <2>2, CoversSend
  <2>4. pc'[p] \notin Unsent  BY <2>1 DEF Unsent, Claiming
  <2> QED  BY <1>1, <2>1, <2>2, <2>3, <2>4
<1>9. ASSUME NEW p \in Procs, SendFails(p) PROVE RunCovered'
  <2>1. /\ UNCHANGED <<clock, times, asked>> /\ pc[p] = "saved" /\ pc'[p] = "idle"
        /\ \A q \in Procs : q # p => pc'[q] = pc[q]
    BY <1>9 DEF SendFails, At, GoTo, own, past
  <2>2. Covers(times[p], Append(asked[p], clock), clock) /\ Spaced(asked[p])
    BY <2>1 DEF RunCovered, At, With, Unsent
  <2>3. Ordered(asked[p]) /\ times[p] \in Seq(Int)  BY DEF Safe, InOrder, Times
  <2>4. Covers(times[p], asked[p], clock)  BY <2>2, <2>3, CoversDrop
  <2>5. pc'[p] \notin Unsent  BY <2>1 DEF Unsent, Claiming
  <2> QED  BY <1>1, <2>1, <2>2, <2>4, <2>5
<1>10. ASSUME NEW p \in Procs, NEW span \in world.spans, Penalise(p, span) PROVE RunCovered'
  <2>1. /\ UNCHANGED clock /\ pc'[p] = "refused" /\ asked'[p] = <<>>
        /\ \A q \in Procs : q # p => pc'[q] = pc[q] /\ asked'[q] = asked[q] /\ times'[q] = times[q]
    BY <1>10 DEF Penalise, At, GoTo
  <2>2. pc'[p] \notin Unsent  BY <2>1 DEF Unsent, Claiming
  <2> QED  BY <1>1, <2>1, <2>2
<1>11. ASSUME NEW p \in Procs, Stop(p) PROVE RunCovered'
  <2>1. /\ UNCHANGED clock /\ pc'[p] = "down" /\ asked'[p] = <<>>
        /\ \A q \in Procs : q # p => pc'[q] = pc[q] /\ asked'[q] = asked[q] /\ times'[q] = times[q]
    BY <1>11 DEF Stop, At, GoTo
  <2> QED  BY <1>1, <2>1
<1> QED
  BY <1>2, <1>3, <1>4, <1>5, <1>6, <1>7, <1>8, <1>9, <1>10, <1>11 DEF Next

\* One process at a time, and what they write can be read.
Quiet == ~world.overlap /\ ~world.tears /\ world.fails = {}

\* Then the file has what was sent, and so has the process that runs.
FileCovered ==
  /\ Spaced(sent)
  /\ Covers(file, sent, clock)
  /\ \A p \in Procs :
       /\ ~At(p, "down") => Covers(times[p], With(p, sent), clock)
       /\ At(p, "saved") => Covers(file, Append(sent, clock), clock)

\* Every step keeps it so, whichever process takes it.
LEMMA FileCoveredStep ==
  ASSUME Safe, Quiet, FileCovered, [Next]_vars
  PROVE  FileCovered'
<1>0. /\ Safe' /\ clock \in Nat /\ clock \in Int /\ clock \in Ticks /\ <<>> \in Seq(Ticks)
      /\ times \in [Procs -> Times] /\ pc \in [Procs -> Places]
      /\ file \in Times /\ file \in Seq(Int) /\ sent \in Seq(Ticks) /\ sent \in Seq(Int)
      /\ Ordered(sent)
  BY SafeStep DEF Safe, TypeOK, Ticks, InOrder, Times
<1>0a. Spaced(<<>>) /\ \A s : Covers(s, <<>>, clock)
  BY EmptySeq DEF Spaced, Covers
<1> USE <1>0, <1>0a
\* No process runs but the one that takes the step.
<1>1. ASSUME NEW p \in Procs, clock' = clock, \A q \in Procs : q # p => pc'[q] = "down",
             Spaced(sent'), Covers(file', sent', clock),
             pc'[p] # "down" =>
               Covers(times'[p], IF pc'[p] \in Unsent THEN Append(sent', clock) ELSE sent', clock),
             pc'[p] = "saved" => Covers(file', Append(sent', clock), clock)
      PROVE  FileCovered'
  BY <1>1 DEF FileCovered, With, At, Spaced, Covers
<1>2. CASE Tick
  <2>1. /\ UNCHANGED <<pc, times, file, sent>> /\ clock' \in Int /\ clock <= clock'
        /\ \A q \in Procs : pc[q] \notin Unsent /\ pc[q] # "saved"
    BY <1>2 DEF Tick, own, past, Unsent, Claiming, Ticks
  <2>2. Spaced(sent) /\ Covers(file, sent, clock')
    BY <2>1, CoversLess DEF FileCovered
  <2>3. ASSUME NEW q \in Procs, pc[q] # "down" PROVE Covers(times[q], sent, clock')
    <3>1. times[q] \in Seq(Int)  BY DEF Times
    <3>2. Covers(times[q], sent, clock)  BY <2>1, <2>3 DEF FileCovered, With, At
    <3> QED  BY <2>1, <3>1, <3>2, CoversLess
  <2> QED  BY <2>1, <2>2, <2>3 DEF FileCovered, With, At, Spaced, Covers
<1>3. CASE UNCHANGED vars
  BY <1>3 DEF vars, FileCovered, With, At, Spaced, Covers
<1>4. ASSUME NEW p \in Procs, Start(p) PROVE FileCovered'
  <2>1. /\ UNCHANGED <<clock, sent, file>> /\ times'[p] = file /\ pc'[p] = "idle"
        /\ \A q \in Procs : q # p => pc'[q] = "down"
    BY <1>4 DEF Start, At, GoTo, past, Quiet
  <2>2. pc'[p] \notin Unsent  BY <2>1 DEF Unsent, Claiming
  <2> QED  BY <1>1, <2>1, <2>2 DEF FileCovered
<1>5. ASSUME NEW p \in Procs, pc[p] # "down" PROVE \A q \in Procs : q # p => pc[q] = "down"
  BY <1>5 DEF Safe, Absent, Quiet, At
<1>6. ASSUME NEW p \in Procs, Claim(p) PROVE FileCovered'
  <2>1. /\ UNCHANGED <<clock, sent, file>> /\ pc[p] = "idle" /\ pc'[p] = "claimed"
        /\ times'[p] = Append(Kept(times[p]), clock)
        /\ \A q \in Procs : q # p => pc'[q] = pc[q]
    BY <1>6 DEF Claim, At, GoTo
  <2>2. Covers(times[p], sent, clock)
    BY <2>1 DEF FileCovered, At, With, Unsent, Claiming
  <2>3. Covers(Kept(times[p]), sent, clock)  BY <2>2, CoversKept
  <2>4. Kept(times[p]) \in Seq(Int)  BY KeptFull DEF Times
  <2>5. Covers(Append(Kept(times[p]), clock), Append(sent, clock), clock)
    BY <2>3, <2>4, CoversClaim
  <2>6. pc'[p] \in Unsent  BY <2>1 DEF Unsent, Claiming
  <2>7. \A q \in Procs : q # p => pc'[q] = "down"  BY <1>5, <2>1
  <2> QED  BY <1>1, <2>1, <2>5, <2>6, <2>7 DEF FileCovered
<1>7. ASSUME NEW p \in Procs, Refuse(p) PROVE FileCovered'
  <2>1. /\ UNCHANGED <<clock, sent, file, pc>> /\ times'[p] = times[p] /\ pc[p] = "idle"
    BY <1>7, KeptFull DEF Refuse, past, At
  <2>2. \A q \in Procs : q # p => pc'[q] = "down"  BY <1>5, <2>1
  <2> QED  BY <1>1, <2>1, <2>2 DEF FileCovered, With, At
<1>8. ASSUME NEW p \in Procs, Save(p) PROVE FileCovered'
  <2>1. /\ UNCHANGED <<clock, sent, times>> /\ file' = times[p] /\ pc[p] # "down"
        /\ \A q \in Procs : q # p => pc'[q] = pc[q]
        /\ \/ pc[p] \in Unsent /\ pc'[p] = "saved"
           \/ pc[p] \notin Unsent /\ pc'[p] = "idle"
    BY <1>8 DEF Save, At, GoTo, own, Claiming, Penalising, Unsent
  <2>2. \A q \in Procs : q # p => pc'[q] = "down"  BY <1>5, <2>1
  <2>3. times[p] \in Seq(Int)  BY DEF Times
  <2>4. CASE pc[p] \in Unsent /\ pc'[p] = "saved"
    <3>1. Covers(times[p], Append(sent, clock), clock)
      BY <2>1, <2>4 DEF FileCovered, With, At
    <3>2. Covers(times[p], sent, clock)  BY <2>3, <3>1, CoversDrop
    <3>3. pc'[p] \in Unsent  BY <2>4 DEF Unsent
    <3> QED  BY <1>1, <2>1, <2>2, <2>4, <3>1, <3>2, <3>3 DEF FileCovered
  <2>5. CASE pc[p] \notin Unsent /\ pc'[p] = "idle"
    <3>1. Covers(times[p], sent, clock)  BY <2>1, <2>5 DEF FileCovered, With, At
    <3>2. pc'[p] \notin Unsent  BY <2>5 DEF Unsent, Claiming
    <3> QED  BY <1>1, <2>1, <2>2, <2>5, <3>1, <3>2 DEF FileCovered
  <2> QED  BY <2>1, <2>4, <2>5
<1>9. ASSUME NEW p \in Procs, Send(p) PROVE FileCovered'
  <2>1. /\ UNCHANGED <<clock, times, file>> /\ pc[p] = "saved" /\ pc'[p] = "asked"
        /\ sent' = Append(sent, clock)
        /\ \A q \in Procs : q # p => pc'[q] = pc[q]
    BY <1>9 DEF Send, At, GoTo
  <2>2. /\ Covers(times[p], Append(sent, clock), clock) /\ Spaced(sent)
        /\ Covers(file, Append(sent, clock), clock)
    BY <2>1 DEF FileCovered, At, With, Unsent
  <2>3. Spaced(Append(sent, clock))  BY <2>2, CoversSend
  <2>4. pc'[p] \notin Unsent  BY <2>1 DEF Unsent, Claiming
  <2>5. \A q \in Procs : q # p => pc'[q] = "down"  BY <1>5, <2>1
  <2> QED  BY <1>1, <2>1, <2>2, <2>3, <2>4, <2>5
<1>10. ASSUME NEW p \in Procs, SendFails(p) PROVE FileCovered'
  <2>1. /\ UNCHANGED <<clock, times, file, sent>> /\ pc[p] = "saved" /\ pc'[p] = "idle"
        /\ \A q \in Procs : q # p => pc'[q] = pc[q]
    BY <1>10 DEF SendFails, At, GoTo, own, past
  <2>2. Covers(times[p], Append(sent, clock), clock)
    BY <2>1 DEF FileCovered, At, With, Unsent
  <2>3. times[p] \in Seq(Int)  BY DEF Times
  <2>4. Covers(times[p], sent, clock)  BY <2>2, <2>3, CoversDrop
  <2>5. pc'[p] \notin Unsent  BY <2>1 DEF Unsent, Claiming
  <2>6. \A q \in Procs : q # p => pc'[q] = "down"  BY <1>5, <2>1
  <2> QED  BY <1>1, <2>1, <2>4, <2>5, <2>6 DEF FileCovered
<1>11. ASSUME NEW p \in Procs, Answer(p) PROVE FileCovered'
  <2>1. /\ UNCHANGED <<clock, times, file, sent>> /\ pc[p] = "asked" /\ pc'[p] = "idle"
        /\ \A q \in Procs : q # p => pc'[q] = pc[q]
    BY <1>11 DEF Answer, At, GoTo, own, past
  <2>2. pc[p] \notin Unsent /\ pc'[p] \notin Unsent  BY <2>1 DEF Unsent, Claiming
  <2>3. \A q \in Procs : q # p => pc'[q] = "down"  BY <1>5, <2>1
  <2> QED  BY <1>1, <2>1, <2>2, <2>3 DEF FileCovered, With, At
<1>12. ASSUME NEW p \in Procs, NEW span \in world.spans, Penalise(p, span) PROVE FileCovered'
  <2>1. /\ UNCHANGED <<clock, file>> /\ pc[p] = "asked" /\ pc'[p] = "refused" /\ sent' = <<>>
        /\ \A q \in Procs : q # p => pc'[q] = pc[q]
    BY <1>12 DEF Penalise, At, GoTo
  <2>2. pc'[p] \notin Unsent  BY <2>1 DEF Unsent, Claiming
  <2>3. \A q \in Procs : q # p => pc'[q] = "down"  BY <1>5, <2>1
  <2> QED  BY <1>1, <2>1, <2>2, <2>3
<1>13. ASSUME NEW p \in Procs, Stop(p) PROVE FileCovered'
  <2>1. /\ UNCHANGED <<clock, file, sent>> /\ pc[p] # "down" /\ pc'[p] = "down"
        /\ \A q \in Procs : q # p => pc'[q] = pc[q]
    BY <1>13 DEF Stop, At, GoTo
  <2>2. \A q \in Procs : q # p => pc'[q] = "down"  BY <1>5, <2>1
  <2> QED  BY <1>1, <2>1, <2>2 DEF FileCovered
<1>14. ~ \E p \in Procs : Truncate(p) \/ SaveFails(p)
  BY DEF Truncate, SaveFails, Quiet
<1> QED
  BY <1>2, <1>3, <1>4, <1>6, <1>7, <1>8, <1>9, <1>10, <1>11, <1>12, <1>13, <1>14 DEF Next

--------------------------------------------------------------------------------
\* The waits that are announced

\* Something was claimed at this tick or later.
ClaimedFrom(t) == claims # <<>> /\ claims[Len(claims)] >= t

\* Since a process was told to wait, by its own record or by the service, either
\* its list is as it was then, or something was claimed, by it or by another, no
\* sooner than it may be.
Waits ==
  \A p \in Procs :
    /\ told[p] > 0 =>
         \/ At(p, "idle") /\ Len(times[p]) = Limit /\ times[p][1] + Window = told[p]
         \/ ClaimedFrom(told[p])
    /\ warned[p] > 0 =>
         \/ /\ pc[p] \in {"idle"} \cup Penalising
            /\ Len(times[p]) = Limit /\ times[p][1] + Window = warned[p] + 1
         \/ ClaimedFrom(warned[p] + 1)

\* What is claimed now is claimed from any tick that has come.
LEMMA ClaimIsLast ==
  ASSUME Safe, claims' = Append(claims, clock), NEW t \in Int
  PROVE  /\ clock >= t => ClaimedFrom(t)'
         /\ ClaimedFrom(t) => ClaimedFrom(t)' /\ clock >= t
<1>1. /\ clock \in Int /\ Len(claims) \in Nat /\ claims \in Seq(Ticks)
      /\ \A i \in 1 .. Len(claims) : claims[i] \in Int
      /\ claims' # <<>> /\ claims'[Len(claims')] = clock
      /\ Ordered(claims)
  <2>1. clock \in Ticks /\ claims \in Seq(Ticks) /\ Ordered(claims)
    BY DEF Safe, TypeOK, InOrder
  <2>2. /\ Len(claims) \in Nat /\ claims' # <<>> /\ Len(claims') = Len(claims) + 1
        /\ claims'[Len(claims) + 1] = clock
        /\ \A i \in 1 .. Len(claims) : claims[i] \in Int
    BY <2>1, NowAppends
  <2> QED  BY <2>1, <2>2 DEF Ticks
<1>2. clock >= t => ClaimedFrom(t)'  BY <1>1 DEF ClaimedFrom
<1>3. ClaimedFrom(t) => clock >= t
  <2>1. claims # <<>> => Len(claims) \in 1 .. Len(claims)  BY <1>1, EmptySeq
  <2>2. claims # <<>> => claims[Len(claims)] <= clock /\ claims[Len(claims)] \in Int
    BY <1>1, <2>1 DEF Ordered
  <2> QED  BY <1>1, <2>2 DEF ClaimedFrom
<1> QED  BY <1>2, <1>3

\* A list whose first entry runs out at a tick leaves room from that tick on, and
\* not before.
LEMMA RoomFrom ==
  ASSUME clock \in Nat, NEW s \in Times, Len(s) = Limit, NEW t \in Int, s[1] + Window = t
  PROVE  /\ clock >= t => Len(Kept(s)) < Limit
         /\ Len(Kept(s)) < Limit => clock >= t
<1>1. 1 \in 1 .. Len(s)  OBVIOUS
<1>2. s[1] \in Int  BY <1>1, ElementOfSeq DEF Times
<1>3. s[1] > clock - Window <=> ~(clock >= t)  BY <1>2
<1>4. Len(Kept(s)) \in Nat  BY KeptFull, LenProperties DEF Times
<1>5. clock >= t => ~(Len(Kept(s)) >= Limit)  BY <1>3, KeptFull
<1>6. ~(clock >= t) => Kept(s) = s  BY <1>3, KeptFull
<1> QED  BY <1>4, <1>5, <1>6

\* Every step keeps it so.
LEMMA WaitsStep ==
  ASSUME Safe, Waits, [Next]_vars
  PROVE  Waits'
<1>0. /\ Safe' /\ clock \in Nat /\ pc \in [Procs -> Places] /\ times \in [Procs -> Times]
      /\ told \in [Procs -> Nat] /\ warned \in [Procs -> Nat]
  BY SafeStep DEF Safe, TypeOK, Ticks
<1> USE <1>0
\* It is enough that no claim is lost and a list that waits is left alone.
<1>1. ASSUME \A t \in Int : ClaimedFrom(t) => ClaimedFrom(t)',
             NEW p \in Procs, NEW q \in Procs, q # p,
             pc'[q] = pc[q] /\ times'[q] = times[q] /\ told'[q] = told[q] /\ warned'[q] = warned[q]
      PROVE  /\ told'[q] > 0 =>
                  \/ pc'[q] = "idle" /\ Len(times'[q]) = Limit /\ times'[q][1] + Window = told'[q]
                  \/ ClaimedFrom(told[q])'
             /\ warned'[q] > 0 =>
                  \/ /\ pc'[q] \in {"idle"} \cup Penalising
                     /\ Len(times'[q]) = Limit /\ times'[q][1] + Window = warned'[q] + 1
                  \/ ClaimedFrom(warned[q] + 1)'
  <2>1. told[q] \in Int /\ warned[q] + 1 \in Int  OBVIOUS
  <2> QED  BY <1>1, <2>1 DEF Waits, At
<1>2. ASSUME UNCHANGED claims PROVE \A t \in Int : ClaimedFrom(t) => ClaimedFrom(t)'
  BY <1>2 DEF ClaimedFrom
<1>3. CASE Tick \/ UNCHANGED vars
  BY <1>3 DEF Tick, vars, own, past, Waits, At, ClaimedFrom
<1>4. ASSUME NEW p \in Procs, Start(p) PROVE Waits'
  <2>1. /\ UNCHANGED <<claims, told, warned>> /\ told[p] = 0 /\ warned[p] = 0
        /\ \A q \in Procs : q # p => pc'[q] = pc[q] /\ times'[q] = times[q]
    BY <1>4 DEF Start, At, GoTo, own, past, Safe, Absent
  <2>2. told'[p] = 0 /\ warned'[p] = 0  BY <2>1
  <2>3. ASSUME NEW q \in Procs, q # p
        PROVE  /\ told'[q] > 0 =>
                  \/ pc'[q] = "idle" /\ Len(times'[q]) = Limit /\ times'[q][1] + Window = told'[q]
                  \/ ClaimedFrom(told[q])'
               /\ warned'[q] > 0 =>
                  \/ /\ pc'[q] \in {"idle"} \cup Penalising
                     /\ Len(times'[q]) = Limit /\ times'[q][1] + Window = warned'[q] + 1
                  \/ ClaimedFrom(warned[q] + 1)'
    BY <1>1, <1>2, <2>1, <2>3
  <2> QED  BY <2>2, <2>3 DEF Waits, At, ClaimedFrom
<1>5. ASSUME NEW p \in Procs, Claim(p) PROVE Waits'
  <2>1. /\ UNCHANGED <<told, warned>> /\ claims' = Append(claims, clock) /\ pc[p] = "idle"
        /\ Len(Kept(times[p])) < Limit
        /\ \A q \in Procs : q # p => pc'[q] = pc[q] /\ times'[q] = times[q]
    BY <1>5 DEF Claim, At, GoTo, own
  <2>2. \A t \in Int : (clock >= t => ClaimedFrom(t)') /\ (ClaimedFrom(t) => ClaimedFrom(t)' /\ clock >= t)
    BY <2>1, ClaimIsLast
  <2>3. times[p] \in Times /\ told[p] \in Int /\ warned[p] + 1 \in Int  OBVIOUS
  <2>4. told[p] > 0 => clock >= told[p]
    <3>1. CASE Len(times[p]) = Limit /\ times[p][1] + Window = told[p]
      BY <2>1, <2>3, <3>1, RoomFrom
    <3>2. CASE ClaimedFrom(told[p])  BY <2>2, <2>3, <3>2
    <3> QED  BY <3>1, <3>2 DEF Waits
  <2>5. warned[p] > 0 => clock >= warned[p] + 1
    <3>1. CASE Len(times[p]) = Limit /\ times[p][1] + Window = warned[p] + 1
      BY <2>1, <2>3, <3>1, RoomFrom
    <3>2. CASE ClaimedFrom(warned[p] + 1)  BY <2>2, <2>3, <3>2
    <3> QED  BY <3>1, <3>2 DEF Waits
  <2>6. told[p] > 0 => ClaimedFrom(told[p])'
    <3>1. PICK t \in Int : t = told[p]  OBVIOUS
    <3> QED  BY <2>1, <2>2, <2>4, <3>1 DEF ClaimedFrom
  <2>7. warned[p] > 0 => ClaimedFrom(warned[p] + 1)'
    <3>1. PICK t \in Int : t = warned[p] + 1  OBVIOUS
    <3> QED  BY <2>1, <2>2, <2>5, <3>1 DEF ClaimedFrom
  <2>8. ASSUME NEW q \in Procs, q # p
        PROVE  /\ told'[q] > 0 =>
                  \/ pc'[q] = "idle" /\ Len(times'[q]) = Limit /\ times'[q][1] + Window = told'[q]
                  \/ ClaimedFrom(told[q])'
               /\ warned'[q] > 0 =>
                  \/ /\ pc'[q] \in {"idle"} \cup Penalising
                     /\ Len(times'[q]) = Limit /\ times'[q][1] + Window = warned'[q] + 1
                  \/ ClaimedFrom(warned[q] + 1)'
    <3>1. \A t \in Int : ClaimedFrom(t) => ClaimedFrom(t)'  BY <2>2
    <3> QED  BY <1>1, <2>1, <2>8, <3>1
  <2> QED  BY <2>1, <2>6, <2>7, <2>8 DEF Waits, At, ClaimedFrom
<1>6. ASSUME NEW p \in Procs, Refuse(p) PROVE Waits'
  <2>1. /\ UNCHANGED <<claims, pc, warned>> /\ pc[p] = "idle"
        /\ times' = times /\ Len(times[p]) = Limit
        /\ told' = [told EXCEPT ![p] = times[p][1] + Window]
    BY <1>6, KeptFull DEF Refuse, past, At
  <2> QED  BY <2>1 DEF Waits, At, ClaimedFrom
<1>7. ASSUME NEW p \in Procs,
             Truncate(p) \/ Save(p) \/ SaveFails(p) \/ Send(p) \/ SendFails(p) \/ Answer(p)
      PROVE  Waits'
  <2>1. /\ UNCHANGED <<claims, told, warned, times>> /\ pc[p] # "idle"
        /\ \A q \in Procs : q # p => pc'[q] = pc[q]
        /\ pc[p] \in Penalising => pc'[p] \in {"idle"} \cup Penalising
    BY <1>7 DEF Truncate, Save, SaveFails, Send, SendFails, Answer, At, GoTo, own, past,
                Claiming, Penalising
  <2> QED  BY <2>1 DEF Waits, At, ClaimedFrom
<1>8. ASSUME NEW p \in Procs, NEW span \in world.spans, Penalise(p, span) PROVE Waits'
  <2>1. span \in Nat  BY DEF Safe, TypeOK, World
  <2>2. PICK v \in Int : v = clock - Window + span + 1  BY <2>1
  <2>3. /\ UNCHANGED <<claims, told>> /\ pc[p] = "asked" /\ pc'[p] = "refused"
        /\ times'[p] = [i \in 1 .. Limit |-> v] /\ warned'[p] = clock + span
        /\ \A q \in Procs : q # p => pc'[q] = pc[q] /\ times'[q] = times[q] /\ warned'[q] = warned[q]
    BY <1>8, <2>2 DEF Penalise, At, GoTo
  <2>4. Len(times'[p]) = Limit /\ times'[p][1] = v
    <3>1. 1 \in 1 .. Limit  OBVIOUS
    <3> QED  BY <2>3, <3>1, PenaltyFills
  <2>5. times'[p][1] + Window = warned'[p] + 1
    <3>1. v + Window = clock + span + 1  BY ONLY <1>0, <2>1, <2>2, AllowanceAssumption
    <3> QED  BY <2>3, <2>4, <3>1
  <2>6. pc'[p] \in Penalising  BY <2>3 DEF Penalising
  <2> QED  BY <2>3, <2>4, <2>5, <2>6 DEF Waits, At, ClaimedFrom
<1>9. ASSUME NEW p \in Procs, Stop(p) PROVE Waits'
  <2>1. /\ UNCHANGED claims /\ told'[p] = 0 /\ warned'[p] = 0
        /\ \A q \in Procs : q # p =>
             pc'[q] = pc[q] /\ times'[q] = times[q] /\ told'[q] = told[q] /\ warned'[q] = warned[q]
    BY <1>9 DEF Stop, At, GoTo
  <2> QED  BY <2>1 DEF Waits, At, ClaimedFrom
<1> QED
  BY <1>3, <1>4, <1>5, <1>6, <1>7, <1>8, <1>9 DEF Next

\* A process that waited as long as it was told finds an entry run out.
LEMMA WaitEnds == Safe /\ Waits => WaitIsEnough
<1> SUFFICES ASSUME Safe, Waits, NEW p \in Procs, At(p, "idle")
             PROVE  /\ (told[p] > 0 /\ clock >= told[p] /\ NoClaimAfter(told[p] - 1))
                         => Len(Kept(times[p])) < Limit
                    /\ (warned[p] > 0 /\ clock > warned[p] /\ NoClaimAfter(warned[p]))
                         => Len(Kept(times[p])) < Limit
  BY DEF WaitIsEnough
<1>1. clock \in Nat /\ times[p] \in Times /\ told[p] \in Nat /\ warned[p] \in Nat
      /\ claims \in Seq(Ticks)
  BY DEF Safe, TypeOK, Ticks
<1>2. claims # <<>> => claims[Len(claims)] \in Int
  <2>1. claims # <<>> => Len(claims) \in 1 .. Len(claims)  BY <1>1, LenProperties, EmptySeq
  <2> QED  BY <1>1, <2>1, ElementOfSeq DEF Ticks
<1>3. ASSUME told[p] > 0, clock >= told[p], NoClaimAfter(told[p] - 1)
      PROVE  Len(Kept(times[p])) < Limit
  <2>1. ~ClaimedFrom(told[p])  BY <1>1, <1>2, <1>3 DEF ClaimedFrom, NoClaimAfter
  <2>2. Len(times[p]) = Limit /\ times[p][1] + Window = told[p]  BY <1>3, <2>1 DEF Waits
  <2>3. told[p] \in Int  BY <1>1
  <2> QED  BY <1>1, <1>3, <2>2, <2>3, RoomFrom
<1>4. ASSUME warned[p] > 0, clock > warned[p], NoClaimAfter(warned[p])
      PROVE  Len(Kept(times[p])) < Limit
  <2>1. ~ClaimedFrom(warned[p] + 1)  BY <1>1, <1>2, <1>4 DEF ClaimedFrom, NoClaimAfter
  <2>2. Len(times[p]) = Limit /\ times[p][1] + Window = warned[p] + 1  BY <1>4, <2>1 DEF Waits
  <2>3. warned[p] + 1 \in Int /\ clock >= warned[p] + 1  BY <1>1, <1>4
  <2> QED  BY <1>1, <2>2, <2>3, RoomFrom
<1> QED  BY <1>3, <1>4

--------------------------------------------------------------------------------
\* The span that the service names

\* Where one process runs at a time and the file can be read, a penalty that was
\* recorded stays in the file until it is over, and a process that runs has read
\* it, or has written it.
FilePenalty ==
  clock < barred =>
    /\ Len(file) = Limit /\ file[1] + Window > barred
    /\ \A p \in Procs : pc[p] \in {"down", "idle"} /\ (pc[p] = "idle" => times[p] = file)

\* Every step of such a process keeps it so.
LEMMA FilePenaltyStep ==
  ASSUME Safe, Waits, ~world.overlap, "read" \notin world.fails, FilePenalty, [Next]_vars
  PROVE  FilePenalty'
<1>0. /\ clock \in Nat /\ pc \in [Procs -> Places] /\ times \in [Procs -> Times]
      /\ file \in Times /\ warned \in [Procs -> Nat] /\ barred \in Nat
  BY DEF Safe, TypeOK, Ticks
<1> USE <1>0
<1>1. ASSUME NEW p \in Procs, pc[p] # "down" PROVE \A q \in Procs : q # p => pc[q] = "down"
  BY <1>1 DEF Safe, Absent, At
<1>2. CASE Tick \/ UNCHANGED vars
  <2>1. UNCHANGED <<file, times, pc, barred>> /\ clock' >= clock /\ clock' \in Nat
    BY <1>2 DEF Tick, vars, past, Ticks
  <2> QED  BY <2>1 DEF FilePenalty
<1>3. ASSUME NEW p \in Procs, Start(p) PROVE FilePenalty'
  <2>1. /\ UNCHANGED <<clock, file, barred>> /\ pc' = [pc EXCEPT ![p] = "idle"]
        /\ times' = [times EXCEPT ![p] = file]
    BY <1>3 DEF Start, GoTo, past
  <2> QED  BY <2>1 DEF FilePenalty
<1>4. ASSUME clock < barred
      PROVE  Kept(file) = file
  <2>1. Len(file) = Limit /\ file[1] + Window > barred /\ 1 \in 1 .. Len(file)
    BY <1>4 DEF FilePenalty
  <2>2. file[1] \in Int  BY <2>1, ElementOfSeq DEF Times
  <2>3. file[1] > clock - Window  BY <1>4, <2>1, <2>2
  <2> QED  BY <2>1, <2>3, KeptFull
<1>5. ASSUME NEW p \in Procs, Claim(p) PROVE FilePenalty'
  <2>1. /\ UNCHANGED <<clock, file, barred>> /\ pc[p] = "idle" /\ Len(Kept(times[p])) < Limit
    BY <1>5 DEF Claim, At
  <2>2. ~(clock < barred)
    <3> SUFFICES ASSUME clock < barred PROVE FALSE
      OBVIOUS
    <3>1. times[p] = file /\ Len(file) = Limit  BY <2>1 DEF FilePenalty
    <3> QED  BY <1>4, <2>1, <3>1
  <2> QED  BY <2>1, <2>2 DEF FilePenalty
<1>6. ASSUME NEW p \in Procs, Refuse(p) PROVE FilePenalty'
  <2>1. UNCHANGED <<clock, file, barred, pc>> /\ times' = times
    BY <1>6, KeptFull DEF Refuse, past
  <2> QED  BY <2>1 DEF FilePenalty
<1>7. ASSUME NEW p \in Procs, Save(p), pc[p] \in Penalising PROVE FilePenalty'
  <2>1. /\ UNCHANGED <<clock, times>> /\ file' = times[p] /\ barred' = warned[p]
        /\ pc' = [pc EXCEPT ![p] = "idle"] /\ pc[p] # "down" /\ pc[p] # "idle"
    BY <1>7 DEF Save, GoTo, Claiming, Penalising
  <2>2. \A q \in Procs : q # p => pc[q] = "down"  BY <1>1, <2>1
  <2> SUFFICES ASSUME clock < warned[p]
               PROVE  Len(times[p]) = Limit /\ times[p][1] + Window > warned[p]
    BY <2>1, <2>2 DEF FilePenalty
  <2>3. ~ClaimedFrom(warned[p] + 1)
    <3>1. claims # <<>> => claims[Len(claims)] <= clock /\ claims[Len(claims)] \in Int
      <4>1. claims \in Seq(Ticks) /\ Ordered(claims)  BY DEF Safe, TypeOK, InOrder
      <4>2. claims # <<>> => Len(claims) \in 1 .. Len(claims)
        BY <4>1, LenProperties, EmptySeq
      <4> QED  BY <4>1, <4>2, ElementOfSeq DEF Ordered, Ticks
    <3> QED  BY <3>1 DEF ClaimedFrom
  <2>4. Len(times[p]) = Limit /\ times[p][1] + Window = warned[p] + 1
    BY <2>3 DEF Waits
  <2>5. warned[p] \in Nat  OBVIOUS
  <2> QED  BY <2>4, <2>5
<1>8. ASSUME NEW p \in Procs,
             \/ Truncate(p) \/ SaveFails(p) \/ Send(p) \/ SendFails(p) \/ Answer(p)
             \/ Save(p) /\ pc[p] \notin Penalising
             \/ \E span \in world.spans : Penalise(p, span)
      PROVE  FilePenalty'
  <2>1. UNCHANGED <<clock, barred>> /\ pc[p] \notin {"down", "idle"}
    BY <1>8 DEF Truncate, Save, SaveFails, Send, SendFails, Answer, Penalise, At, own, past,
                Claiming, Penalising
  <2> QED  BY <2>1 DEF FilePenalty
<1>9. ASSUME NEW p \in Procs, Stop(p) PROVE FilePenalty'
  <2>1. /\ UNCHANGED <<clock, file, barred>> /\ pc' = [pc EXCEPT ![p] = "down"]
        /\ times' = [times EXCEPT ![p] = <<>>]
    BY <1>9 DEF Stop, GoTo
  <2> QED  BY <2>1 DEF FilePenalty
<1> QED
  BY <1>2, <1>3, <1>5, <1>6, <1>7, <1>8, <1>9 DEF Next

--------------------------------------------------------------------------------
\* The theorems

Inv ==
  /\ Safe
  /\ Remembered
  /\ RunCovered
  /\ Quiet => FileCovered
  /\ Waits
  /\ (~world.overlap /\ "read" \notin world.fails) => FilePenalty

\* The invariant is inductive.
LEMMA Invariant == Spec => []Inv
<1>1. Init => Inv
  <2> SUFFICES ASSUME Init PROVE Inv
    OBVIOUS
  <2>1. <<>> \in Times /\ <<>> \in Seq(Ticks) /\ Len(<<>>) = 0
    BY EmptySeq DEF Times
  <2>2. Safe
    <3>1. TypeOK  BY <2>1 DEF Init, TypeOK, Ticks, Places
    <3>2. InOrder /\ Absent  BY <2>1 DEF Init, InOrder, Ordered, Absent, At
    <3> QED  BY <3>1, <3>2 DEF Safe
  <2>3. Remembered
    BY RecalledEmpty DEF Init, Remembered
  <2>4. RunCovered /\ FileCovered
    BY <2>1 DEF Init, RunCovered, FileCovered, Covers, Spaced, At
  <2>5. Waits /\ FilePenalty
    BY DEF Init, Waits, FilePenalty
  <2> QED  BY <2>2, <2>3, <2>4, <2>5 DEF Inv
<1>2. Inv /\ [Next]_vars => Inv'
  <2> SUFFICES ASSUME Inv, [Next]_vars PROVE Inv'
    OBVIOUS
  <2>1. world' = world
    BY DEF Next, vars, Tick, Start, Claim, Refuse, Truncate, Save, SaveFails, Send, SendFails,
           Answer, Penalise, Stop
  <2>2. Safe' /\ Remembered' /\ RunCovered' /\ Waits'
    BY SafeStep, RememberedStep, RunCoveredStep, WaitsStep DEF Inv
  <2>3. Quiet' => FileCovered'
    BY <2>1, FileCoveredStep DEF Inv, Quiet
  <2>4. (~world.overlap /\ "read" \notin world.fails)' => FilePenalty'
    BY <2>1, FilePenaltyStep DEF Inv
  <2> QED
    BY <2>2, <2>3, <2>4 DEF Inv
<1> QED  BY <1>1, <1>2, PTL DEF Spec

\* Every variable has its type in every reachable state; no process ever holds
\* more than the allowance.
THEOREM TypeCorrect == Spec => []TypeOK
<1>1. Inv => TypeOK  BY DEF Inv, Safe
<1> QED  BY <1>1, Invariant, PTL

\* A run of a process never sends more than the allowance in any window, whatever
\* runs beside it and whatever the disk does, and neither do processes one after
\* another whose writes can be read; none is refused before the allowance was
\* claimed; and one that waits as long as it was told finds it free.
THEOREM AllowanceIsKept == Spec => []AllowanceKept
<1>1. Inv => AllowanceKept
  <2> SUFFICES ASSUME Inv PROVE AllowanceKept
    OBVIOUS
  <2>1. SixthRefused  BY DEF Inv, RunCovered, Quiet, FileCovered, SixthRefused
  <2>2. RefusedOnlyWhenUsed  BY RefusalIsRight DEF Inv
  <2>3. WaitIsEnough  BY WaitEnds DEF Inv
  <2> QED  BY <2>1, <2>2, <2>3 DEF AllowanceKept
<1> QED  BY <1>1, Invariant, PTL

\* A process asks nothing of a service that refused it until the span the service
\* named is over; nor does a later one, if one runs at a time, the refusal was
\* recorded and the file can be read.
THEOREM PenaltyIsHonoured == Spec => PenaltyHonoured
<1>1. Inv /\ [Next]_vars =>
        [\A p \in Procs : (pc'[p] = "asked" /\ pc[p] # "asked") =>
           /\ clock >= warned[p]
           /\ (~world.overlap /\ "read" \notin world.fails) => clock >= barred]_vars
  <2> SUFFICES ASSUME Inv, Next, NEW p \in Procs, pc'[p] = "asked", pc[p] # "asked"
               PROVE  /\ clock >= warned[p]
                      /\ (~world.overlap /\ "read" \notin world.fails) => clock >= barred
    OBVIOUS
  <2>1. pc[p] = "saved"
    BY DEF Next, Tick, Start, Claim, Refuse, Truncate, Save, SaveFails, Send, SendFails, Answer,
           Penalise, Stop, At, GoTo, Inv, Safe, TypeOK
  <2>2. clock \in Nat /\ barred \in Nat /\ warned[p] \in Nat /\ claims \in Seq(Ticks)
        /\ Ordered(claims)
    BY DEF Inv, Safe, TypeOK, Ticks, InOrder
  <2>3. clock >= warned[p]
    <3>1. claims # <<>> => claims[Len(claims)] <= clock /\ claims[Len(claims)] \in Int
      <4>1. claims # <<>> => Len(claims) \in 1 .. Len(claims)
        BY <2>2, LenProperties, EmptySeq
      <4> QED  BY <2>2, <4>1, ElementOfSeq DEF Ordered, Ticks
    <3>2. warned[p] > 0 => ClaimedFrom(warned[p] + 1)
      BY <2>1 DEF Inv, Waits, Penalising
    <3> QED  BY <2>2, <3>1, <3>2 DEF ClaimedFrom
  <2>4. (~world.overlap /\ "read" \notin world.fails) => clock >= barred
    BY <2>1, <2>2 DEF Inv, FilePenalty
  <2> QED  BY <2>3, <2>4
<1> QED  BY <1>1, Invariant, PTL DEF Spec, PenaltyHonoured
================================================================================

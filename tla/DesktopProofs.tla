------------------------------ MODULE DesktopProofs ------------------------------
(***************************************************************************)
(* Proofs about the window of Updates, Reports, Maintenance and Workbench. *)
(***************************************************************************)
EXTENDS DesktopInvariants, SequenceTheorems, FiniteSetTheorems, TLAPS

--------------------------------------------------------------------------------
\* Sequences

\* What is left of a sequence without one of its elements, and where.
LEMMA RemovedAt ==
  ASSUME NEW S, NEW s \in Seq(S), NEW k \in DOMAIN s
  PROVE  /\ RemoveAt(s, k) \in Seq(S)
         /\ DOMAIN RemoveAt(s, k) = 1 .. Len(s) - 1
         /\ \A i \in 1 .. Len(s) - 1 : RemoveAt(s, k)[i] = s[IF i < k THEN i ELSE i + 1]
<1>1. k \in 1 .. Len(s) /\ Len(s) \in Nat
  BY LenProperties
<1> DEFINE a == SubSeq(s, 1, k - 1)
           b == SubSeq(s, k + 1, Len(s))
<1>2. \A i \in 1 .. Len(s) : s[i] \in S
  BY ElementOfSeq
<1>3. /\ a \in Seq(S) /\ Len(a) = k - 1
      /\ \A i \in 1 .. k - 1 : a[i] = s[i]
  <2>1. \A i \in 1 .. k - 1 : s[i] \in S
    BY <1>1, <1>2
  <2>2. /\ a \in Seq(S)
        /\ Len(a) = IF 1 <= k - 1 THEN (k - 1) - 1 + 1 ELSE 0
        /\ \A i \in 1 .. (k - 1) - 1 + 1 : a[i] = s[1 + i - 1]
    BY <1>1, <2>1, SubSeqProperties
  <2> HIDE DEF a
  <2> QED  BY <1>1, <2>2
<1>4. /\ b \in Seq(S) /\ Len(b) = Len(s) - k
      /\ \A i \in 1 .. Len(s) - k : b[i] = s[k + i]
  <2>1. \A i \in k + 1 .. Len(s) : s[i] \in S
    BY <1>1, <1>2
  <2>2. /\ b \in Seq(S)
        /\ Len(b) = IF k + 1 <= Len(s) THEN Len(s) - (k + 1) + 1 ELSE 0
        /\ \A i \in 1 .. Len(s) - (k + 1) + 1 : b[i] = s[(k + 1) + i - 1]
    BY <1>1, <2>1, SubSeqProperties
  <2> HIDE DEF b
  <2> QED  BY <1>1, <2>2
<1> HIDE DEF a, b
<1>5. /\ a \o b \in Seq(S) /\ Len(a \o b) = Len(s) - 1
      /\ \A i \in 1 .. Len(s) - 1 : (a \o b)[i] = IF i <= k - 1 THEN a[i] ELSE b[i - (k - 1)]
  <2>1. /\ a \o b \in Seq(S) /\ Len(a \o b) = Len(a) + Len(b)
        /\ \A i \in 1 .. Len(a) + Len(b) : (a \o b)[i] = IF i <= Len(a) THEN a[i] ELSE b[i - Len(a)]
    BY <1>3, <1>4, ConcatProperties
  <2>2. Len(a) + Len(b) = Len(s) - 1
    BY <1>1, <1>3, <1>4
  <2> QED  BY <1>3, <2>1, <2>2
<1>6. RemoveAt(s, k) = a \o b
  BY DEF RemoveAt, a, b
<1>7. ASSUME NEW i \in 1 .. Len(s) - 1
      PROVE  (a \o b)[i] = s[IF i < k THEN i ELSE i + 1]
  <2>1. CASE i < k
    BY <1>1, <1>3, <1>5, <1>7, <2>1
  <2>2. CASE ~(i < k)
    <3>1. i - (k - 1) \in 1 .. Len(s) - k /\ k + (i - (k - 1)) = i + 1 /\ ~(i <= k - 1)
      BY <1>1, <1>7, <2>2
    <3> QED  BY <1>4, <1>5, <1>7, <2>2, <3>1
  <2> QED  BY <2>1, <2>2
<1> QED  BY <1>1, <1>5, <1>6, <1>7, LenProperties

\* Every sequence is one of what it holds.
LEMMA SeqOfOwn ==
  ASSUME NEW S, NEW s \in Seq(S)
  PROVE  s \in Seq(Range(s))
<1>1. \A i \in 1 .. Len(s) : s[i] \in Range(s)
  BY LenProperties DEF Range
<1> QED  BY <1>1, IsASeq, LenProperties, SeqOfRange

--------------------------------------------------------------------------------
\* A sequence of anything is a sequence of what it holds.
LEMMA OwnSeq ==
  ASSUME NEW S, NEW s \in Seq(S)
  PROVE  IsSeq(s)
BY SeqOfOwn DEF IsSeq

\* The domain of a sequence.
LEMMA SeqDomain ==
  ASSUME NEW s, IsSeq(s)
  PROVE  /\ Len(s) \in Nat /\ DOMAIN s = 1 .. Len(s)
         /\ s # <<>> => Len(s) >= 1
         /\ Len(s) >= 1 => s # <<>>
<1>1. s \in Seq(Range(s))
  BY DEF IsSeq
<1>2. Len(s) \in Nat /\ DOMAIN s = 1 .. Len(s)
  BY <1>1, LenProperties
<1>3. s # <<>> => Len(s) \in Nat \ {0}
  BY <1>1, EmptySeq
<1>4. Len(<<>>) = 0
  BY <1>1, EmptySeq
<1> QED  BY <1>2, <1>3, <1>4

\* The empty sequence is one.
LEMMA NoneSeq == IsSeq(<<>>) /\ Len(<<>>) = 0 /\ DOMAIN <<>> = {}
<1>1. <<>> \in Seq({}) /\ Len(<<>>) = 0
  BY EmptySeq
<1>2. IsSeq(<<>>)
  BY <1>1, OwnSeq
<1> QED  BY <1>1, <1>2, SeqDomain

\* A sequence of one.
LEMMA OneSeq ==
  ASSUME NEW e
  PROVE  IsSeq(<<e>>) /\ Len(<<e>>) = 1 /\ DOMAIN <<e>> = {1} /\ <<e>>[1] = e
<1>1. <<e>> \in Seq({e}) /\ Len(<<e>>) = 1 /\ <<e>>[1] = e
  OBVIOUS
<1>2. IsSeq(<<e>>)
  BY <1>1, OwnSeq
<1> QED  BY <1>1, <1>2, SeqDomain

\* What a sequence is extended by comes after all it has.
LEMMA AppendOwn ==
  ASSUME NEW s, IsSeq(s), NEW e
  PROVE  /\ IsSeq(Append(s, e)) /\ Len(Append(s, e)) = Len(s) + 1
         /\ DOMAIN Append(s, e) = 1 .. Len(s) + 1
         /\ \A i \in DOMAIN s : Append(s, e)[i] = s[i]
         /\ Append(s, e)[Len(s) + 1] = e
<1>1. s \in Seq(Range(s) \cup {e}) /\ e \in Range(s) \cup {e}
  BY SeqMonotonic DEF IsSeq
<1>2. /\ Append(s, e) \in Seq(Range(s) \cup {e}) /\ Len(Append(s, e)) = Len(s) + 1
      /\ \A i \in 1 .. Len(s) : Append(s, e)[i] = s[i]
      /\ Append(s, e)[Len(s) + 1] = e
  BY <1>1
<1>3. IsSeq(Append(s, e))
  BY <1>2, OwnSeq
<1> QED  BY <1>2, <1>3, SeqDomain

\* What is left after the first.
LEMMA TailOwn ==
  ASSUME NEW s, IsSeq(s), s # <<>>
  PROVE  /\ IsSeq(Tail(s)) /\ Len(Tail(s)) = Len(s) - 1
         /\ DOMAIN Tail(s) = 1 .. Len(s) - 1
         /\ \A i \in DOMAIN Tail(s) : Tail(s)[i] = s[i + 1]
         /\ 1 \in DOMAIN s /\ Head(s) = s[1]
<1>1. /\ Tail(s) \in Seq(Range(s)) /\ Len(Tail(s)) = Len(s) - 1
      /\ \A i \in 1 .. Len(Tail(s)) : Tail(s)[i] = s[i + 1]
  BY HeadTailProperties DEF IsSeq
<1>2. IsSeq(Tail(s))
  BY <1>1, OwnSeq
<1>3. Head(s) = s[1]
  BY DEF IsSeq
<1> QED  BY <1>1, <1>2, <1>3, SeqDomain

\* What is left after any of them.
LEMMA RemoveOwn ==
  ASSUME NEW s, IsSeq(s), NEW k \in DOMAIN s
  PROVE  /\ IsSeq(RemoveAt(s, k)) /\ Len(RemoveAt(s, k)) = Len(s) - 1
         /\ DOMAIN RemoveAt(s, k) = 1 .. Len(s) - 1
         /\ \A i \in DOMAIN RemoveAt(s, k) : RemoveAt(s, k)[i] = s[IF i < k THEN i ELSE i + 1]
<1>1. s \in Seq(Range(s))
  BY DEF IsSeq
<1>2. /\ RemoveAt(s, k) \in Seq(Range(s))
      /\ DOMAIN RemoveAt(s, k) = 1 .. Len(s) - 1
      /\ \A i \in 1 .. Len(s) - 1 : RemoveAt(s, k)[i] = s[IF i < k THEN i ELSE i + 1]
  BY <1>1, RemovedAt
<1>3. IsSeq(RemoveAt(s, k))
  BY <1>2, OwnSeq
<1>4. Len(RemoveAt(s, k)) \in Nat /\ DOMAIN RemoveAt(s, k) = 1 .. Len(RemoveAt(s, k))
  BY <1>3, SeqDomain
<1>5. Len(s) \in Nat /\ k \in 1 .. Len(s)
  BY SeqDomain
<1>6. Len(RemoveAt(s, k)) = Len(s) - 1
  BY <1>2, <1>4, <1>5
<1> QED  BY <1>2, <1>3, <1>6

\* One sequence after another.
LEMMA ConcatOwn ==
  ASSUME NEW s, IsSeq(s), NEW t, IsSeq(t)
  PROVE  /\ IsSeq(s \o t) /\ Len(s \o t) = Len(s) + Len(t)
         /\ DOMAIN (s \o t) = 1 .. Len(s) + Len(t)
         /\ \A i \in DOMAIN s : (s \o t)[i] = s[i]
         /\ \A i \in DOMAIN (s \o t) \ DOMAIN s : i - Len(s) \in DOMAIN t /\ (s \o t)[i] = t[i - Len(s)]
<1>1. s \in Seq(Range(s) \cup Range(t)) /\ t \in Seq(Range(s) \cup Range(t))
  BY SeqMonotonic DEF IsSeq
<1>2. /\ s \o t \in Seq(Range(s) \cup Range(t)) /\ Len(s \o t) = Len(s) + Len(t)
      /\ \A i \in 1 .. Len(s) + Len(t) :
           (s \o t)[i] = IF i <= Len(s) THEN s[i] ELSE t[i - Len(s)]
  BY <1>1, ConcatProperties
<1>3. IsSeq(s \o t)
  BY <1>2, OwnSeq
<1> QED  BY <1>2, <1>3, SeqDomain

\* A function over the places of a sequence.
LEMMA EachOwn ==
  ASSUME NEW s, IsSeq(s), NEW t, t = [k \in DOMAIN s |-> t[k]]
  PROVE  IsSeq(t) /\ Len(t) = Len(s) /\ DOMAIN t = DOMAIN s
<1>1. Len(s) \in Nat /\ DOMAIN s = 1 .. Len(s) /\ DOMAIN t = 1 .. Len(s)
  BY SeqDomain
<1>2. t \in [1 .. Len(s) -> Range(t)]
  BY <1>1 DEF Range
<1>3. t \in Seq(Range(t))
  BY <1>1, <1>2
<1>4. IsSeq(t)
  BY <1>3 DEF IsSeq
<1>5. Len(t) \in Nat /\ DOMAIN t = 1 .. Len(t)
  BY <1>4, SeqDomain
<1> QED  BY <1>1, <1>4, <1>5

--------------------------------------------------------------------------------
\* The pool and the event queue

\* Who asks for no more than some kinds asks for no more than others besides.
LEMMA MoreKinds ==
  ASSUME NEW K, NEW L, K \subseteq L, Extended(K)
  PROVE  Extended(L)
BY DEF Extended

\* So it is with what is asked for.
LEMMA AsksMore ==
  ASSUME NEW K, NEW L, K \subseteq L, NEW requests, Asks(requests, K)
  PROVE  Asks(requests, L)
BY DEF Asks

\* What the pages ask for are lookups.
LEMMA PagesLookUp == PageKinds \subseteq LookupKinds /\ {} \subseteq PageKinds
BY DEF PageKinds

\* To ask for nothing is to ask for no kind of work.
LEMMA AsksNone == ASSUME NEW K PROVE Asks(<<>>, K)
BY NoneSeq DEF Asks

\* One request asks for its kind of work.
LEMMA AsksOne == ASSUME NEW K, NEW r, r.ch[2] \in K PROVE Asks(<<r>>, K)
BY OneSeq DEF Asks

\* Two lists of requests, one after the other.
LEMMA AsksBoth ==
  ASSUME NEW K, NEW s, NEW t, Asks(s, K), Asks(t, K)
  PROVE  Asks(s \o t, K)
BY ConcatOwn DEF Asks

\* What is submitted comes after all that is there.
LEMMA Submitted ==
  ASSUME JobsOK(jobs), CancelOK, life' = life,
         NEW K, NEW requests, Asks(requests, K), Submit(requests)
  PROVE  /\ Extended(K)
         /\ Len(jobs') = Len(jobs) + Len(requests)
         /\ \A i \in DOMAIN jobs : jobs'[i] = jobs[i]
         /\ \A i \in DOMAIN jobs' \ DOMAIN jobs :
              /\ i - Len(jobs) \in DOMAIN requests
              /\ jobs'[i] = Worker(requests[i - Len(jobs)], FALSE)
<1> DEFINE workers == [k \in DOMAIN requests |-> Worker(requests[k], FALSE)]
<1>1. IsSeq(workers) /\ Len(workers) = Len(requests) /\ DOMAIN workers = DOMAIN requests
  BY EachOwn DEF Asks
<1>2. \A k \in DOMAIN requests : workers[k] = Worker(requests[k], FALSE)
  OBVIOUS
<1>3. jobs' = jobs \o workers
  BY DEF Submit
<1>4. IsSeq(jobs)
  BY DEF JobsOK
<1> HIDE DEF workers
<1>5. /\ IsSeq(jobs') /\ Len(jobs') = Len(jobs) + Len(requests)
      /\ DOMAIN jobs' = 1 .. Len(jobs) + Len(requests)
      /\ \A i \in DOMAIN jobs : jobs'[i] = jobs[i]
      /\ \A i \in DOMAIN jobs' \ DOMAIN jobs :
           i - Len(jobs) \in DOMAIN requests /\ jobs'[i] = Worker(requests[i - Len(jobs)], FALSE)
  BY <1>1, <1>2, <1>3, <1>4, ConcatOwn
<1>6. ASSUME NEW r, r.ch[2] \in K
      PROVE  LET w == Worker(r, FALSE) IN JobOK(w) /\ NewJob(w) /\ w.want.ch[2] \in K
  BY <1>6 DEF Worker, JobOK, IsJob, NewJob
<1>7. \A i \in DOMAIN jobs' \ DOMAIN jobs : JobOK(jobs'[i]) /\ NewJob(jobs'[i]) /\ jobs'[i].want.ch[2] \in K
  BY <1>5, <1>6 DEF Asks
<1>8. Len(jobs) <= Len(jobs')
  BY <1>4, <1>5, SeqDomain DEF Asks
<1>9. CancelOK'
  BY <1>5, <1>7 DEF CancelOK, NewJob
<1>10. JobsOK(jobs') /\ \A i \in DOMAIN jobs : Same(jobs[i], jobs'[i])
  BY <1>5, <1>7 DEF JobsOK, Same
<1>11. InTurn
  BY <1>5 DEF InTurn
<1> QED  BY <1>5, <1>7, <1>8, <1>9, <1>10, <1>11 DEF Extended

\* A job of a maintenance page comes after all that is there.
LEMMA JobAppended ==
  ASSUME JobsOK(jobs), CancelOK, life' = life,
         NEW want, jobs' = Append(jobs, Worker(want, FALSE))
  PROVE  /\ Extended({want.ch[2]})
         /\ Len(jobs') = Len(jobs) + 1
         /\ \A i \in DOMAIN jobs : jobs'[i] = jobs[i]
         /\ jobs'[Len(jobs) + 1] = Worker(want, FALSE)
<1>1. IsSeq(jobs)
  BY DEF JobsOK
<1> DEFINE w == Worker(want, FALSE)
<1>0. /\ IsSeq(Append(jobs, w)) /\ Len(Append(jobs, w)) = Len(jobs) + 1
      /\ DOMAIN Append(jobs, w) = 1 .. Len(jobs) + 1
      /\ \A i \in DOMAIN jobs : Append(jobs, w)[i] = jobs[i]
      /\ Append(jobs, w)[Len(jobs) + 1] = w
  BY <1>1, AppendOwn
<1>a. jobs' = Append(jobs, w)
  OBVIOUS
<1>3. JobOK(w) /\ NewJob(w) /\ w.want = want
  BY DEF Worker, JobOK, IsJob, NewJob
<1>b. w = Worker(want, FALSE)
  OBVIOUS
<1> HIDE DEF w
<1>2. /\ IsSeq(jobs') /\ Len(jobs') = Len(jobs) + 1
      /\ DOMAIN jobs' = 1 .. Len(jobs) + 1
      /\ \A i \in DOMAIN jobs : jobs'[i] = jobs[i]
      /\ jobs'[Len(jobs) + 1] = w
  BY <1>0, <1>a
<1>4. \A i \in DOMAIN jobs' \ DOMAIN jobs : i = Len(jobs) + 1
  BY <1>1, <1>2, SeqDomain
<1>5. Len(jobs) <= Len(jobs')
  BY <1>1, <1>2, SeqDomain
<1>6. CancelOK'
  BY <1>2, <1>3, <1>4 DEF CancelOK, NewJob
<1>7. InTurn
  BY <1>2 DEF InTurn
<1> QED  BY <1>2, <1>3, <1>b, <1>4, <1>5, <1>6, <1>7 DEF Extended, Same, JobsOK

\* What two assignments to a worker leave.
LEMMA TokenSet ==
  ASSUME NEW j, IsJob(j), NEW c, NEW h
  PROVE  [j EXCEPT !.cancelled = c, !.held = h] =
           [want |-> j.want, cancelled |-> c, begun |-> j.begun, saw |-> j.saw, held |-> h,
            at |-> j.at, note |-> j.note]
<1> DEFINE d == [j EXCEPT !.cancelled = c]
<1>1. d = [want |-> j.want, cancelled |-> c, begun |-> j.begun, saw |-> j.saw,
           held |-> j.held, at |-> j.at, note |-> j.note]
  BY DEF IsJob
<1>2. [j EXCEPT !.cancelled = c, !.held = h] = [d EXCEPT !.held = h]
  OBVIOUS
<1> HIDE DEF d
<1>3. [d EXCEPT !.held = h] =
        [want |-> j.want, cancelled |-> c, begun |-> j.begun, saw |-> j.saw, held |-> h,
         at |-> j.at, note |-> j.note]
  BY <1>1
<1> QED  BY <1>2, <1>3

\* Its token is the one that was assigned.
LEMMA JobToken ==
  ASSUME NEW i, NEW j, NEW c, NEW h, IsJob(i), j = [i EXCEPT !.cancelled = c, !.held = h]
  PROVE  j.cancelled = c
<1>1. j = [want |-> i.want, cancelled |-> c, begun |-> i.begun, saw |-> i.saw, held |-> h,
           at |-> i.at, note |-> i.note]
  BY TokenSet
<1> QED  BY <1>1

\* A job that differs in its token, and is held only if it was, is the same job.
LEMMA JobKept ==
  ASSUME NEW i, NEW j, NEW c, NEW h, JobOK(i),
         j = [i EXCEPT !.cancelled = c, !.held = h], h => i.held
  PROVE  JobOK(j) /\ Same(i, j) /\ j.begun = i.begun /\ j.saw = i.saw
<1>1. IsJob(i)
  BY DEF JobOK
<1>2. j = [want |-> i.want, cancelled |-> c, begun |-> i.begun, saw |-> i.saw, held |-> h,
           at |-> i.at, note |-> i.note]
  BY <1>1, TokenSet
<1>3. /\ j.want = i.want /\ j.begun = i.begun /\ j.held = h /\ j.at = i.at /\ j.note = i.note
      /\ j.saw = i.saw /\ IsJob(j)
  BY <1>2 DEF IsJob
<1> QED  BY <1>3 DEF JobOK, Same

\* Workers are changed where they are, in their tokens and in what the page holds.
LEMMA EachKept ==
  ASSUME JobsOK(jobs), NEW js, js = [k \in DOMAIN jobs |-> js[k]],
         \A k \in DOMAIN jobs :
           \E c, h : /\ js[k] = [jobs[k] EXCEPT !.cancelled = c, !.held = h]
                     /\ h => jobs[k].held
  PROVE  /\ JobsOK(js) /\ Len(js) = Len(jobs) /\ DOMAIN js = DOMAIN jobs
         /\ \A i \in DOMAIN jobs : Same(jobs[i], js[i]) /\ js[i].begun = jobs[i].begun
                               /\ js[i].saw = jobs[i].saw
<1>1. IsSeq(jobs)
  BY DEF JobsOK
<1>2. IsSeq(js) /\ Len(js) = Len(jobs) /\ DOMAIN js = DOMAIN jobs
  BY <1>1, EachOwn
<1>3. ASSUME NEW k \in DOMAIN jobs
      PROVE  JobOK(js[k]) /\ Same(jobs[k], js[k]) /\ js[k].begun = jobs[k].begun
             /\ js[k].saw = jobs[k].saw
  <2>1. PICK c, h : js[k] = [jobs[k] EXCEPT !.cancelled = c, !.held = h] /\ (h => jobs[k].held)
    OBVIOUS
  <2>2. JobOK(jobs[k])
    BY DEF JobsOK
  <2> QED  BY <2>1, <2>2, JobKept, Zenon
<1> QED  BY <1>2, <1>3 DEF JobsOK

\* A job goes on to another place in its code.
LEMMA Moved ==
  ASSUME JobsOK(jobs), NEW k \in DOMAIN jobs, NEW place, NEW note, Goes(k, place, note)
  PROVE  /\ IsSeq(jobs') /\ Len(jobs') = Len(jobs) /\ DOMAIN jobs' = DOMAIN jobs
         /\ \A i \in DOMAIN jobs \ {k} : jobs'[i] = jobs[i]
         /\ IsJob(jobs'[k])
         /\ jobs'[k].at = place /\ jobs'[k].note = note
         /\ jobs'[k].want = jobs[k].want /\ jobs'[k].begun = jobs[k].begun
         /\ jobs'[k].cancelled = jobs[k].cancelled /\ jobs'[k].held = jobs[k].held
         /\ jobs'[k].saw = jobs[k].saw
<1>1. IsSeq(jobs) /\ IsJob(jobs[k])
  BY DEF JobsOK, JobOK
<1> DEFINE middle == [jobs EXCEPT ![k].at = place]
<1>2. jobs' = [middle EXCEPT ![k].note = note]
  BY DEF Goes
<1>3. /\ DOMAIN middle = DOMAIN jobs /\ middle = [i \in DOMAIN jobs |-> middle[i]]
      /\ \A i \in DOMAIN jobs \ {k} : middle[i] = jobs[i]
      /\ middle[k] = [jobs[k] EXCEPT !.at = place]
  OBVIOUS
<1> HIDE DEF middle
<1>4. /\ DOMAIN jobs' = DOMAIN jobs /\ jobs' = [i \in DOMAIN jobs |-> jobs'[i]]
      /\ \A i \in DOMAIN jobs \ {k} : jobs'[i] = jobs[i]
      /\ jobs'[k] = [middle[k] EXCEPT !.note = note]
  BY <1>2, <1>3
<1>5. IsSeq(jobs') /\ Len(jobs') = Len(jobs)
  BY <1>1, <1>4, EachOwn
<1> DEFINE i == jobs[k]
           d == middle[k]
           j == jobs'[k]
<1>6. IsJob(i) /\ d = [i EXCEPT !.at = place] /\ j = [d EXCEPT !.note = note]
  BY <1>1, <1>3, <1>4
<1> HIDE DEF i, d, j
<1>7. d = [want |-> i.want, cancelled |-> i.cancelled, begun |-> i.begun, saw |-> i.saw,
           held |-> i.held, at |-> place, note |-> i.note]
  BY <1>6 DEF IsJob
<1>8. j = [want |-> i.want, cancelled |-> i.cancelled, begun |-> i.begun, saw |-> i.saw,
           held |-> i.held, at |-> place, note |-> note]
  BY <1>6, <1>7
<1>9. /\ IsJob(j) /\ j.at = place /\ j.note = note /\ j.want = i.want /\ j.begun = i.begun
      /\ j.cancelled = i.cancelled /\ j.held = i.held /\ j.saw = i.saw
  BY <1>8 DEF IsJob
<1> QED  BY <1>4, <1>5, <1>9 DEF i, j

\* A worker is begun.
LEMMA HasStarted ==
  ASSUME JobsOK(jobs), NEW k \in DOMAIN jobs, NEW saw,
         jobs' = [jobs EXCEPT ![k].begun = TRUE, ![k].saw = saw]
  PROVE  /\ IsSeq(jobs') /\ Len(jobs') = Len(jobs) /\ DOMAIN jobs' = DOMAIN jobs
         /\ \A i \in DOMAIN jobs \ {k} : jobs'[i] = jobs[i]
         /\ IsJob(jobs'[k]) /\ jobs'[k].begun
         /\ jobs'[k].at = jobs[k].at /\ jobs'[k].note = jobs[k].note
         /\ jobs'[k].want = jobs[k].want
         /\ jobs'[k].cancelled = jobs[k].cancelled /\ jobs'[k].held = jobs[k].held
         /\ jobs'[k].saw = saw
<1>1. IsSeq(jobs) /\ IsJob(jobs[k])
  BY DEF JobsOK, JobOK
<1> DEFINE middle == [jobs EXCEPT ![k].begun = TRUE]
<1>2. jobs' = [middle EXCEPT ![k].saw = saw]
  OBVIOUS
<1>3. /\ DOMAIN middle = DOMAIN jobs /\ middle = [i \in DOMAIN jobs |-> middle[i]]
      /\ \A i \in DOMAIN jobs \ {k} : middle[i] = jobs[i]
      /\ middle[k] = [jobs[k] EXCEPT !.begun = TRUE]
  OBVIOUS
<1> HIDE DEF middle
<1>4. /\ DOMAIN jobs' = DOMAIN jobs /\ jobs' = [i \in DOMAIN jobs |-> jobs'[i]]
      /\ \A i \in DOMAIN jobs \ {k} : jobs'[i] = jobs[i]
      /\ jobs'[k] = [middle[k] EXCEPT !.saw = saw]
  BY <1>2, <1>3
<1>5. IsSeq(jobs') /\ Len(jobs') = Len(jobs)
  BY <1>1, <1>4, EachOwn
<1> DEFINE i == jobs[k]
           d == middle[k]
           j == jobs'[k]
<1>6. IsJob(i) /\ d = [i EXCEPT !.begun = TRUE] /\ j = [d EXCEPT !.saw = saw]
  BY <1>1, <1>3, <1>4
<1> HIDE DEF i, d, j
<1>7. d = [want |-> i.want, cancelled |-> i.cancelled, begun |-> TRUE, saw |-> i.saw,
           held |-> i.held, at |-> i.at, note |-> i.note]
  BY <1>6 DEF IsJob
<1>8. j = [want |-> i.want, cancelled |-> i.cancelled, begun |-> TRUE, saw |-> saw,
           held |-> i.held, at |-> i.at, note |-> i.note]
  BY <1>6, <1>7
<1>9. /\ IsJob(j) /\ j.begun /\ j.at = i.at /\ j.note = i.note /\ j.want = i.want
      /\ j.cancelled = i.cancelled /\ j.held = i.held /\ j.saw = saw
  BY <1>8 DEF IsJob
<1> QED  BY <1>4, <1>5, <1>9 DEF i, j

\* The pool is left alone.
LEMMA LeftAlone ==
  ASSUME JobsOK(jobs), CancelOK, jobs' = jobs, life' \in {life, "draining"}, NEW K
  PROVE  Extended(K)
<1>1. CancelOK'
  BY DEF CancelOK
<1>2. Len(jobs) \in Nat
  BY SeqDomain DEF JobsOK
<1>3. InTurn
  BY DEF InTurn
<1> QED  BY <1>1, <1>2, <1>3 DEF Extended, Same

\* A worker has ended.
LEMMA Gone ==
  ASSUME JobsOK(jobs), CancelOK, life' = life, NEW k \in DOMAIN jobs, jobs' = RemoveAt(jobs, k)
  PROVE  /\ JobsOK(jobs') /\ CancelOK' /\ Len(jobs') = Len(jobs) - 1
         /\ \A i \in DOMAIN jobs' : (IF i < k THEN i ELSE i + 1) \in DOMAIN jobs \ {k}
         /\ \A i \in DOMAIN jobs' : jobs'[i] = jobs[IF i < k THEN i ELSE i + 1]
         /\ \A j \in DOMAIN jobs \ {k} : \E i \in DOMAIN jobs' : jobs'[i] = jobs[j]
<1> DEFINE js == RemoveAt(jobs, k)
<1>1. IsSeq(jobs) /\ Len(jobs) \in Nat /\ DOMAIN jobs = 1 .. Len(jobs)
  BY SeqDomain DEF JobsOK
<1>2. /\ IsSeq(js) /\ Len(js) = Len(jobs) - 1 /\ DOMAIN js = 1 .. Len(jobs) - 1
      /\ \A i \in DOMAIN js : js[i] = jobs[IF i < k THEN i ELSE i + 1]
  BY <1>1, RemoveOwn
<1>3. jobs' = js
  OBVIOUS
<1> HIDE DEF js
<1>4. \A i \in DOMAIN js : (IF i < k THEN i ELSE i + 1) \in DOMAIN jobs \ {k}
  BY <1>1, <1>2
<1>5. ASSUME NEW j \in DOMAIN jobs \ {k}
      PROVE  \E i \in DOMAIN js : js[i] = jobs[j]
  <2>1. CASE j < k
    BY <1>1, <1>2, <2>1
  <2>2. CASE ~(j < k)
    <3>1. j - 1 \in DOMAIN js /\ ~(j - 1 < k) /\ (j - 1) + 1 = j
      BY <1>1, <1>2, <2>2
    <3> QED  BY <1>2, <3>1
  <2> QED  BY <2>1, <2>2
<1>6. JobsOK(js)
  BY <1>2, <1>4 DEF JobsOK
<1>7. CancelOK'
  BY <1>2, <1>3, <1>4 DEF CancelOK
<1> QED  BY <1>2, <1>3, <1>4, <1>5, <1>6, <1>7

\* Another message.
LEMMA Heard ==
  ASSUME QueueOK(inbox), NEW m, MessageOK(m), inbox' = Append(inbox, m)
  PROVE  /\ QueueOK(inbox') /\ Len(inbox') = Len(inbox) + 1
         /\ DOMAIN inbox' = 1 .. Len(inbox) + 1
         /\ \A i \in DOMAIN inbox : i \in DOMAIN inbox' /\ inbox'[i] = inbox[i]
         /\ \A i \in DOMAIN inbox' \ DOMAIN inbox : i = Len(inbox) + 1 /\ inbox'[i] = m
         /\ Len(inbox) + 1 \in DOMAIN inbox' \ DOMAIN inbox
<1> DEFINE ms == Append(inbox, m)
<1>1. IsSeq(inbox) /\ Len(inbox) \in Nat /\ DOMAIN inbox = 1 .. Len(inbox)
  BY SeqDomain DEF QueueOK
<1>2. /\ IsSeq(ms) /\ Len(ms) = Len(inbox) + 1 /\ DOMAIN ms = 1 .. Len(inbox) + 1
      /\ \A i \in DOMAIN inbox : ms[i] = inbox[i]
      /\ ms[Len(inbox) + 1] = m
  BY <1>1, AppendOwn
<1>3. inbox' = ms
  OBVIOUS
<1> HIDE DEF ms
<1>4. \A i \in DOMAIN ms \ DOMAIN inbox : i = Len(inbox) + 1
  BY <1>1, <1>2
<1>5. \A i \in DOMAIN inbox : i \in DOMAIN ms
  BY <1>1, <1>2
<1>6. Len(inbox) + 1 \in DOMAIN ms \ DOMAIN inbox
  BY <1>1, <1>2
<1>7. \A i \in DOMAIN ms : MessageOK(ms[i])
  BY <1>2, <1>4 DEF QueueOK
<1> QED  BY <1>2, <1>3, <1>4, <1>5, <1>6, <1>7 DEF QueueOK

\* One message fewer.
LEMMA Handled ==
  ASSUME QueueOK(inbox), inbox # <<>>, inbox' = Tail(inbox)
  PROVE  /\ QueueOK(inbox') /\ Len(inbox') = Len(inbox) - 1
         /\ DOMAIN inbox' = 1 .. Len(inbox) - 1
         /\ 1 \in DOMAIN inbox /\ Head(inbox) = inbox[1]
         /\ \A i \in DOMAIN inbox' : i + 1 \in DOMAIN inbox \ {1} /\ inbox'[i] = inbox[i + 1]
         /\ \A j \in DOMAIN inbox \ {1} : j - 1 \in DOMAIN inbox' /\ inbox'[j - 1] = inbox[j]
<1> DEFINE ms == Tail(inbox)
<1>1. IsSeq(inbox) /\ Len(inbox) \in Nat /\ DOMAIN inbox = 1 .. Len(inbox)
  BY SeqDomain DEF QueueOK
<1>2. /\ IsSeq(ms) /\ Len(ms) = Len(inbox) - 1 /\ DOMAIN ms = 1 .. Len(inbox) - 1
      /\ \A i \in DOMAIN ms : ms[i] = inbox[i + 1]
      /\ 1 \in DOMAIN inbox /\ Head(inbox) = inbox[1]
  BY <1>1, TailOwn
<1>3. inbox' = ms
  OBVIOUS
<1> HIDE DEF ms
<1>4. \A i \in DOMAIN ms : i + 1 \in DOMAIN inbox \ {1}
  BY <1>1, <1>2
<1>5. \A j \in DOMAIN inbox \ {1} : j - 1 \in DOMAIN ms /\ (j - 1) + 1 = j
  BY <1>1, <1>2
<1>6. \A j \in DOMAIN inbox \ {1} : ms[j - 1] = inbox[j]
  BY <1>2, <1>5
<1>7. \A i \in DOMAIN ms : MessageOK(ms[i])
  BY <1>2, <1>4 DEF QueueOK
<1> QED  BY <1>2, <1>3, <1>4, <1>5, <1>6, <1>7 DEF QueueOK

--------------------------------------------------------------------------------
\* What a page asks the pool for

\* An institution page asks for at most five things.
LEMMA PartsAreFive ==
  ASSUME NEW p
  PROVE  PartsOf(p) \in Seq(Five) /\ IsSeq(PartsOf(p)) /\ Range(PartsOf(p)) \subseteq Five
<1>1. \A part \in Five : Asked(part) \in Seq(Five)
  BY DEF Asked
<1>2. \A s, t \in Seq(Five) : s \o t \in Seq(Five)
  BY ConcatProperties
<1>3. PartsOf(p) \in Seq(Five)
  <2>1. CASE p = "bank_lookup"
    <3>1. Asked("stats") \o Asked("options") \o Asked("portfolio") \o Asked("rows") \in Seq(Five)
      BY <1>1, <1>2 DEF Five
    <3> QED  BY <2>1, <3>1 DEF PartsOf
  <2>2. CASE p # "bank_lookup"
    <3>1. Asked("stats") \o Asked("portfolio") \o Asked("options") \o Asked("distributions")
            \o Asked("rows") \in Seq(Five)
      BY <1>1, <1>2 DEF Five
    <3> QED  BY <2>2, <3>1 DEF PartsOf
  <2> QED  BY <2>1, <2>2
<1>4. \A i \in DOMAIN PartsOf(p) : PartsOf(p)[i] \in Five
  BY <1>3, ElementOfSeq, LenProperties
<1> QED  BY <1>3, <1>4, OwnSeq DEF Range

\* What an institution page asks for are lookups.
LEMMA FiveAreLookups == Five \subseteq PageKinds /\ Five \subseteq LookupKinds
BY DEF Five, PageKinds, LookupKinds

\* So is what it asks for when an institution is selected.
LEMMA SelectionAsks ==
  ASSUME NEW p, NEW i
  PROVE  Asks(SelectionRequests(p, i), PageKinds) /\ Asks(SelectionRequests(p, i), LookupKinds)
<1> DEFINE r == SelectionRequests(p, i)
<1>1. r = [k \in DOMAIN PartsOf(p) |-> Request(<<p, PartsOf(p)[k]>>, i, None)]
  BY DEF SelectionRequests
<1>2. IsSeq(r) /\ DOMAIN r = DOMAIN PartsOf(p)
  <2>1. r = [k \in DOMAIN PartsOf(p) |-> r[k]]
    BY <1>1
  <2> HIDE DEF r
  <2> QED  BY <2>1, PartsAreFive, EachOwn
<1>3. ASSUME NEW k \in DOMAIN r
      PROVE  r[k].ch[2] \in PageKinds
  <2>1. PartsOf(p)[k] \in PageKinds
    BY <1>2, <1>3, PartsAreFive, FiveAreLookups DEF Range
  <2>2. r[k] = Request(<<p, PartsOf(p)[k]>>, i, None)
    BY <1>1, <1>2, <1>3
  <2> HIDE DEF r
  <2> QED  BY <2>1, <2>2 DEF Request
<1> HIDE DEF r
<1>4. Asks(r, PageKinds)
  BY <1>2, <1>3 DEF Asks
<1>5. Asks(r, LookupKinds)
  BY <1>4, AsksMore, PagesLookUp
<1> QED  BY <1>4, <1>5 DEF r

\* A filter asks for the rows.
LEMMA RowsAsk ==
  ASSUME NEW p, NEW f
  PROVE  Asks(<<RowsRequest(p, f)>>, PageKinds) /\ Asks(<<RowsRequest(p, f)>>, LookupKinds)
<1>1. RowsRequest(p, f).ch[2] \in PageKinds
  BY DEF RowsRequest, Request, PageKinds, LookupKinds
<1> QED  BY <1>1, AsksOne, AsksMore, PagesLookUp

\* The analytics page asks for its snapshot.
LEMMA LoadAsks ==
  ASSUME NEW page
  PROVE  Asks(LoadRequests(page), PageKinds) /\ Asks(LoadRequests(page), LookupKinds)
<1>1. Request(Snapshot, Version, page.filter).ch[2] \in PageKinds
  BY DEF Request, Snapshot, PageKinds, LookupKinds
<1>2. Asks(LoadRequests(page), PageKinds)
  BY <1>1, AsksOne, AsksNone DEF LoadRequests
<1> QED  BY <1>2, AsksMore, PagesLookUp

\* What it asks for is the one or both of them, or nothing.
LEMMA GaugesAsked == ASSUME NEW idle PROVE Asks(Measures(idle), GaugeKinds)
<1>1. Request(Health, None, None).ch[2] \in GaugeKinds /\ Request(Quality, None, None).ch[2] \in GaugeKinds
  BY DEF Request, Health, Quality, GaugeKinds
<1>2. Asks(<<Request(Health, None, None)>>, GaugeKinds) /\ Asks(<<Request(Quality, None, None)>>, GaugeKinds)
  BY <1>1, AsksOne
<1> DEFINE h == IF idle THEN <<Request(Health, None, None)>> ELSE <<>>
           q == <<Request(Quality, None, None)>>
<1>3. Asks(h, GaugeKinds) /\ Asks(q, GaugeKinds)
  BY <1>2, AsksNone
<1>4. Measures(idle) = IF "health" \notin visited THEN <<>> ELSE h \o q
  BY DEF Measures
<1> HIDE DEF h, q
<1> QED  BY <1>3, <1>4, AsksNone, AsksBoth

\* The gauges are lookups.
LEMMA MeasuresAsk == ASSUME NEW idle PROVE Asks(Measures(idle), LookupKinds)
BY GaugesAsked DEF Asks, GaugeKinds, LookupKinds

\* The window that is told of a new database asks for nothing else.
LEMMA ReloadAsks ==
  ASSUME JobsOK(jobs), CancelOK, life' = life, NEW open, NEW idle, Reload(open, idle)
  PROVE  Extended(LookupKinds)
<1> DEFINE requests == IF open THEN LoadRequests(ana) \o Measures(idle) ELSE <<>>
<1>1. Asks(requests, LookupKinds)
  BY LoadAsks, MeasuresAsk, AsksBoth, AsksNone
<1>2. Submit(requests)
  BY DEF Reload
<1> HIDE DEF requests
<1> QED  BY <1>1, <1>2, Submitted

\* A new search comes after all that is there, and sets the token of the one that is held.
LEMMA SearchPooled ==
  ASSUME Pool, NEW q \in Bins, SearchBin(q)
  PROVE  /\ Extended({"lookup"}) /\ inbox' = inbox /\ db' = db /\ life = "running" /\ life' = life
         /\ \A i \in DOMAIN jobs' \ DOMAIN jobs : jobs'[i].want = Request(BinSearch, q, None)
<1>a. JobsOK(jobs) /\ CancelOK
  BY DEF Pool
<1>1. /\ life = "running" /\ life' = life /\ inbox' = inbox /\ db' = db
      /\ jobs' = SearchPool(q)
  BY DEF SearchBin, Acting
<1>2. CASE db.open
  <2> DEFINE js == [k \in DOMAIN jobs |-> Superseded(jobs[k])]
             w  == Worker(Request(BinSearch, q, None), TRUE)
  <2>1. jobs' = Append(js, w)
    BY <1>1, <1>2 DEF SearchPool, Each
  <2>2. /\ js = [k \in DOMAIN jobs |-> js[k]]
        /\ \A k \in DOMAIN jobs :
             js[k] = [jobs[k] EXCEPT !.cancelled = jobs[k].cancelled \/ jobs[k].held, !.held = FALSE]
    BY DEF Superseded
  <2>3. JobOK(w) /\ NewJob(w) /\ w.want = Request(BinSearch, q, None) /\ w.want.ch = BinSearch
    BY DEF Worker, JobOK, IsJob, Request, NewJob
  <2> HIDE DEF js, w
  <2>4. /\ JobsOK(js) /\ Len(js) = Len(jobs) /\ DOMAIN js = DOMAIN jobs
        /\ \A i \in DOMAIN jobs : Same(jobs[i], js[i]) /\ js[i].begun = jobs[i].begun
    <3>1. \A k \in DOMAIN jobs :
            \E c, h : /\ js[k] = [jobs[k] EXCEPT !.cancelled = c, !.held = h]
                      /\ h => jobs[k].held
      BY <2>2, Zenon
    <3> QED  BY <1>a, <2>2, <3>1, EachKept, ZenonT(60)
  <2>5. ASSUME NEW k \in DOMAIN jobs, js[k].cancelled
        PROVE  js[k].want.ch \in {BinSearch, Install}
    <3>1. IsJob(jobs[k]) /\ (jobs[k].held => jobs[k].want.ch = BinSearch)
      BY <1>a DEF JobsOK, JobOK
    <3>2. js[k].cancelled = (jobs[k].cancelled \/ jobs[k].held)
      BY <2>2, <3>1, JobToken, Zenon
    <3>3. jobs[k].cancelled \/ jobs[k].held
      BY <2>5, <3>2, Zenon
    <3>4. jobs[k].want.ch \in {BinSearch, Install}
      BY <1>a, <1>1, <3>1, <3>3 DEF CancelOK
    <3> QED  BY <2>4, <3>4 DEF Same
  <2>6. /\ IsSeq(jobs') /\ Len(jobs') = Len(js) + 1 /\ DOMAIN jobs' = 1 .. Len(js) + 1
        /\ \A i \in DOMAIN js : jobs'[i] = js[i]
        /\ jobs'[Len(js) + 1] = w
    <3>1. IsSeq(js)
      BY <2>4 DEF JobsOK
    <3>2. /\ IsSeq(Append(js, w)) /\ Len(Append(js, w)) = Len(js) + 1
          /\ DOMAIN Append(js, w) = 1 .. Len(js) + 1
          /\ \A i \in DOMAIN js : Append(js, w)[i] = js[i]
          /\ Append(js, w)[Len(js) + 1] = w
      BY <3>1, AppendOwn
    <3> QED  BY <2>1, <3>2
  <2>7. Len(jobs) \in Nat /\ DOMAIN jobs = 1 .. Len(jobs)
    BY <1>a, SeqDomain DEF JobsOK
  <2>8. \A i \in DOMAIN jobs' \ DOMAIN jobs : i = Len(js) + 1 /\ jobs'[i] = w
    BY <2>4, <2>6, <2>7
  <2>9. JobsOK(jobs')
    BY <2>3, <2>4, <2>6, <2>8 DEF JobsOK
  <2>10. CancelOK'
    BY <2>3, <2>4, <2>5, <2>6, <2>8 DEF CancelOK, NewJob
  <2>11. BinSearch[2] = "lookup"
    BY DEF BinSearch
  <2>12. InTurn
    BY <2>4, <2>6 DEF InTurn
  <2>13. Extended({"lookup"})
    BY <2>3, <2>4, <2>6, <2>7, <2>8, <2>9, <2>10, <2>11, <2>12 DEF Extended
  <2> QED  BY <1>1, <2>3, <2>8, <2>13
<1>3. CASE ~db.open
  <2> DEFINE js == [k \in DOMAIN jobs |-> [jobs[k] EXCEPT !.cancelled = @ \/ jobs[k].held]]
  <2>1. jobs' = js
    BY <1>1, <1>3 DEF SearchPool, Each
  <2>2. js = [k \in DOMAIN jobs |-> js[k]]
    OBVIOUS
  <2>3. ASSUME NEW k \in DOMAIN jobs
        PROVE  /\ js[k].want = jobs[k].want /\ js[k].begun = jobs[k].begun
               /\ js[k].held = jobs[k].held /\ js[k].at = jobs[k].at /\ js[k].note = jobs[k].note
               /\ js[k].saw = jobs[k].saw
               /\ IsJob(js[k]) /\ js[k].cancelled = (jobs[k].cancelled \/ jobs[k].held)
    <3> DEFINE i == jobs[k]
               j == js[k]
    <3>1. IsJob(i)
      BY <1>a DEF JobsOK, JobOK
    <3>2. j = [i EXCEPT !.cancelled = i.cancelled \/ i.held]
      OBVIOUS
    <3> HIDE DEF i, j
    <3>3. j = [want |-> i.want, cancelled |-> i.cancelled \/ i.held, begun |-> i.begun,
               saw |-> i.saw, held |-> i.held, at |-> i.at, note |-> i.note]
      BY <3>1, <3>2 DEF IsJob
    <3>4. /\ j.want = i.want /\ j.begun = i.begun /\ j.held = i.held /\ j.at = i.at /\ j.note = i.note
          /\ j.saw = i.saw
          /\ IsJob(j) /\ j.cancelled = (i.cancelled \/ i.held)
      BY <3>3 DEF IsJob
    <3> QED  BY <3>4 DEF i, j
  <2> HIDE DEF js
  <2>4. IsSeq(js) /\ Len(js) = Len(jobs) /\ DOMAIN js = DOMAIN jobs /\ Len(jobs) \in Nat
    BY <1>a, <2>2, EachOwn, SeqDomain DEF JobsOK
  <2>5. \A k \in DOMAIN jobs : JobOK(jobs[k])
    BY <1>a DEF JobsOK
  <2>6. JobsOK(js) /\ \A k \in DOMAIN jobs : Same(jobs[k], js[k])
    BY <2>3, <2>4, <2>5 DEF JobsOK, JobOK, Same
  <2>7. CancelOK'
    <3>1. ASSUME NEW k \in DOMAIN jobs, js[k].cancelled
          PROVE  js[k].want.ch \in {BinSearch, Install}
      <4>1. jobs[k].cancelled \/ jobs[k].held
        BY <2>3, <3>1, Zenon
      <4> QED  BY <1>a, <1>1, <2>3, <2>5, <4>1 DEF CancelOK, JobOK
    <3> QED  BY <2>1, <2>4, <3>1 DEF CancelOK
  <2>8. InTurn
    BY <2>1, <2>3 DEF InTurn
  <2>9. Extended({"lookup"})
    BY <2>1, <2>4, <2>6, <2>7, <2>8 DEF Extended
  <2> QED  BY <1>1, <2>1, <2>4, <2>9
<1> QED  BY <1>2, <1>3

\* What the user does on the pages that look things up.
LEMMA UserLooks ==
  ASSUME Pool,
         \/ \E q \in Bins : SearchBin(q)
         \/ ClearBin \/ CheckBinlist
         \/ \E t \in Texts : RunAdvanced(t)
         \/ \E p \in Browsers :
              \/ \E n \in Names : SearchName(p, n)
              \/ ClearName(p)
              \/ \E i \in Institutions : SelectInstitution(p, i)
              \/ \E f \in Filters \cup {None} : SetFilter(p, f)
         \/ RefreshAnalytics \/ \E f \in Filters \cup {None} : ScopeAnalytics(f)
         \/ OpenPalette \/ ClosePalette \/ \E t \in Texts \cup {None} : TypeText(t)
         \/ Debounced
         \/ SetRemember \/ ClearHistory
  PROVE  /\ Extended(PageKinds) /\ Extended(LookupKinds)
         /\ inbox' = inbox /\ db' = db /\ life = "running" /\ life' = life
<1> DEFINE Goal == Extended(PageKinds) /\ inbox' = inbox /\ db' = db /\ life = "running" /\ life' = life
<1>a. JobsOK(jobs) /\ CancelOK
  BY DEF Pool
<1>b. ASSUME NEW requests, Asks(requests, PageKinds), Submit(requests), life' = life
      PROVE  Extended(PageKinds)
  BY <1>a, <1>b, Submitted
<1>c. ASSUME jobs' = jobs, life' = life
      PROVE  Extended(PageKinds)
  BY <1>a, <1>c, LeftAlone
<1>1. ASSUME NEW q \in Bins, SearchBin(q) PROVE Goal
  <2>1. "lookup" \in PageKinds
    BY DEF PageKinds, LookupKinds
  <2> QED  BY <1>1, <2>1, SearchPooled, MoreKinds
<1>2. ASSUME ClearBin PROVE Goal
  BY <1>2, <1>c DEF ClearBin, Acting
<1>3. ASSUME CheckBinlist PROVE Goal
  <2>1. Asks(<<Request(Opinion, bin.query, None)>>, PageKinds)
    BY AsksOne DEF Request, Opinion, PageKinds, LookupKinds
  <2> QED  BY <1>3, <1>b, <2>1 DEF CheckBinlist, Acting
<1>4. ASSUME NEW t \in Texts, RunAdvanced(t) PROVE Goal
  <2>1. Asks(<<Request(Advanced, t, remember)>>, PageKinds)
    BY AsksOne DEF Request, Advanced, PageKinds, LookupKinds
  <2> QED  BY <1>4, <1>b, <2>1 DEF RunAdvanced, Acting
<1>5. ASSUME NEW p \in Browsers, NEW n \in Names, SearchName(p, n) PROVE Goal
  <2>1. Asks(IF db.open THEN <<Request(Named(p), n, None)>> ELSE <<>>, PageKinds)
    BY AsksOne, AsksNone DEF Request, Named, PageKinds, LookupKinds
  <2> QED  BY <1>5, <1>b, <2>1 DEF SearchName, Acting
<1>6. ASSUME NEW p \in Browsers, ClearName(p) PROVE Goal
  BY <1>6, <1>c DEF ClearName, Acting
<1>7. ASSUME NEW p \in Browsers, NEW i \in Institutions, SelectInstitution(p, i) PROVE Goal
  BY <1>7, <1>b, SelectionAsks DEF SelectInstitution, Acting
<1>8. ASSUME NEW p \in Browsers, NEW f \in Filters \cup {None}, SetFilter(p, f) PROVE Goal
  BY <1>8, <1>b, RowsAsk DEF SetFilter, Acting
<1>9. ASSUME RefreshAnalytics PROVE Goal
  BY <1>9, <1>b, LoadAsks DEF RefreshAnalytics, Acting
<1>10. ASSUME NEW f \in Filters \cup {None}, ScopeAnalytics(f) PROVE Goal
  BY <1>10, <1>b, LoadAsks DEF ScopeAnalytics, Acting
<1>11. ASSUME OpenPalette PROVE Goal
  BY <1>11, <1>c DEF OpenPalette, Acting
<1>12. ASSUME ClosePalette PROVE Goal
  BY <1>12, <1>c DEF ClosePalette, Acting
<1>13. ASSUME NEW t \in Texts \cup {None}, TypeText(t) PROVE Goal
  BY <1>13, <1>c DEF TypeText, Acting
<1>14. ASSUME Debounced PROVE Goal
  <2>1. Asks(IF palette.text # None /\ db.open THEN <<Request(Suggest, palette.text, None)>> ELSE <<>>,
             PageKinds)
    BY AsksOne, AsksNone DEF Request, Suggest, PageKinds, LookupKinds
  <2> QED  BY <1>14, <1>b, <2>1 DEF Debounced
<1>15. ASSUME SetRemember PROVE Goal
  BY <1>15, <1>c DEF SetRemember, Acting
<1>16. ASSUME ClearHistory PROVE Goal
  BY <1>16, <1>c DEF ClearHistory, Acting
<1> QED  BY <1>1, <1>2, <1>3, <1>4, <1>5, <1>6, <1>7, <1>8, <1>9, <1>10, <1>11, <1>12, <1>13,
            <1>14, <1>15, <1>16, MoreKinds, PagesLookUp

\* A worker is begun, or ends before its code has.
LEMMA Starts ==
  ASSUME Pool, NEW k \in DOMAIN jobs, Start(k)
  PROVE  (Extended(LookupKinds) /\ inbox' = inbox) \/ Dropped(k)
<1>a. JobsOK(jobs) /\ CancelOK /\ JobOK(jobs[k]) /\ ~jobs[k].begun /\ life' = life
  BY DEF Pool, JobsOK, Start
<1>1. CASE jobs[k].cancelled
  <2>1. jobs' = RemoveAt(jobs, k) /\ jobs[k].at = "start"
    BY <1>a, <1>1 DEF Start, JobOK
  <2>2. inbox' = IF Hears(jobs[k].want) THEN Append(inbox, Answered(jobs[k].want, "cancelled", Unread))
                 ELSE inbox
    BY <1>1 DEF Start
  <2> QED  BY <1>1, <2>1, <2>2 DEF Dropped
<1>2. CASE ~jobs[k].cancelled
  <2>1. jobs' = [jobs EXCEPT ![k].begun = TRUE, ![k].saw = Seen(jobs[k].want)] /\ inbox' = inbox
    BY <1>2 DEF Start
  <2>2. /\ IsSeq(jobs') /\ Len(jobs') = Len(jobs) /\ DOMAIN jobs' = DOMAIN jobs
        /\ \A i \in DOMAIN jobs \ {k} : jobs'[i] = jobs[i]
        /\ IsJob(jobs'[k]) /\ jobs'[k].begun
        /\ jobs'[k].at = jobs[k].at /\ jobs'[k].note = jobs[k].note
        /\ jobs'[k].want = jobs[k].want
        /\ jobs'[k].cancelled = jobs[k].cancelled /\ jobs'[k].held = jobs[k].held
        /\ jobs'[k].saw = Seen(jobs[k].want)
    <3> DEFINE s == Seen(jobs[k].want)
    <3>1. jobs' = [jobs EXCEPT ![k].begun = TRUE, ![k].saw = s]
      BY <2>1
    <3> HIDE DEF s
    <3>2. /\ IsSeq(jobs') /\ Len(jobs') = Len(jobs) /\ DOMAIN jobs' = DOMAIN jobs
          /\ \A i \in DOMAIN jobs \ {k} : jobs'[i] = jobs[i]
          /\ IsJob(jobs'[k]) /\ jobs'[k].begun
          /\ jobs'[k].at = jobs[k].at /\ jobs'[k].note = jobs[k].note
          /\ jobs'[k].want = jobs[k].want
          /\ jobs'[k].cancelled = jobs[k].cancelled /\ jobs'[k].held = jobs[k].held
          /\ jobs'[k].saw = s
      BY <1>a, <3>1, HasStarted
    <3> QED  BY <3>2 DEF s
  <2>3. JobOK(jobs'[k])
    BY <1>a, <2>2 DEF JobOK
  <2>4. JobsOK(jobs')
    BY <1>a, <2>2, <2>3 DEF JobsOK
  <2>5. CancelOK'
    BY <1>2, <1>a, <2>2 DEF CancelOK
  <2>6. \A i \in DOMAIN jobs : Same(jobs[i], jobs'[i])
    BY <2>2 DEF Same
  <2>7. Len(jobs) \in Nat
    BY <1>a, SeqDomain DEF JobsOK
  <2>8. \A h \in 1 .. k - 1 : jobs[h].begun
    BY DEF Start
  <2>9. InTurn
    BY <2>2, <2>8 DEF InTurn
  <2> QED  BY <2>1, <2>2, <2>4, <2>5, <2>6, <2>7, <2>9 DEF Extended
<1> QED  BY <1>1, <1>2

\* No lookup is refused for shrinking the database.
LEMMA NoneShrinks ==
  ASSUME NEW want, NEW saw PROVE "shrinks" \notin Outcomes(want, saw)
BY DEF Outcomes

\* A lookup ends.
LEMMA Finishes ==
  ASSUME Pool, NEW k \in DOMAIN jobs, Finish(k)
  PROVE  Dropped(k)
<1>1. JobOK(jobs[k])
  BY DEF Pool, JobsOK
<1>2. jobs[k].at = "start"
  BY <1>1, JobKindsAssumption DEF JobOK, Finish
<1>3. PICK outcome \in Outcomes(jobs[k].want, jobs[k].saw) :
        inbox' = Append(inbox, Answered(jobs[k].want, outcome, jobs[k].saw))
  BY DEF Finish
<1>4. outcome # "shrinks"
  BY <1>3, NoneShrinks
<1> QED  BY <1>2, <1>3, <1>4 DEF Dropped, Finish

\* The page lets go of the worker whose answer it has.
LEMMA ReleasedPool ==
  ASSUME Pool, NEW m, OnBinResult(m), life' = life
  PROVE  Extended({})
<1>a. JobsOK(jobs) /\ CancelOK
  BY DEF Pool
<1> DEFINE js == [k \in DOMAIN jobs |-> Released(jobs[k])]
<1>1. jobs' = js /\ m.want.ch = BinSearch
  BY DEF OnBinResult, Each
<1>2. js = [k \in DOMAIN jobs |-> js[k]]
  OBVIOUS
<1>3. ASSUME NEW k \in DOMAIN jobs
      PROVE  /\ js[k].want = jobs[k].want /\ js[k].begun = jobs[k].begun
             /\ js[k].held = FALSE /\ js[k].at = jobs[k].at /\ js[k].note = jobs[k].note
             /\ js[k].saw = jobs[k].saw
             /\ IsJob(js[k]) /\ js[k].cancelled = jobs[k].cancelled
  <2> DEFINE i == jobs[k]
             j == js[k]
  <2>1. IsJob(i)
    BY <1>a DEF JobsOK, JobOK
  <2>2. j = [i EXCEPT !.held = FALSE]
    BY DEF Released
  <2> HIDE DEF i, j
  <2>3. j = [want |-> i.want, cancelled |-> i.cancelled, begun |-> i.begun,
             saw |-> i.saw, held |-> FALSE, at |-> i.at, note |-> i.note]
    BY <2>1, <2>2 DEF IsJob
  <2>4. /\ j.want = i.want /\ j.begun = i.begun /\ j.held = FALSE /\ j.at = i.at /\ j.note = i.note
        /\ j.saw = i.saw
        /\ IsJob(j) /\ j.cancelled = i.cancelled
    BY <2>3 DEF IsJob
  <2> QED  BY <2>4 DEF i, j
<1> HIDE DEF js
<1>4. IsSeq(js) /\ Len(js) = Len(jobs) /\ DOMAIN js = DOMAIN jobs /\ Len(jobs) \in Nat
  BY <1>a, <1>2, EachOwn, SeqDomain DEF JobsOK
<1>5. \A k \in DOMAIN jobs : JobOK(jobs[k])
  BY <1>a DEF JobsOK
<1>6. JobsOK(js) /\ \A k \in DOMAIN jobs : Same(jobs[k], js[k])
  BY <1>3, <1>4, <1>5 DEF JobsOK, JobOK, Same
<1>7. CancelOK'
  BY <1>a, <1>1, <1>3, <1>4 DEF CancelOK
<1>8. InTurn
  BY <1>1, <1>3 DEF InTurn
<1>9. Extended({})
  BY <1>1, <1>4, <1>6, <1>7, <1>8 DEF Extended
<1> QED  BY <1>9

\* An answer is applied by the page that asked.
LEMMA Answering ==
  ASSUME Pool, NEW m, Handle(m), life' = life
  PROVE  Extended(PageKinds) /\ Extended(LookupKinds) /\ m.want.ch[2] \in LookupKinds
<1>a. JobsOK(jobs) /\ CancelOK
  BY DEF Pool
<1>b. ASSUME jobs' = jobs PROVE Extended(PageKinds)
  BY <1>a, <1>b, LeftAlone
<1> DEFINE Goal == Extended(PageKinds) /\ m.want.ch[2] \in LookupKinds
<1>1. ASSUME OnBinResult(m) PROVE Goal
  <2>1. Extended({}) /\ {} \subseteq PageKinds
    BY <1>1, ReleasedPool, PagesLookUp
  <2>2. Extended(PageKinds)
    BY <2>1, MoreKinds
  <2> QED  BY <1>1, <2>2 DEF OnBinResult, BinSearch, LookupKinds
<1>2. ASSUME OnExternalReading(m) PROVE Goal
  BY <1>2, <1>b DEF OnExternalReading, Opinion, LookupKinds
<1>3. ASSUME OnAdvancedResult(m) PROVE Goal
  BY <1>3, <1>b DEF OnAdvancedResult, Advanced, LookupKinds
<1>4. ASSUME NEW p \in Browsers, OnMatches(p, m) PROVE Goal
  <2>1. m.want.ch[2] \in LookupKinds
    BY <1>4 DEF OnMatches, Named, LookupKinds
  <2>2. CASE m.outcome = "found"
    <3>1. Submit(SelectionRequests(p, Head(MatchesOf[m.want.of])))
      BY <1>4, <2>2 DEF OnMatches
    <3> QED  BY <1>a, <2>1, <3>1, SelectionAsks, Submitted
  <2>3. CASE m.outcome # "found"
    BY <1>4, <1>b, <2>1, <2>3 DEF OnMatches
  <2> QED  BY <2>2, <2>3
<1>5. ASSUME NEW p \in Browsers, OnOptions(p, m) PROVE Goal
  BY <1>5, <1>b DEF OnOptions, LookupKinds
<1>6. ASSUME NEW p \in Browsers, OnPart(p, m) PROVE Goal
  <2>1. PICK part \in Range(PartsOf(p)) : m.want.ch = <<p, part>>
    BY <1>6 DEF OnPart
  <2>2. part \in LookupKinds
    BY <2>1, PartsAreFive, FiveAreLookups
  <2> QED  BY <1>6, <1>b, <2>1, <2>2 DEF OnPart
<1>7. ASSUME NEW p \in Browsers, OnPartFailed(p, m) PROVE Goal
  <2>1. PICK part \in Range(PartsOf(p)) : m.want.ch = <<p, part>>
    BY <1>7 DEF OnPartFailed, PartChannels
  <2>2. part \in LookupKinds
    BY <2>1, PartsAreFive, FiveAreLookups
  <2> QED  BY <1>7, <1>b, <2>1, <2>2 DEF OnPartFailed
<1>8. ASSUME OnSnapshot(m) PROVE Goal
  BY <1>8, <1>b DEF OnSnapshot, Snapshot, LookupKinds
<1>9. ASSUME OnSuggestions(m) PROVE Goal
  BY <1>9, <1>b DEF OnSuggestions, Suggest, LookupKinds
<1>10. ASSUME OnGauge(m) PROVE Goal
  BY <1>10, <1>b DEF OnGauge, Gauges, Health, Quality, LookupKinds
<1> QED  BY <1>1, <1>2, <1>3, <1>4, <1>5, <1>6, <1>7, <1>8, <1>9, <1>10, MoreKinds, PagesLookUp DEF Handle

\* The pool when the window is closed: everyone is told to stop, and stays where they are.
LEMMA ClosedPool ==
  ASSUME Pool, CloseWindow
  PROVE  /\ Extended(LookupKinds)
         /\ DOMAIN jobs' = DOMAIN jobs /\ \A k \in DOMAIN jobs : jobs'[k].cancelled
<1> DEFINE js == [k \in DOMAIN jobs |-> Cancelled(jobs[k])]
<1>a. JobsOK(jobs)
  BY DEF Pool
<1>1. jobs' = js /\ life = "running" /\ life' = "draining" /\ inbox' = inbox /\ db' = db
  BY DEF CloseWindow, Each
<1>2. js = [k \in DOMAIN jobs |-> js[k]]
  OBVIOUS
<1>3. ASSUME NEW k \in DOMAIN jobs
      PROVE  /\ js[k].want = jobs[k].want /\ js[k].begun = jobs[k].begun
             /\ js[k].held = jobs[k].held /\ js[k].at = jobs[k].at /\ js[k].note = jobs[k].note
             /\ js[k].saw = jobs[k].saw
             /\ IsJob(js[k]) /\ js[k].cancelled
  <2> DEFINE i == jobs[k]
             j == js[k]
  <2>1. IsJob(i)
    BY <1>a DEF JobsOK, JobOK
  <2>2. j = [i EXCEPT !.cancelled = TRUE]
    BY DEF Cancelled
  <2> HIDE DEF i, j
  <2>3. j = [want |-> i.want, cancelled |-> TRUE, begun |-> i.begun,
             saw |-> i.saw, held |-> i.held, at |-> i.at, note |-> i.note]
    BY <2>1, <2>2 DEF IsJob
  <2>4. /\ j.want = i.want /\ j.begun = i.begun /\ j.held = i.held /\ j.at = i.at /\ j.note = i.note
        /\ j.saw = i.saw
        /\ IsJob(j) /\ j.cancelled
    BY <2>3 DEF IsJob
  <2> QED  BY <2>4 DEF i, j
<1> HIDE DEF js
<1>4. IsSeq(js) /\ Len(js) = Len(jobs) /\ DOMAIN js = DOMAIN jobs /\ Len(jobs) \in Nat
  BY <1>a, <1>2, EachOwn, SeqDomain DEF JobsOK
<1>5. \A k \in DOMAIN jobs : JobOK(jobs[k])
  BY <1>a DEF JobsOK
<1>6. JobsOK(js) /\ \A k \in DOMAIN jobs : Same(jobs[k], js[k])
  BY <1>3, <1>4, <1>5 DEF JobsOK, JobOK, Same
<1>7. CancelOK'
  BY <1>1 DEF CancelOK
<1>8. InTurn
  BY <1>1, <1>3 DEF InTurn
<1>9. Extended(LookupKinds)
  BY <1>1, <1>4, <1>6, <1>7, <1>8 DEF Extended
<1> QED  BY <1>1, <1>3, <1>4, <1>9

\* What the pages, the pool and the event loop can do to the pool and the event queue.
LEMMA Looking ==
  ASSUME Pool, Lookups
  PROVE  \/ /\ Extended(LookupKinds) /\ inbox' = inbox /\ db' = db
            /\ life # "closed" /\ life' \in {life, "draining"}
         \/ /\ Extended(LookupKinds) /\ inbox # <<>> /\ inbox' = Tail(inbox) /\ db' = db
            /\ Head(inbox).want.ch[2] \in LookupKinds
            /\ life = "running" /\ life' = life
         \/ /\ \E k \in DOMAIN jobs : Dropped(k)
            /\ db' = db /\ life # "closed" /\ life' = life
         \/ Emptied
<1>1. CASE \E k \in DOMAIN jobs : Start(k) \/ Finish(k)
  <2>1. PICK k \in DOMAIN jobs : Start(k) \/ Finish(k)
    BY <1>1
  <2>2. CASE Start(k)
    <3>1. db' = db /\ life # "closed" /\ life' = life
      BY <2>2 DEF Start
    <3> QED  BY <2>2, <3>1, Starts
  <2>3. CASE Finish(k)
    <3>1. db' = db /\ life # "closed" /\ life' = life
      BY <2>3 DEF Finish
    <3> QED  BY <2>3, <3>1, Finishes
  <2> QED  BY <2>1, <2>2, <2>3
<1>2. CASE Deliver
  <2>1. /\ Handle(Head(inbox)) /\ life' = life /\ life = "running" /\ db' = db
        /\ inbox # <<>> /\ inbox' = Tail(inbox)
    BY <1>2 DEF Deliver
  <2> QED  BY <2>1, Answering
<1>3. CASE CloseWindow
  BY <1>3, ClosedPool DEF CloseWindow
<1>4. CASE Teardown
  BY <1>4 DEF Teardown, Emptied
<1> QED  BY <1>1, <1>2, <1>3, <1>4, UserLooks DEF Lookups

--------------------------------------------------------------------------------
\* What the maintenance pages and the Updates page have the pool do

\* Every step of a job is one or the other.
LEMMA Working ==
  ASSUME NEW k \in DOMAIN jobs, Work(k) \/ UpdateWork(k)
  PROVE  /\ life # "closed" /\ life' = life /\ jobs[k].begun
         /\ GoesOn(k) \/ EndsWith(k)
<1> USE DEF Checks, Replacing, Swaps, JobOrUpdate, GoesOn, EndsWith
<1> DEFINE Goal == /\ life # "closed" /\ life' = life /\ jobs[k].begun
                   /\ GoesOn(k) \/ EndsWith(k)
<1>1. CASE RunCheck(k)
  BY <1>1 DEF RunCheck, At, Behind
<1>2. CASE BeginBackup(k)
  BY <1>2 DEF BeginBackup, At, Behind
<1>3. CASE CompleteBackup(k)
  BY <1>3 DEF CompleteBackup, At, Behind
<1>4. CASE FailBackup(k)
  BY <1>4 DEF FailBackup, At, Behind
<1>5. CASE PruneBackups(k)
  BY <1>5 DEF PruneBackups, At, Behind
<1>6. CASE VerifyBackup(k)
  <2>1. life # "closed" /\ life' = life /\ jobs[k].begun /\ jobs[k].want.ch[2] = "restore"
    BY <1>6 DEF VerifyBackup, At, Behind
  <2>2. \/ \E note : Goes(k, "copy", note) /\ inbox' = inbox
        \/ Ends(k, "failed")
    BY <1>6 DEF VerifyBackup
  <2> QED  BY <2>1, <2>2
<1>7. CASE BuildCandidate(k)
  <2>1. life # "closed" /\ life' = life /\ jobs[k].begun /\ jobs[k].want.ch[2] = "rebuild"
    BY <1>7 DEF BuildCandidate, At, Behind
  <2>2. \/ \E note : Goes(k, "close", note) /\ inbox' = inbox
        \/ \E outcome : Ends(k, outcome)
    BY <1>7 DEF BuildCandidate
  <2> QED  BY <2>1, <2>2
<1>8. CASE VerifyPrevious(k)
  <2>1. life # "closed" /\ life' = life /\ jobs[k].begun /\ jobs[k].want.ch[2] = "rollback"
    BY <1>8 DEF VerifyPrevious, At, Behind
  <2>2. \/ \E note : Goes(k, "close", note) /\ inbox' = inbox
        \/ Ends(k, "failed")
    BY <1>8 DEF VerifyPrevious
  <2> QED  BY <2>1, <2>2
<1>9. CASE CloseForSwap(k)
  <2>1. life # "closed" /\ life' = life /\ jobs[k].begun /\ jobs[k].want.ch[2] \in Swaps
    BY <1>9 DEF CloseForSwap, At, Behind
  <2>2. \E note : Goes(k, "keep", note) /\ inbox' = inbox
    BY <1>9 DEF CloseForSwap
  <2> QED  BY <2>1, <2>2
<1>10. CASE BeginKeeping(k)
  <2>1. life # "closed" /\ life' = life /\ jobs[k].begun /\ jobs[k].want.ch[2] \in Swaps
    BY <1>10 DEF BeginKeeping, At, Behind
  <2>2. \E place \in {"keeping", "copy"} : \E note : Goes(k, place, note) /\ inbox' = inbox
    BY <1>10 DEF BeginKeeping
  <2> QED  BY <2>1, <2>2
<1>11. CASE FinishKeeping(k)
  <2>1. life # "closed" /\ life' = life /\ jobs[k].begun /\ jobs[k].want.ch[2] \in Swaps
    BY <1>11 DEF FinishKeeping, At, Behind
  <2>2. \E note : Goes(k, "copy", note) /\ inbox' = inbox
    BY <1>11 DEF FinishKeeping
  <2> QED  BY <2>1, <2>2
<1>12. CASE BeginCopy(k)
  <2>1. life # "closed" /\ life' = life /\ jobs[k].begun /\ jobs[k].want.ch[2] \in Replacing
    BY <1>12 DEF BeginCopy, At, Behind
  <2>2. \E note : Goes(k, "replace", note) /\ inbox' = inbox
    BY <1>12 DEF BeginCopy
  <2> QED  BY <2>1, <2>2
<1>13. CASE Replace(k)
  <2>1. PICK kind \in Replacing :
          /\ At(k, kind, "replace")
          /\ IF kind = "restore" THEN Ends(k, "found")
             ELSE Goes(k, "open", jobs[k].note) /\ UNCHANGED inbox
          /\ UNCHANGED Behind
    BY <1>13 DEF Replace
  <2>2. life # "closed" /\ life' = life /\ jobs[k].begun /\ jobs[k].want.ch[2] = kind
    BY <2>1 DEF At, Behind
  <2>3. CASE kind = "restore"
    BY <2>1, <2>2, <2>3
  <2>4. CASE kind # "restore"
    BY <2>1, <2>2, <2>4
  <2> QED  BY <2>3, <2>4
<1>14. CASE FailReplace(k)
  <2>1. life # "closed" /\ life' = life /\ jobs[k].begun /\ jobs[k].want.ch[2] \in Replacing
    BY <1>14 DEF FailReplace, At, Behind
  <2>2. Ends(k, "failed")
    BY <1>14 DEF FailReplace
  <2> QED  BY <2>1, <2>2
<1>15. CASE OpenAfterSwap(k)
  <2>1. life # "closed" /\ life' = life /\ jobs[k].begun /\ jobs[k].want.ch[2] \in Swaps
    BY <1>15 DEF OpenAfterSwap, At, Behind
  <2>2. Ends(k, "found")
    BY <1>15 DEF OpenAfterSwap
  <2> QED  BY <2>1, <2>2
<1>16. CASE FinishCheck(k)
  <2>1. life # "closed" /\ life' = life /\ jobs[k].begun /\ jobs[k].want.ch[2] = "check"
    BY <1>16 DEF FinishCheck, At, Behind
  <2>2. \E outcome : Ends(k, outcome) /\ outcome # "shrinks"
    BY <1>16 DEF FinishCheck, FetchManifest, Verdict
  <2> QED  BY <2>1, <2>2
<1>17. CASE FetchPackage(k)
  <2>1. life # "closed" /\ life' = life /\ jobs[k].begun /\ jobs[k].want.ch[2] = "install"
    BY <1>17 DEF FetchPackage, At, Behind
  <2>2. \/ \E note : Goes(k, "close", note) /\ inbox' = inbox
        \/ \E outcome : Ends(k, outcome) /\ outcome # "shrinks"
    BY <1>17 DEF FetchPackage
  <2> QED  BY <2>1, <2>2
<1>18. CASE CloseForInstall(k)
  <2>1. life # "closed" /\ life' = life /\ jobs[k].begun /\ jobs[k].want.ch[2] = "install"
    BY <1>18 DEF CloseForInstall, At, Behind
  <2>2. \E note : Goes(k, "copy", note) /\ inbox' = inbox
    BY <1>18 DEF CloseForInstall
  <2> QED  BY <2>1, <2>2
<1>19. CASE OpenInstalled(k)
  <2>1. life # "closed" /\ life' = life /\ jobs[k].begun /\ jobs[k].want.ch[2] = "install"
    BY <1>19 DEF OpenInstalled, At, Behind
  <2>2. Ends(k, "found")
    BY <1>19 DEF OpenInstalled
  <2> QED  BY <2>1, <2>2
<1> HIDE DEF GoesOn, EndsWith
<1> QED  BY <1>1, <1>2, <1>3, <1>4, <1>5, <1>6, <1>7, <1>8, <1>9, <1>10, <1>11, <1>12, <1>13,
            <1>14, <1>15, <1>16, <1>17, <1>18, <1>19 DEF Work, UpdateWork

\* One more job of a maintenance page.
LEMMA JobBegun ==
  ASSUME Pool, life' = life, NEW want, NEW queue, BeginJob(want, queue), NEW K, want.ch[2] \in K
  PROVE  Extended(K)
<1>1. jobs' = Append(jobs, Worker(want, FALSE)) /\ JobsOK(jobs) /\ CancelOK
  BY DEF BeginJob, Pool
<1>2. Extended({want.ch[2]})
  BY <1>1, JobAppended
<1> QED  BY <1>2, MoreKinds

\* What the user does on the maintenance pages.
LEMMA UserMaintains ==
  ASSUME Pool,
         \/ \E p \in Pages :
              \/ \E kind \in Checks \cup {"backup"} : StartJob(p, kind)
              \/ \E b \in Range(backups) : StartRestore(p, b)
         \/ \E kind \in JobKinds : PaletteCommand(kind)
         \/ StartRebuild \/ StartRollback \/ RefreshListStatus \/ GatherLearning
         \/ \E i \in DOMAIN backups : DeleteBackup(i)
         \/ ShowAdmin
  PROVE  /\ Extended(LookupKinds \cup MaintenanceKinds) /\ inbox' = inbox
         /\ life = "running" /\ life' = life
         /\ Extended(MaintenanceKinds) \/ ShowAdmin
<1> DEFINE K == LookupKinds \cup MaintenanceKinds
           Goal == /\ Extended(K) /\ inbox' = inbox /\ life = "running" /\ life' = life
                   /\ Extended(MaintenanceKinds) \/ ShowAdmin
<1>a. ASSUME NEW want, BeginJob(want, inbox), want.ch[2] \in MaintenanceKinds, life' = life
      PROVE  Extended(K) /\ Extended(MaintenanceKinds)
  BY <1>a, JobBegun
<1>b. ASSUME jobs' = jobs, life' = life
      PROVE  Extended(K) /\ Extended(MaintenanceKinds)
  BY <1>b, LeftAlone DEF Pool
<1> HIDE DEF K
<1>1. ASSUME NEW p \in Pages, NEW kind \in Checks \cup {"backup"}, StartJob(p, kind) PROVE Goal
  <2> DEFINE want == Request(Job(p, kind), None, None)
  <2>1. want.ch[2] \in MaintenanceKinds
    BY DEF Request, Job, MaintenanceKinds
  <2>2. BeginJob(want, inbox) /\ life = "running" /\ life' = life /\ inbox' = inbox
    BY <1>1 DEF StartJob, Acting
  <2> HIDE DEF want
  <2> QED  BY <1>a, <2>1, <2>2
<1>2. ASSUME NEW p \in Pages, NEW b \in Range(backups), StartRestore(p, b) PROVE Goal
  <2> DEFINE want == Request(Job(p, "restore"), b.id, None)
  <2>1. want.ch[2] \in MaintenanceKinds
    BY DEF Request, Job, MaintenanceKinds
  <2>2. BeginJob(want, inbox) /\ life = "running" /\ life' = life /\ inbox' = inbox
    BY <1>2 DEF StartRestore, Acting
  <2> HIDE DEF want
  <2> QED  BY <1>a, <2>1, <2>2
<1>3. ASSUME NEW kind \in JobKinds, PaletteCommand(kind) PROVE Goal
  <2> DEFINE want == Request(Job("admin", kind), None, None)
  <2>1. want.ch[2] \in MaintenanceKinds
    BY <1>3 DEF PaletteCommand, Request, Job, MaintenanceKinds, Checks
  <2>2. BeginJob(want, inbox) /\ life = "running" /\ life' = life /\ inbox' = inbox
    BY <1>3 DEF PaletteCommand, Acting
  <2> HIDE DEF want
  <2> QED  BY <1>a, <2>1, <2>2
<1>4. ASSUME StartRebuild PROVE Goal
  <2> DEFINE want == Request(Job("database", "rebuild"), "refuse_shrink", None)
  <2>1. want.ch[2] \in MaintenanceKinds
    BY DEF Request, Job, MaintenanceKinds
  <2>2. BeginJob(want, inbox) /\ life = "running" /\ life' = life /\ inbox' = inbox
    BY <1>4 DEF StartRebuild, Acting
  <2> HIDE DEF want
  <2> QED  BY <1>a, <2>1, <2>2
<1>5. ASSUME StartRollback PROVE Goal
  <2> DEFINE want == Request(Job("database", "rollback"), None, None)
  <2>1. want.ch[2] \in MaintenanceKinds
    BY DEF Request, Job, MaintenanceKinds
  <2>2. BeginJob(want, inbox) /\ life = "running" /\ life' = life /\ inbox' = inbox
    BY <1>5 DEF StartRollback, Acting
  <2> HIDE DEF want
  <2> QED  BY <1>a, <2>1, <2>2
<1>6. ASSUME RefreshListStatus PROVE Goal
  BY <1>6, <1>b DEF RefreshListStatus, Acting
<1>7. ASSUME GatherLearning PROVE Goal
  BY <1>7, <1>b DEF GatherLearning, Acting
<1>8. ASSUME NEW i \in DOMAIN backups, DeleteBackup(i) PROVE Goal
  BY <1>8, <1>b DEF DeleteBackup, Acting
<1>9. ASSUME ShowAdmin PROVE Goal
  <2>1. Submit(Measures(~busy["admin"])) /\ life = "running" /\ life' = life /\ inbox' = inbox
    BY <1>9 DEF ShowAdmin, Acting
  <2>2. Extended(LookupKinds)
    BY <2>1, MeasuresAsk, Submitted DEF Pool
  <2> QED  BY <1>9, <2>1, <2>2, MoreKinds DEF K
<1> QED  BY <1>1, <1>2, <1>3, <1>4, <1>5, <1>6, <1>7, <1>8, <1>9 DEF K

\* What the pages do when a job has ended.
LEMMA JobAnswered ==
  ASSUME Pool, DeliverJob
  PROVE  /\ inbox # <<>> /\ inbox' = Tail(inbox)
         /\ life = "running" /\ life' = life
         /\ Head(inbox).want.ch[2] \in MaintenanceKinds
         /\ \/ Extended(LookupKinds) /\ tangled' = tangled /\ ~OnShrinkRefused(Head(inbox))
            \/ /\ OnShrinkRefused(Head(inbox))
               /\ \/ Extended({}) /\ tangled' = tangled
                  \/ BeginJob(Request(Job("database", "rebuild"), "allow_shrink", None), Tail(inbox))
<1>1. /\ inbox # <<>> /\ inbox' = Tail(inbox) /\ life = "running" /\ life' = life
      /\ JobsOK(jobs) /\ CancelOK
  BY DEF DeliverJob, Pool
<1> DEFINE m == Head(inbox)
<1>2. \/ OnJobDone(m) \/ OnReplaced(m) \/ OnShrinkRefused(m) \/ OnRestored(m) \/ OnRestoreFailed(m)
  BY DEF DeliverJob
<1>3. MessageOK(m)
  BY <1>1, Handled DEF Pool, QueueOK
<1> HIDE DEF m
<1>b. ASSUME jobs' = jobs, NEW K
      PROVE  Extended(K)
  BY <1>1, <1>b, LeftAlone
<1>4. CASE OnShrinkRefused(m)
  <2>1. m.want.ch[2] \in MaintenanceKinds
    BY <1>3, <1>4 DEF OnShrinkRefused, MessageOK, MaintenanceKinds
  <2>2. \/ jobs' = jobs /\ tangled' = tangled
        \/ BeginJob(Request(Job("database", "rebuild"), "allow_shrink", None), Tail(inbox))
    BY <1>4 DEF OnShrinkRefused, End
  <2>3. CASE jobs' = jobs /\ tangled' = tangled
    BY <1>1, <1>4, <1>b, <2>1, <2>3 DEF m
  <2>4. CASE BeginJob(Request(Job("database", "rebuild"), "allow_shrink", None), Tail(inbox))
    BY <1>1, <1>4, <2>1, <2>4 DEF m
  <2> QED  BY <2>2, <2>3, <2>4
<1>5. CASE ~OnShrinkRefused(m) /\ OnJobDone(m)
  <2>1. m.want.ch[2] \in MaintenanceKinds /\ tangled' = tangled
    BY <1>5 DEF OnJobDone, End, MaintenanceKinds, Swaps
  <2>2. \/ Submit(<<Request(Health, None, None)>>)
        \/ jobs' = jobs
    BY <1>5 DEF OnJobDone
  <2>3. Asks(<<Request(Health, None, None)>>, LookupKinds)
    BY AsksOne DEF Request, Health, LookupKinds
  <2>4. Extended(LookupKinds)
    BY <1>1, <1>b, <2>2, <2>3, Submitted
  <2> QED  BY <1>1, <1>5, <2>1, <2>4 DEF m
<1>6. CASE ~OnShrinkRefused(m) /\ OnReplaced(m)
  <2>1. m.want.ch[2] \in MaintenanceKinds /\ tangled' = tangled
    BY <1>6 DEF OnReplaced, End, MaintenanceKinds, Swaps
  <2>2. Reload(db.open, ~busy["admin"])
    BY <1>6 DEF OnReplaced
  <2>3. Extended(LookupKinds)
    BY <1>1, <2>2, ReloadAsks
  <2> QED  BY <1>1, <1>6, <2>1, <2>3 DEF m
<1>7. CASE ~OnShrinkRefused(m) /\ OnRestored(m)
  <2>1. m.want.ch[2] \in MaintenanceKinds /\ tangled' = tangled
    BY <1>7 DEF OnRestored, End, MaintenanceKinds
  <2>2. Reload(TRUE, TRUE) \/ jobs' = jobs
    BY <1>7 DEF OnRestored
  <2>3. Extended(LookupKinds)
    BY <1>1, <1>b, <2>2, ReloadAsks
  <2> QED  BY <1>1, <1>7, <2>1, <2>3 DEF m
<1>8. CASE ~OnShrinkRefused(m) /\ OnRestoreFailed(m)
  <2>1. m.want.ch[2] \in MaintenanceKinds /\ tangled' = tangled /\ jobs' = jobs
    BY <1>8 DEF OnRestoreFailed, End, MaintenanceKinds
  <2> QED  BY <1>1, <1>8, <1>b, <2>1 DEF m
<1> QED  BY <1>2, <1>4, <1>5, <1>6, <1>7, <1>8

\* What the Updates page begins is what its requests name.
LEMMA PageBegins ==
  ASSUME Pool, life' = life, NEW page, NEW requests, NEW queue, Begin(page, requests, queue),
         NEW K, Asks(requests, K)
  PROVE  Extended(K)
BY Submitted DEF Begin, Pool

\* A check asks for what the Updates page asks for.
LEMMA CheckAsks == ASSUME NEW by PROVE Asks(<<CheckRequest(by)>>, UpdateKinds)
BY AsksOne DEF CheckRequest, Request, Check, UpdateKinds

\* So does an install.
LEMMA InstallAsks == ASSUME NEW page PROVE Asks(<<InstallRequest(page)>>, UpdateKinds)
BY AsksOne DEF InstallRequest, Request, Install, UpdateKinds

\* At most two slots run.
LEMMA TwoSlots ==
  ASSUME NEW page
  PROVE  IsSeq(Effective(page))
<1>1. IsSeq(Runs(page, 1)) /\ IsSeq(Runs(page, 2))
  BY OneSeq, NoneSeq DEF Runs
<1> QED  BY <1>1, ConcatOwn DEF Effective

\* So do the slots of the banner, whichever run.
LEMMA SlotsAsk ==
  ASSUME NEW slots, IsSeq(slots)
  PROVE  /\ Asks(SlotRequests(slots), UpdateKinds)
         /\ Len(SlotRequests(slots)) = Len(slots) /\ DOMAIN SlotRequests(slots) = DOMAIN slots
<1> DEFINE r == SlotRequests(slots)
<1>1. r = [k \in DOMAIN slots |-> r[k]]
  BY DEF SlotRequests
<1>2. \A k \in DOMAIN slots : r[k] = InstallRequest(updates) \/ r[k] = CheckRequest("user")
  BY DEF SlotRequests
<1> HIDE DEF r
<1>3. IsSeq(r) /\ Len(r) = Len(slots) /\ DOMAIN r = DOMAIN slots
  BY <1>1, EachOwn
<1>4. InstallRequest(updates).ch[2] \in UpdateKinds /\ CheckRequest("user").ch[2] \in UpdateKinds
  BY DEF InstallRequest, CheckRequest, Request, Install, Check, UpdateKinds
<1>5. Asks(r, UpdateKinds)
  BY <1>2, <1>3, <1>4 DEF Asks
<1> QED  BY <1>3, <1>5 DEF r

\* The tokens of the workers that install are set.
LEMMA InstallCancelled ==
  ASSUME Pool, CancelInstall
  PROVE  /\ Extended({}) /\ Len(jobs') = Len(jobs)
         /\ inbox' = inbox /\ life = "running" /\ life' = life /\ db' = db
<1> DEFINE js == [k \in DOMAIN jobs |-> IF jobs[k].want.ch = Install THEN Cancelled(jobs[k]) ELSE jobs[k]]
<1>a. JobsOK(jobs) /\ CancelOK
  BY DEF Pool
<1>1. jobs' = js /\ life = "running" /\ life' = life /\ inbox' = inbox /\ db' = db
  BY DEF CancelInstall, Acting, Beside
<1>2. js = [k \in DOMAIN jobs |-> js[k]]
  OBVIOUS
<1>3. ASSUME NEW k \in DOMAIN jobs
      PROVE  /\ js[k].want = jobs[k].want /\ js[k].begun = jobs[k].begun
             /\ js[k].held = jobs[k].held /\ js[k].at = jobs[k].at /\ js[k].note = jobs[k].note
             /\ js[k].saw = jobs[k].saw
             /\ IsJob(js[k])
             /\ jobs[k].want.ch # Install => js[k] = jobs[k]
  <2> DEFINE i == jobs[k]
             j == js[k]
  <2>1. IsJob(i)
    BY <1>a DEF JobsOK, JobOK
  <2>2. j = IF i.want.ch = Install THEN [i EXCEPT !.cancelled = TRUE] ELSE i
    BY DEF Cancelled
  <2> HIDE DEF i, j
  <2>3. CASE i.want.ch = Install
    <3>1. j = [want |-> i.want, cancelled |-> TRUE, begun |-> i.begun,
               saw |-> i.saw, held |-> i.held, at |-> i.at, note |-> i.note]
      BY <2>1, <2>2, <2>3 DEF IsJob
    <3>2. /\ j.want = i.want /\ j.begun = i.begun /\ j.held = i.held /\ j.at = i.at /\ j.note = i.note
          /\ j.saw = i.saw
          /\ IsJob(j)
      BY <3>1 DEF IsJob
    <3> QED  BY <2>3, <3>2 DEF i, j
  <2>4. CASE i.want.ch # Install
    <3>1. j = i
      BY <2>2, <2>4
    <3> QED  BY <2>1, <3>1 DEF i, j
  <2> QED  BY <2>3, <2>4
<1> HIDE DEF js
<1>4. IsSeq(js) /\ Len(js) = Len(jobs) /\ DOMAIN js = DOMAIN jobs /\ Len(jobs) \in Nat
  BY <1>a, <1>2, EachOwn, SeqDomain DEF JobsOK
<1>5. \A k \in DOMAIN jobs : JobOK(jobs[k])
  BY <1>a DEF JobsOK
<1>6. JobsOK(js) /\ \A k \in DOMAIN jobs : Same(jobs[k], js[k])
  BY <1>3, <1>4, <1>5 DEF JobsOK, JobOK, Same
<1>7. CancelOK'
  BY <1>a, <1>1, <1>3, <1>4 DEF CancelOK
<1>8. InTurn
  BY <1>1, <1>3 DEF InTurn
<1>9. Extended({})
  BY <1>1, <1>4, <1>6, <1>7, <1>8 DEF Extended
<1> QED  BY <1>1, <1>4, <1>9

\* What the user does on the Updates page, and the timer.
LEMMA UserUpdates ==
  ASSUME Pool,
         \/ \E by \in {"user", "timer"} : CheckForUpdates(by)
         \/ InstallUpdate \/ BannerAction \/ CancelInstall
  PROVE  Extended(UpdateKinds) /\ inbox' = inbox /\ life = "running" /\ life' = life /\ db' = db
<1> DEFINE Goal == Extended(UpdateKinds) /\ inbox' = inbox /\ life = "running" /\ life' = life /\ db' = db
<1>1. ASSUME NEW by \in {"user", "timer"}, CheckForUpdates(by) PROVE Goal
  BY <1>1, CheckAsks, PageBegins DEF CheckForUpdates, Acting, Beside
<1>2. ASSUME InstallUpdate PROVE Goal
  BY <1>2, InstallAsks, PageBegins DEF InstallUpdate, Acting, Beside
<1>3. ASSUME BannerAction PROVE Goal
  <2> DEFINE slots == Effective(updates)
  <2>1. /\ Begin(After(updates, Range(slots)), SlotRequests(slots), inbox)
        /\ inbox' = inbox /\ life = "running" /\ life' = life /\ db' = db
    BY <1>3 DEF BannerAction, Acting, Beside, SlotRequests
  <2>2. IsSeq(slots)
    BY TwoSlots
  <2> HIDE DEF slots
  <2> QED  BY <2>1, <2>2, SlotsAsk, PageBegins
<1>4. ASSUME CancelInstall PROVE Goal
  BY <1>4, InstallCancelled, MoreKinds
<1> QED  BY <1>1, <1>2, <1>3, <1>4

\* What the page does when a worker of its own has ended.
LEMMA UpdateAnswered ==
  ASSUME Pool, DeliverUpdate
  PROVE  /\ inbox # <<>> /\ inbox' = Tail(inbox)
         /\ life = "running" /\ life' = life /\ db' = db
         /\ Head(inbox).want.ch \in {Check, Install}
         /\ Extended(UpdateKinds \cup LookupKinds)
<1>1. /\ inbox # <<>> /\ inbox' = Tail(inbox) /\ life = "running" /\ life' = life
      /\ db' = db
  BY DEF DeliverUpdate, Beside
<1> DEFINE m == Head(inbox)
           K == UpdateKinds \cup LookupKinds
<1>2. OnChecked(m) \/ OnCheckFailed(m) \/ OnInstalled(m) \/ OnInstallFailed(m) \/ OnCancelled(m)
  BY DEF DeliverUpdate
<1> HIDE DEF m, K
<1>a. ASSUME NEW page, NEW requests, NEW queue, Begin(page, requests, queue), Asks(requests, UpdateKinds)
      PROVE  Extended(K)
  BY <1>1, <1>a, PageBegins, MoreKinds DEF K
<1>b. Asks(<<>>, UpdateKinds)
  BY AsksNone
<1>c. \A page, by : Asks(<<InstallRequest(page)>>, UpdateKinds) /\ Asks(<<CheckRequest(by)>>, UpdateKinds)
  BY InstallAsks, CheckAsks
<1> DEFINE Goal == m.want.ch \in {Check, Install} /\ Extended(K)
<1>3. ASSUME OnChecked(m) PROVE Goal
  BY <1>3, <1>a, <1>b, <1>c DEF OnChecked
<1>4. ASSUME OnCheckFailed(m) PROVE Goal
  <2>1. m.want.ch \in {Check, Install}
    BY <1>4 DEF OnCheckFailed
  <2>2. \E page, requests, queue :
           Begin(page, requests, queue) /\ requests \in {<<>>, <<CheckRequest("user")>>}
    BY <1>4 DEF OnCheckFailed
  <2> QED  BY <1>a, <1>b, <1>c, <2>1, <2>2
<1>5. ASSUME OnInstalled(m) PROVE Goal
  <2>1. Extended(LookupKinds)
    BY <1>1, <1>5, ReloadAsks DEF OnInstalled, Pool
  <2> QED  BY <1>5, <2>1, MoreKinds DEF K, OnInstalled
<1>6. ASSUME OnInstallFailed(m) PROVE Goal
  BY <1>6, <1>a, <1>b, <1>c DEF OnInstallFailed
<1>7. ASSUME OnCancelled(m) PROVE Goal
  BY <1>7, <1>a, <1>b DEF OnCancelled
<1> QED  BY <1>1, <1>2, <1>3, <1>4, <1>5, <1>6, <1>7 DEF m, K

--------------------------------------------------------------------------------
\* The pool and the event queue, at every step

\* The pool and the queue are empty at the start.
LEMMA PoolHolds == DesktopInit => Pool
<1>1. ASSUME DesktopInit PROVE Pool
  <2>1. jobs = <<>> /\ inbox = <<>> /\ life = "running"
    BY <1>1 DEF DesktopInit, WindowInit, MInit, Init
  <2> QED  BY <2>1, NoneSeq DEF Pool, JobsOK, QueueOK, CancelOK
<1> QED  BY <1>1

\* The process ends, or the window does.
LEMMA EmptiedIsPool == ASSUME jobs' = <<>>, inbox' = <<>>, life' = "closed" PROVE Pool'
BY NoneSeq DEF Pool, JobsOK, QueueOK, CancelOK

\* The queue is left alone, or its first message is handled.
LEMMA QueueStays ==
  ASSUME QueueOK(inbox), inbox' = inbox \/ (inbox # <<>> /\ inbox' = Tail(inbox))
  PROVE  QueueOK(inbox')
<1>1. CASE inbox' = inbox
  BY <1>1
<1>2. CASE inbox # <<>> /\ inbox' = Tail(inbox)
  BY <1>2, Handled
<1> QED  BY <1>1, <1>2

\* A worker that ends leaves the pool what it is.
LEMMA DroppedIsPool ==
  ASSUME Pool, NEW k, Dropped(k), life' = life, life # "closed"
  PROVE  Pool'
<1>1. JobsOK(jobs') /\ CancelOK'
  BY Gone DEF Dropped, Pool
<1>2. QueueOK(inbox')
  <2>1. CASE inbox' = inbox
    BY <2>1 DEF Pool
  <2>2. ASSUME NEW outcome, NEW saw, inbox' = Append(inbox, Answered(jobs[k].want, outcome, saw)),
               outcome # "shrinks"
        PROVE  QueueOK(inbox')
    <3>1. MessageOK(Answered(jobs[k].want, outcome, saw))
      BY <2>2 DEF MessageOK, Answered
    <3> QED  BY <2>2, <3>1, Heard DEF Pool
  <2> QED  BY <2>1, <2>2 DEF Dropped
<1> QED  BY <1>1, <1>2 DEF Pool

\* So does a step of a job.
LEMMA WorkIsPool ==
  ASSUME Pool, NEW k \in DOMAIN jobs, Work(k) \/ UpdateWork(k)
  PROVE  Pool'
<1>a. JobsOK(jobs) /\ CancelOK /\ QueueOK(inbox) /\ JobOK(jobs[k])
  BY DEF Pool, JobsOK
<1>b. life # "closed" /\ life' = life /\ jobs[k].begun
  BY Working
<1>1. ASSUME NEW place, NEW note, Goes(k, place, note), inbox' = inbox,
             jobs[k].want.ch[2] \in Replacing \cup {"backup"},
             place = "open" => jobs[k].want.ch[2] \in Swaps \cup {"install"}
      PROVE  Pool'
  <2>1. /\ IsSeq(jobs') /\ DOMAIN jobs' = DOMAIN jobs
        /\ \A i \in DOMAIN jobs \ {k} : jobs'[i] = jobs[i]
        /\ IsJob(jobs'[k]) /\ jobs'[k].at = place
        /\ jobs'[k].want = jobs[k].want /\ jobs'[k].begun = jobs[k].begun
        /\ jobs'[k].cancelled = jobs[k].cancelled /\ jobs'[k].held = jobs[k].held
    BY <1>1, <1>a, Moved
  <2>2. JobOK(jobs'[k])
    BY <1>1, <1>a, <1>b, <2>1 DEF JobOK
  <2>3. JobsOK(jobs')
    BY <1>a, <2>1, <2>2 DEF JobsOK
  <2>4. CancelOK'
    BY <1>a, <1>b, <2>1 DEF CancelOK
  <2> QED  BY <1>1, <1>a, <1>b, <2>3, <2>4 DEF Pool
<1>2. ASSUME NEW outcome, Ends(k, outcome), outcome = "shrinks" => jobs[k].want.ch[2] = "rebuild"
      PROVE  Pool'
  <2>1. JobsOK(jobs') /\ CancelOK'
    BY <1>2, <1>a, <1>b, Gone DEF Ends
  <2>2. MessageOK(Answered(jobs[k].want, outcome, jobs[k].saw))
    BY <1>2 DEF MessageOK, Answered
  <2>3. QueueOK(inbox')
    BY <1>2, <1>a, <2>2, Heard DEF Ends
  <2> QED  BY <1>b, <2>1, <2>3 DEF Pool
<1>3. GoesOn(k) \/ EndsWith(k)
  BY Working
<1> QED  BY <1>1, <1>2, <1>3 DEF GoesOn, EndsWith

\* What the user does on the report page asks for the values of its filters only.
LEMMA UserReports ==
  ASSUME Pool, ReportActs
  PROVE  /\ Extended({"values"}) /\ inbox' = inbox /\ life = "running" /\ life' = life
         /\ ~ShowReports => jobs' = jobs
<1>1. CASE ShowReports
  <2>1. Asks(IF db.open THEN <<Request(Values, None, None)>> ELSE <<>>, {"values"})
    BY AsksOne, AsksNone DEF Request, Values
  <2> QED  BY <1>1, <2>1, Submitted DEF ShowReports, Unbuilt, Acting, Pool
<1>2. CASE ~ShowReports
  <2>1. jobs' = jobs /\ inbox' = inbox /\ life = "running" /\ life' = life
    BY <1>2 DEF ReportActs, SetType, SetReportFilter, SaveTemplate, LoadTemplate, DeleteTemplate, Unbuilt, Acting
  <2> QED  BY <2>1, LeftAlone DEF Pool
<1> QED  BY <1>1, <1>2

\* Every step keeps the pool and the queue what they are.
LEMMA PoolStays == ASSUME Pool, [DesktopNext]_desktop PROVE Pool'
<1>a. ASSUME NEW K, Extended(K), inbox' = inbox \/ (inbox # <<>> /\ inbox' = Tail(inbox)),
             life # "closed", life' \in {life, "draining"}
      PROVE  Pool'
  <2>1. QueueOK(inbox')
    BY <1>a, QueueStays DEF Pool
  <2> QED  BY <1>a, <2>1 DEF Pool, Extended
<1>1. CASE Lookups
  BY <1>1, <1>a, Looking, DroppedIsPool, EmptiedIsPool DEF Emptied
<1>2. ASSUME \/ \E p \in Pages :
                  \/ \E kind \in Checks \cup {"backup"} : StartJob(p, kind)
                  \/ \E b \in Range(backups) : StartRestore(p, b)
             \/ \E kind \in JobKinds : PaletteCommand(kind)
             \/ StartRebuild \/ StartRollback \/ RefreshListStatus \/ GatherLearning
             \/ \E i \in DOMAIN backups : DeleteBackup(i)
             \/ ShowAdmin
      PROVE  Pool'
  BY <1>2, <1>a, UserMaintains
<1>3. CASE \E k \in DOMAIN jobs : Work(k)
  BY <1>3, WorkIsPool
<1>4. CASE DeliverJob
  <2>1. \E K : Extended(K)
    BY <1>4, JobAnswered, JobBegun
  <2> QED  BY <1>4, <2>1, <1>a, JobAnswered
<1>5. CASE Kill
  BY <1>5, EmptiedIsPool DEF Kill
<1>6. CASE Restart
  <2>1. jobs' = jobs /\ inbox' = inbox /\ jobs = <<>> /\ inbox = <<>> /\ life' = "running"
    BY <1>6 DEF Restart, Pool
  <2> QED  BY <2>1, NoneSeq DEF Pool, JobsOK, QueueOK, CancelOK
<1>7. CASE ReportActs
  BY <1>7, <1>a, UserReports
<1>8. CASE DeliverValues
  <2>1. /\ jobs' = jobs /\ inbox # <<>> /\ inbox' = Tail(inbox) /\ life = "running" /\ life' = life
    BY <1>8 DEF DeliverValues
  <2>2. Extended({})
    BY <2>1, LeftAlone DEF Pool
  <2> QED  BY <1>a, <2>1, <2>2
<1>9. CASE Build
  BY <1>9, EmptiedIsPool DEF Build
<1>10. CASE \/ \E by \in {"user", "timer"} : CheckForUpdates(by)
            \/ InstallUpdate \/ BannerAction \/ CancelInstall
  BY <1>10, <1>a, UserUpdates
<1>11. CASE \E k \in DOMAIN jobs : UpdateWork(k)
  BY <1>11, WorkIsPool
<1>12. CASE DeliverUpdate
  BY <1>12, <1>a, UpdateAnswered
<1>13. CASE UNCHANGED desktop
  BY <1>13 DEF desktop, window, all, vars, Pool, JobsOK, QueueOK, CancelOK
<1> QED  BY <1>1, <1>2, <1>3, <1>4, <1>5, <1>6, <1>7, <1>8, <1>9, <1>10, <1>11, <1>12, <1>13
         DEF DesktopNext, WindowNext, Next, ReportActs

--------------------------------------------------------------------------------
\* What is on the disk, and what the manager has open

\* Only the jobs and the deletion of a snapshot change what is on the disk; the window
\* opens and closes the manager.
LEMMA WindowLeaves ==
  ASSUME Pool, [DesktopNext]_desktop
  PROVE  \/ \E k \in DOMAIN jobs : Work(k)
         \/ \E k \in DOMAIN jobs : UpdateWork(k)
         \/ \E i \in DOMAIN backups : DeleteBackup(i)
         \/ /\ UNCHANGED onDisk
            /\ db' \in {db, [db EXCEPT !.open = FALSE], Opened}
<1> DEFINE Goal == UNCHANGED onDisk /\ db' \in {db, [db EXCEPT !.open = FALSE], Opened}
<1>1. ASSUME Lookups, UNCHANGED mvars PROVE Goal
  <2>1. UNCHANGED onDisk
    BY <1>1 DEF mvars, onDisk
  <2>2. db' \in {db, [db EXCEPT !.open = FALSE]}
    BY <1>1, Looking DEF Emptied
  <2> QED  BY <2>1, <2>2
<1>2. ASSUME NEW p \in Pages, NEW kind \in Checks \cup {"backup"}, StartJob(p, kind) PROVE Goal
  BY <1>2 DEF StartJob
<1>3. ASSUME NEW p \in Pages, NEW b \in Range(backups), StartRestore(p, b) PROVE Goal
  BY <1>3 DEF StartRestore
<1>4. ASSUME NEW kind \in JobKinds, PaletteCommand(kind) PROVE Goal
  BY <1>4 DEF PaletteCommand
<1>5. ASSUME StartRebuild \/ StartRollback \/ RefreshListStatus \/ GatherLearning PROVE Goal
  BY <1>5 DEF StartRebuild, StartRollback, RefreshListStatus, GatherLearning
<1>6. ASSUME ShowAdmin PROVE Goal
  BY <1>6 DEF ShowAdmin, mvars
<1>7. ASSUME DeliverJob PROVE Goal
  <2>1. UNCHANGED onDisk
    BY <1>7 DEF DeliverJob
  <2>2. db' \in {db, Opened}
    BY <1>7 DEF DeliverJob, OnJobDone, OnReplaced, OnShrinkRefused, OnRestored, OnRestoreFailed
  <2> QED  BY <2>1, <2>2
<1>8. ASSUME Kill PROVE Goal
  BY <1>8 DEF Kill, mvars
<1>9. ASSUME Restart PROVE Goal
  BY <1>9 DEF Restart
<1>10. ASSUME ReportActs PROVE Goal
  BY <1>10 DEF ReportActs, ShowReports, SetType, SetReportFilter, SaveTemplate, LoadTemplate, DeleteTemplate,
               Unbuilt, mvars
<1>11. ASSUME DeliverValues PROVE Goal
  BY <1>11 DEF DeliverValues, mvars
<1>12. ASSUME Build PROVE Goal
  BY <1>12 DEF Build, mvars
<1>13. ASSUME \/ \E by \in {"user", "timer"} : CheckForUpdates(by)
              \/ InstallUpdate \/ BannerAction \/ CancelInstall
       PROVE  Goal
  BY <1>13 DEF CheckForUpdates, InstallUpdate, BannerAction, CancelInstall
<1>14. ASSUME DeliverUpdate PROVE Goal
  BY <1>14 DEF DeliverUpdate
<1>15. ASSUME UNCHANGED desktop PROVE Goal
  BY <1>15 DEF desktop, window, all, vars, mvars
<1> QED  BY <1>1, <1>2, <1>3, <1>4, <1>5, <1>6, <1>7, <1>8, <1>9, <1>10, <1>11, <1>12, <1>13, <1>14,
            <1>15 DEF DesktopNext, WindowNext, Next, ReportActs

\* What is on the disk at the start.
LEMMA DiskHolds == DesktopInit => DiskOK
<1>1. ASSUME DesktopInit PROVE DiskOK
  <2>1. /\ db = [open |-> TRUE, content |-> 2]
        /\ file = [content |-> 2, sound |-> TRUE, writer |-> None]
        /\ backups = <<[id |-> 1, content |-> 1, whole |-> TRUE]>>
        /\ staged = [name \in {".incoming", ".restore-tmp"} |-> None]
    BY <1>1 DEF DesktopInit, WindowInit, MInit, Init
  <2>2. IsSeq(backups) /\ \A i \in DOMAIN backups : backups[i] = [id |-> 1, content |-> 1, whole |-> TRUE]
    <3> DEFINE b == [id |-> 1, content |-> 1, whole |-> TRUE]
    <3>1. IsSeq(<<b>>) /\ DOMAIN <<b>> = {1} /\ <<b>>[1] = b
      BY OneSeq
    <3> QED  BY <2>1, <3>1
  <2>3. \A i \in DOMAIN backups : IsBackup(backups[i])
    BY <2>2 DEF IsBackup
  <2> QED  BY <2>1, <2>2, <2>3 DEF DiskOK, IsFile
<1> QED  BY <1>1

\* A snapshot is put before the others.
LEMMA PutFirst ==
  ASSUME NEW s, IsSeq(s), NEW b
  PROVE  /\ IsSeq(<<b>> \o s) /\ Len(<<b>> \o s) = Len(s) + 1
         /\ DOMAIN (<<b>> \o s) = 1 .. Len(s) + 1
         /\ (<<b>> \o s)[1] = b
         /\ \A i \in DOMAIN (<<b>> \o s) \ {1} : i - 1 \in DOMAIN s /\ (<<b>> \o s)[i] = s[i - 1]
<1> DEFINE a == <<b>>
<1>1. IsSeq(a) /\ Len(a) = 1 /\ DOMAIN a = {1} /\ a[1] = b
  BY OneSeq
<1> HIDE DEF a
<1>2. /\ IsSeq(a \o s) /\ Len(a \o s) = Len(a) + Len(s)
      /\ DOMAIN (a \o s) = 1 .. Len(a) + Len(s)
      /\ \A i \in DOMAIN a : (a \o s)[i] = a[i]
      /\ \A i \in DOMAIN (a \o s) \ DOMAIN a : i - Len(a) \in DOMAIN s /\ (a \o s)[i] = s[i - Len(a)]
  BY <1>1, ConcatOwn
<1>3. Len(s) \in Nat
  BY SeqDomain
<1> QED  BY <1>1, <1>2, <1>3 DEF a

\* The newest are kept.
LEMMA NewestOwn ==
  ASSUME NEW s, IsSeq(s), NEW n \in Nat
  PROVE  /\ IsSeq(Newest(s, n))
         /\ DOMAIN Newest(s, n) = 1 .. (IF Len(s) < n THEN Len(s) ELSE n)
         /\ \A i \in DOMAIN Newest(s, n) : i \in DOMAIN s /\ Newest(s, n)[i] = s[i]
<1> DEFINE l == IF Len(s) < n THEN Len(s) ELSE n
           t == SubSeq(s, 1, l)
<1>1. Len(s) \in Nat /\ DOMAIN s = 1 .. Len(s) /\ l \in Nat /\ l <= Len(s) /\ s \in Seq(Range(s))
  BY SeqDomain DEF IsSeq
<1> HIDE DEF l
<1>2. \A i \in 1 .. l : s[i] \in Range(s)
  BY <1>1, ElementOfSeq
<1>3. /\ t \in Seq(Range(s)) /\ Len(t) = (IF 1 <= l THEN l - 1 + 1 ELSE 0)
      /\ \A i \in 1 .. l - 1 + 1 : t[i] = s[1 + i - 1]
  BY <1>1, <1>2, SubSeqProperties
<1> HIDE DEF t
<1>4. IsSeq(t) /\ DOMAIN t = 1 .. l
  BY <1>1, <1>3, OwnSeq, SeqDomain
<1>5. \A i \in DOMAIN t : i \in DOMAIN s /\ t[i] = s[i]
  BY <1>1, <1>3, <1>4
<1> QED  BY <1>4, <1>5 DEF t, l, Newest

\* There are two staging names.
LEMMA StagingNames == ASSUME NEW k PROVE StagingName(k) \in {".incoming", ".restore-tmp"}
BY DEF StagingName

\* What a job has written is a file with the content it had.
LEMMA WrittenIsFile ==
  ASSUME NEW f, IsFile(f), NEW want
  PROVE  IsFile(Written(f, want)) /\ Written(f, want).content = f.content
         /\ Written(f, want).sound = f.sound
         /\ Written(f, want).writer = IF f # None /\ f.writer = want THEN None ELSE f.writer
<1>1. [f EXCEPT !.writer = None] = [content |-> f.content, sound |-> f.sound, writer |-> None]
  BY DEF IsFile
<1>2. CASE f # None /\ f.writer = want
  <2> DEFINE g == Written(f, want)
  <2>1. g = [content |-> f.content, sound |-> f.sound, writer |-> None]
    BY <1>1, <1>2 DEF Written
  <2> HIDE DEF g
  <2>2. IsFile(g) /\ g.content = f.content /\ g.sound = f.sound /\ g.writer = None
    BY <2>1 DEF IsFile
  <2> QED  BY <1>2, <2>2 DEF g
<1>3. CASE ~(f # None /\ f.writer = want)
  BY <1>3 DEF Written
<1> QED  BY <1>2, <1>3

\* What a job does to the snapshots leaves them snapshots.
LEMMA SnapshotsStay ==
  ASSUME DiskOK,
         \/ UNCHANGED backups
         \/ \E b : IsBackup(b) /\ backups' = <<b>> \o backups
         \/ \E i \in DOMAIN backups : \E b : IsBackup(b) /\ backups' = <<b>> \o RemoveAt(backups, i)
         \/ \E i \in DOMAIN backups : backups' = RemoveAt(backups, i)
         \/ backups' = Newest(backups, Retention)
  PROVE  IsSeq(backups') /\ \A i \in DOMAIN backups' : IsBackup(backups'[i])
<1>a. IsSeq(backups) /\ \A i \in DOMAIN backups : IsBackup(backups[i])
  BY DEF DiskOK
<1>b. ASSUME NEW i \in DOMAIN backups
      PROVE  /\ IsSeq(RemoveAt(backups, i))
             /\ \A j \in DOMAIN RemoveAt(backups, i) : IsBackup(RemoveAt(backups, i)[j])
  <2> DEFINE r == RemoveAt(backups, i)
  <2>1. /\ IsSeq(r) /\ DOMAIN r = 1 .. Len(backups) - 1
        /\ \A j \in DOMAIN r : r[j] = backups[IF j < i THEN j ELSE j + 1]
    BY <1>a, RemoveOwn
  <2>2. Len(backups) \in Nat /\ DOMAIN backups = 1 .. Len(backups)
    BY <1>a, SeqDomain
  <2> HIDE DEF r
  <2>3. \A j \in DOMAIN r : (IF j < i THEN j ELSE j + 1) \in DOMAIN backups
    BY <2>1, <2>2
  <2>4. IsSeq(r) /\ \A j \in DOMAIN r : IsBackup(r[j])
    BY <1>a, <2>1, <2>3
  <2> QED  BY <2>4 DEF r
<1>c. ASSUME NEW s, IsSeq(s), \A j \in DOMAIN s : IsBackup(s[j]), NEW b, IsBackup(b)
      PROVE  IsSeq(<<b>> \o s) /\ \A j \in DOMAIN (<<b>> \o s) : IsBackup((<<b>> \o s)[j])
  <2> DEFINE t == <<b>> \o s
  <2>1. IsSeq(t) /\ t[1] = b /\ \A i \in DOMAIN t \ {1} : i - 1 \in DOMAIN s /\ t[i] = s[i - 1]
    BY <1>c, PutFirst
  <2> HIDE DEF t
  <2>2. IsSeq(t) /\ \A j \in DOMAIN t : IsBackup(t[j])
    BY <1>c, <2>1
  <2> QED  BY <2>2 DEF t
<1>1. CASE UNCHANGED backups
  BY <1>a, <1>1
<1>2. ASSUME NEW b, IsBackup(b), backups' = <<b>> \o backups
      PROVE  IsSeq(backups') /\ \A i \in DOMAIN backups' : IsBackup(backups'[i])
  BY <1>a, <1>c, <1>2
<1>3. ASSUME NEW i \in DOMAIN backups, NEW b, IsBackup(b), backups' = <<b>> \o RemoveAt(backups, i)
      PROVE  IsSeq(backups') /\ \A j \in DOMAIN backups' : IsBackup(backups'[j])
  BY <1>b, <1>c, <1>3
<1>4. ASSUME NEW i \in DOMAIN backups, backups' = RemoveAt(backups, i)
      PROVE  IsSeq(backups') /\ \A j \in DOMAIN backups' : IsBackup(backups'[j])
  BY <1>b, <1>4
<1>5. CASE backups' = Newest(backups, Retention)
  <2>1. /\ IsSeq(Newest(backups, Retention))
        /\ \A i \in DOMAIN Newest(backups, Retention) :
             i \in DOMAIN backups /\ Newest(backups, Retention)[i] = backups[i]
    BY <1>a, NewestOwn, MaintenanceAssumption
  <2> QED  BY <1>a, <1>5, <2>1
<1> QED  BY <1>1, <1>2, <1>3, <1>4, <1>5

\* A job leaves the snapshots, the manager, the file and what is staged what they are.
LEMMA WorkKeepsDisk ==
  ASSUME DiskOK, NEW k \in DOMAIN jobs, Work(k) \/ UpdateWork(k)
  PROVE  DiskOK'
<1> USE DEF DiskOK
<1>a. StagingName(k) \in DOMAIN staged
  BY StagingNames
<1>b. ASSUME UNCHANGED <<db, file, staged, backups>> PROVE DiskOK'
  BY <1>b
<1>c. ASSUME UNCHANGED <<db, file, staged>>,
             \/ \E b : IsBackup(b) /\ backups' = <<b>> \o backups
             \/ \E i \in DOMAIN backups : \E b : IsBackup(b) /\ backups' = <<b>> \o RemoveAt(backups, i)
             \/ \E i \in DOMAIN backups : backups' = RemoveAt(backups, i)
             \/ backups' = Newest(backups, Retention)
      PROVE  DiskOK'
  BY <1>c, SnapshotsStay
<1>1. CASE RunCheck(k)
  BY <1>1, <1>b DEF RunCheck, onDisk
<1>2. CASE BeginBackup(k)
  <2>1. IsBackup([id |-> FreshId, content |-> file.content, whole |-> FALSE])
    BY DEF IsBackup
  <2> QED  BY <1>2, <1>c, <2>1 DEF BeginBackup
<1>3. CASE CompleteBackup(k)
  <2>1. \A i \in DOMAIN backups : IsBackup([backups[i] EXCEPT !.whole = file.sound])
    BY DEF IsBackup
  <2> QED  BY <1>3, <1>c, <2>1 DEF CompleteBackup
<1>4. CASE FailBackup(k)
  BY <1>4, <1>b, <1>c DEF FailBackup
<1>5. CASE PruneBackups(k)
  BY <1>5, <1>c DEF PruneBackups, Pruned
<1>6. CASE VerifyBackup(k)
  BY <1>6, <1>b DEF VerifyBackup, onDisk
<1>7. CASE BuildCandidate(k)
  BY <1>7, <1>b DEF BuildCandidate
<1>8. CASE VerifyPrevious(k)
  BY <1>8, <1>b DEF VerifyPrevious, onDisk
<1>9. CASE CloseForSwap(k)
  BY <1>9 DEF CloseForSwap, onDisk
<1>10. CASE BeginKeeping(k)
  BY <1>10, <1>b DEF BeginKeeping, onDisk
<1>11. CASE FinishKeeping(k)
  BY <1>11, <1>b DEF FinishKeeping
<1>12. CASE BeginCopy(k)
  <2>1. PICK f : staged' = [staged EXCEPT ![StagingName(k)] =
                              [content |-> f.content, sound |-> f.whole, writer |-> jobs[k].want]]
    BY <1>12 DEF BeginCopy
  <2>2. UNCHANGED <<db, file, backups>>
    BY <1>12 DEF BeginCopy
  <2>3. IsFile([content |-> f.content, sound |-> f.whole, writer |-> jobs[k].want])
    BY DEF IsFile
  <2>4. \A name \in DOMAIN staged' : staged'[name] # None => IsFile(staged'[name])
    BY <1>a, <2>1, <2>3
  <2> QED  BY <2>1, <2>2, <2>4
<1>13. CASE Replace(k)
  <2>1. /\ UNCHANGED <<db, backups>> /\ staged[StagingName(k)] # None
        /\ file' = Written(staged[StagingName(k)], jobs[k].want)
        /\ staged' = [staged EXCEPT ![StagingName(k)] = None]
    BY <1>13 DEF Replace
  <2>2. IsFile(file')
    BY <1>a, <2>1, WrittenIsFile
  <2> QED  BY <2>1, <2>2
<1>14. CASE FailReplace(k)
  <2>1. /\ UNCHANGED backups
        /\ file' = Written(file, jobs[k].want)
        /\ staged' = [staged EXCEPT ![StagingName(k)] = None]
        /\ db' \in {db, Opened}
    BY <1>14 DEF FailReplace, Reopened
  <2>2. IsFile(file')
    BY <2>1, WrittenIsFile
  <2>3. db' = [open |-> db'.open, content |-> db'.content]
    BY <2>1 DEF Opened
  <2> QED  BY <2>1, <2>2, <2>3
<1>15. CASE OpenAfterSwap(k)
  <2>1. UNCHANGED <<file, staged, backups>> /\ db' = Opened
    BY <1>15 DEF OpenAfterSwap
  <2> QED  BY <2>1 DEF Opened
<1>16. CASE UpdateWork(k)
  <2>1. UNCHANGED <<file, staged, backups>> /\ db' \in {db, [db EXCEPT !.open = FALSE], Opened}
    BY <1>16 DEF UpdateWork, FinishCheck, FetchPackage, CloseForInstall, OpenInstalled, onDisk
  <2>2. db' = [open |-> db'.open, content |-> db'.content]
    BY <2>1 DEF Opened
  <2> QED  BY <2>1, <2>2
<1> QED  BY <1>1, <1>2, <1>3, <1>4, <1>5, <1>6, <1>7, <1>8, <1>9, <1>10, <1>11, <1>12, <1>13,
            <1>14, <1>15, <1>16 DEF Work

\* Every step leaves files on the disk.
LEMMA DiskStays == ASSUME Pool, DiskOK, [DesktopNext]_desktop PROVE DiskOK'
<1>1. CASE \E k \in DOMAIN jobs : Work(k) \/ UpdateWork(k)
  BY <1>1, WorkKeepsDisk
<1>2. CASE \E i \in DOMAIN backups : DeleteBackup(i)
  <2>1. UNCHANGED <<db, file, staged>>
    BY <1>2 DEF DeleteBackup
  <2>2. \E i \in DOMAIN backups : backups' = RemoveAt(backups, i)
    BY <1>2 DEF DeleteBackup
  <2>3. IsSeq(backups') /\ \A i \in DOMAIN backups' : IsBackup(backups'[i])
    BY <2>2, SnapshotsStay
  <2> QED  BY <2>1, <2>3 DEF DiskOK
<1>3. CASE /\ UNCHANGED onDisk
           /\ db' \in {db, [db EXCEPT !.open = FALSE], Opened}
  BY <1>3 DEF DiskOK, onDisk, Opened
<1> QED  BY <1>1, <1>2, <1>3, WindowLeaves

--------------------------------------------------------------------------------
\* What is open is what is installed

\* An opening that is owed stays owed while the pool is extended and answers are handled.
LEMMA ReopeningStays ==
  ASSUME Pool, Reopening, NEW K, Extended(K),
         \/ inbox' = inbox
         \/ /\ inbox # <<>> /\ inbox' = Tail(inbox)
            /\ ~(Head(inbox).want.ch[2] = "restore" /\ Head(inbox).outcome = "found")
  PROVE  Reopening'
<1>a. JobsOK(jobs) /\ QueueOK(inbox)
  BY DEF Pool
<1>1. ASSUME NEW k \in DOMAIN jobs, jobs[k].at = "open" PROVE Reopening'
  <2>1. k \in DOMAIN jobs' /\ jobs'[k].at = "open"
    BY <1>1, <1>a, SeqDomain DEF Extended, Same, JobsOK
  <2> QED  BY <2>1 DEF Reopening
<1>2. ASSUME NEW k \in DOMAIN inbox, inbox[k].want.ch[2] = "restore", inbox[k].outcome = "found"
      PROVE  Reopening'
  <2>1. CASE inbox' = inbox
    BY <1>2, <2>1 DEF Reopening
  <2>2. CASE inbox # <<>> /\ inbox' = Tail(inbox)
    <3>1. \A j \in DOMAIN inbox \ {1} : j - 1 \in DOMAIN inbox' /\ inbox'[j - 1] = inbox[j]
      BY <1>a, <2>2, Handled
    <3>2. CASE k = 1
      <4>1. Head(inbox) = inbox[k]
        BY <1>a, <2>2, <3>2, Handled
      <4>2. inbox' = inbox
        BY <1>2, <4>1
      <4> QED  BY <2>1, <4>2
    <3>3. CASE k # 1
      BY <1>2, <3>1, <3>3 DEF Reopening
    <3> QED  BY <3>2, <3>3
  <2> QED  BY <2>1, <2>2
<1> QED  BY <1>1, <1>2 DEF Reopening

\* A job that is elsewhere in its code is not the one.
LEMMA ReopeningLeft ==
  ASSUME Pool, Reopening, NEW k \in DOMAIN jobs, jobs[k].at # "open", life' = life,
         GoesOn(k) \/ EndsWith(k) \/ Dropped(k)
  PROVE  Reopening'
<1>a. JobsOK(jobs) /\ QueueOK(inbox) /\ CancelOK
  BY DEF Pool
<1>1. ASSUME NEW place, NEW note, Goes(k, place, note), inbox' = inbox PROVE Reopening'
  <2>1. DOMAIN jobs' = DOMAIN jobs /\ \A i \in DOMAIN jobs \ {k} : jobs'[i] = jobs[i]
    BY <1>1, <1>a, Moved
  <2> QED  BY <1>1, <2>1 DEF Reopening
<1>2. ASSUME NEW m, MessageOK(m), jobs' = RemoveAt(jobs, k), inbox' = inbox \/ inbox' = Append(inbox, m)
      PROVE  Reopening'
  <2>1. \A j \in DOMAIN jobs \ {k} : \E i \in DOMAIN jobs' : jobs'[i] = jobs[j]
    BY <1>2, <1>a, Gone
  <2>2. \A i \in DOMAIN inbox : i \in DOMAIN inbox' /\ inbox'[i] = inbox[i]
    BY <1>2, <1>a, Heard
  <2>3. ASSUME NEW j \in DOMAIN jobs, jobs[j].at = "open" PROVE Reopening'
    <3>1. j # k
      BY <2>3
    <3> QED  BY <2>1, <2>3, <3>1 DEF Reopening
  <2> QED  BY <2>2, <2>3 DEF Reopening
<1>3. CASE GoesOn(k)
  BY <1>1, <1>3 DEF GoesOn
<1>4. CASE EndsWith(k)
  <2>1. PICK outcome : Ends(k, outcome) /\ (outcome = "shrinks" => jobs[k].want.ch[2] = "rebuild")
    BY <1>4 DEF EndsWith
  <2>2. MessageOK(Answered(jobs[k].want, outcome, jobs[k].saw))
    BY <2>1 DEF MessageOK, Answered
  <2> QED  BY <1>2, <2>1, <2>2 DEF Ends
<1>5. CASE Dropped(k)
  <2>1. \A outcome, saw : outcome # "shrinks" => MessageOK(Answered(jobs[k].want, outcome, saw))
    BY DEF MessageOK, Answered
  <2>2. MessageOK(Answered(jobs[k].want, "found", Unread))
    BY <2>1
  <2> QED  BY <1>2, <1>5, <2>1, <2>2 DEF Dropped
<1> QED  BY <1>3, <1>4, <1>5

\* A job that replaces the file is at "open", or has said that it is done, afterwards.
LEMMA ReplacedReopens ==
  ASSUME Pool, NEW k \in DOMAIN jobs, Replace(k)
  PROVE  Reopening'
<1>a. JobsOK(jobs) /\ QueueOK(inbox)
  BY DEF Pool
<1>1. PICK kind \in Replacing :
        /\ At(k, kind, "replace")
        /\ IF kind = "restore" THEN Ends(k, "found")
           ELSE Goes(k, "open", jobs[k].note) /\ UNCHANGED inbox
  BY DEF Replace
<1>2. CASE kind = "restore"
  <2> DEFINE m == Answered(jobs[k].want, "found", jobs[k].saw)
  <2>1. inbox' = Append(inbox, m)
    BY <1>1, <1>2 DEF Ends
  <2>2. MessageOK(m) /\ m.want.ch[2] = "restore" /\ m.outcome = "found"
    BY <1>1, <1>2 DEF MessageOK, Answered, At
  <2> HIDE DEF m
  <2>3. Len(inbox) + 1 \in DOMAIN inbox' \ DOMAIN inbox /\ inbox'[Len(inbox) + 1] = m
    BY <1>a, <2>1, <2>2, Heard
  <2> QED  BY <2>2, <2>3 DEF Reopening
<1>3. CASE kind # "restore"
  <2>1. Goes(k, "open", jobs[k].note)
    BY <1>1, <1>3
  <2>2. DOMAIN jobs' = DOMAIN jobs /\ jobs'[k].at = "open"
    BY <1>a, <2>1, Moved
  <2> QED  BY <2>2 DEF Reopening
<1> QED  BY <1>2, <1>3

\* No step of a job leaves the manager on a file that was replaced, without an opening that is owed.
LEMMA WorkKeepsOpen ==
  ASSUME Pool, DiskOK, OpenInv, NEW k \in DOMAIN jobs, Work(k) \/ UpdateWork(k)
  PROVE  OpenInv'
<1>a. life' = life /\ (GoesOn(k) \/ EndsWith(k))
  BY Working
<1>b. ASSUME jobs[k].at # "open", Reopening PROVE Reopening'
  BY <1>a, <1>b, ReopeningLeft
<1>c. ASSUME NEW kind, NEW place, At(k, kind, place) PROVE jobs[k].at = place
  BY <1>c DEF At
<1>d. ASSUME jobs[k].at # "open", UNCHANGED <<db, file>> PROVE OpenInv'
  BY <1>b, <1>d DEF OpenInv
<1>e. ASSUME db' = Opened, file' = file PROVE OpenInv'
  BY <1>e DEF OpenInv, Opened
<1>f. ASSUME db' = [db EXCEPT !.open = FALSE] PROVE OpenInv'
  BY <1>f DEF OpenInv, DiskOK
<1>1. CASE RunCheck(k)
  BY <1>1, <1>c, <1>d DEF RunCheck, onDisk
<1>2. CASE BeginBackup(k)
  BY <1>2, <1>c, <1>d DEF BeginBackup
<1>3. CASE CompleteBackup(k)
  BY <1>3, <1>c, <1>d DEF CompleteBackup
<1>4. CASE FailBackup(k)
  BY <1>4, <1>c, <1>d DEF FailBackup
<1>5. CASE PruneBackups(k)
  BY <1>5, <1>c, <1>d DEF PruneBackups
<1>6. CASE VerifyBackup(k)
  BY <1>6, <1>c, <1>d DEF VerifyBackup, onDisk
<1>7. CASE BuildCandidate(k)
  BY <1>7, <1>c, <1>d DEF BuildCandidate
<1>8. CASE VerifyPrevious(k)
  BY <1>8, <1>c, <1>d DEF VerifyPrevious, onDisk
<1>9. CASE CloseForSwap(k)
  BY <1>9, <1>f DEF CloseForSwap
<1>10. CASE BeginKeeping(k)
  BY <1>10, <1>c, <1>d DEF BeginKeeping, onDisk
<1>11. CASE FinishKeeping(k)
  BY <1>11, <1>c, <1>d DEF FinishKeeping
<1>12. CASE BeginCopy(k)
  BY <1>12, <1>c, <1>d DEF BeginCopy
<1>13. CASE Replace(k)
  BY <1>13, ReplacedReopens DEF OpenInv
<1>14. CASE FailReplace(k)
  <2>1. file' = Written(file, jobs[k].want) /\ db' \in {db, Opened} /\ jobs[k].at # "open"
    BY <1>14, <1>c DEF FailReplace, Reopened
  <2>2. file'.content = file.content
    BY <2>1, WrittenIsFile DEF DiskOK
  <2> QED  BY <1>b, <2>1, <2>2 DEF OpenInv, Opened
<1>15. CASE OpenAfterSwap(k)
  BY <1>15, <1>e DEF OpenAfterSwap
<1>16. CASE FinishCheck(k)
  BY <1>16, <1>c, <1>d DEF FinishCheck, onDisk
<1>17. CASE FetchPackage(k)
  BY <1>17, <1>c, <1>d DEF FetchPackage
<1>18. CASE CloseForInstall(k)
  BY <1>18, <1>f DEF CloseForInstall
<1>19. CASE OpenInstalled(k)
  BY <1>19, <1>e DEF OpenInstalled, onDisk
<1> QED  BY <1>1, <1>2, <1>3, <1>4, <1>5, <1>6, <1>7, <1>8, <1>9, <1>10, <1>11, <1>12, <1>13,
            <1>14, <1>15, <1>16, <1>17, <1>18, <1>19 DEF Work, UpdateWork

\* Nor does any other step.
LEMMA OpenStays ==
  ASSUME Pool, DiskOK, OpenInv, [DesktopNext]_desktop
  PROVE  OpenInv'
<1>a. ASSUME UNCHANGED <<db, file>>, NEW K, Extended(K),
             \/ inbox' = inbox
             \/ /\ inbox # <<>> /\ inbox' = Tail(inbox)
                /\ ~(Head(inbox).want.ch[2] = "restore" /\ Head(inbox).outcome = "found")
      PROVE  OpenInv'
  BY <1>a, ReopeningStays DEF OpenInv
<1>b. ASSUME db' = [db EXCEPT !.open = FALSE] PROVE OpenInv'
  BY <1>b DEF OpenInv, DiskOK
<1>c. ASSUME db' = Opened, file' = file PROVE OpenInv'
  BY <1>c DEF OpenInv, Opened
<1>1. CASE Lookups /\ UNCHANGED mvars
  <2>1. file' = file
    BY <1>1 DEF mvars, onDisk
  <2>2. ASSUME NEW k \in DOMAIN jobs, Dropped(k), db' = db, life' = life PROVE OpenInv'
    <3>1. jobs[k].at # "open"
      BY <2>2 DEF Dropped
    <3>2. Reopening => Reopening'
      BY <2>2, <3>1, ReopeningLeft
    <3> QED  BY <2>1, <2>2, <3>2 DEF OpenInv
  <2>3. "restore" \notin LookupKinds
    BY DEF LookupKinds
  <2> QED  BY <1>1, <1>a, <1>b, <2>1, <2>2, <2>3, Looking DEF Emptied
<1>2. CASE \E k \in DOMAIN jobs : Work(k) \/ UpdateWork(k)
  BY <1>2, WorkKeepsOpen
<1>3. CASE \/ \E p \in Pages :
                \/ \E kind \in Checks \cup {"backup"} : StartJob(p, kind)
                \/ \E b \in Range(backups) : StartRestore(p, b)
           \/ \E kind \in JobKinds : PaletteCommand(kind)
           \/ StartRebuild \/ StartRollback \/ RefreshListStatus \/ GatherLearning
           \/ \E i \in DOMAIN backups : DeleteBackup(i)
           \/ ShowAdmin
  <2>1. file' = file /\ db' \in {db, [db EXCEPT !.open = FALSE]}
    BY <1>3 DEF StartJob, StartRestore, PaletteCommand, StartRebuild, StartRollback, RefreshListStatus,
                GatherLearning, DeleteBackup, ShowAdmin, onDisk, mvars
  <2>2. Extended(LookupKinds \cup MaintenanceKinds) /\ inbox' = inbox
    BY <1>3, UserMaintains
  <2> QED  BY <1>a, <1>b, <2>1, <2>2
<1>4. CASE DeliverJob
  <2>1. file' = file
    BY <1>4 DEF DeliverJob, onDisk
  <2>2. inbox # <<>> /\ inbox' = Tail(inbox) /\ \E K : Extended(K)
    BY <1>4, JobAnswered, JobBegun
  <2>3. CASE Head(inbox).want.ch[2] = "restore" /\ Head(inbox).outcome = "found"
    <3>1. db' = Opened
      BY <1>4, <2>3 DEF DeliverJob, OnJobDone, OnReplaced, OnShrinkRefused, OnRestored, OnRestoreFailed,
                        Checks, Swaps
    <3> QED  BY <1>c, <2>1, <3>1
  <2>4. CASE ~(Head(inbox).want.ch[2] = "restore" /\ Head(inbox).outcome = "found")
    <3>1. db' \in {db, Opened}
      BY <1>4 DEF DeliverJob, OnJobDone, OnReplaced, OnShrinkRefused, OnRestored, OnRestoreFailed
    <3> QED  BY <1>a, <1>c, <2>1, <2>2, <2>4, <3>1
  <2> QED  BY <2>3, <2>4
<1>5. CASE Kill
  BY <1>5, <1>b DEF Kill
<1>6. CASE Restart
  BY <1>6, <1>c DEF Restart, onDisk
<1>7. CASE ReportActs
  <2>1. UNCHANGED <<db, file>>
    BY <1>7 DEF ReportActs, ShowReports, SetType, SetReportFilter, SaveTemplate, LoadTemplate, DeleteTemplate,
                Unbuilt, mvars, onDisk
  <2> QED  BY <1>7, <1>a, <2>1, UserReports
<1>8. CASE DeliverValues
  <2>1. /\ UNCHANGED <<db, file>> /\ jobs' = jobs /\ inbox # <<>> /\ inbox' = Tail(inbox) /\ life' = life
        /\ Head(inbox).want.ch = Values
    BY <1>8 DEF DeliverValues, mvars, onDisk
  <2>2. Extended({})
    BY <2>1, LeftAlone DEF Pool
  <2> QED  BY <1>a, <2>1, <2>2 DEF Values
<1>9. CASE Build
  BY <1>9, <1>b DEF Build
<1>10. CASE \/ \E by \in {"user", "timer"} : CheckForUpdates(by)
            \/ InstallUpdate \/ BannerAction \/ CancelInstall
  <2>1. UNCHANGED <<db, file>>
    BY <1>10 DEF CheckForUpdates, InstallUpdate, BannerAction, CancelInstall, onDisk
  <2> QED  BY <1>10, <1>a, <2>1, UserUpdates
<1>11. CASE DeliverUpdate
  <2>1. UNCHANGED <<db, file>>
    BY <1>11 DEF DeliverUpdate, onDisk
  <2> QED  BY <1>11, <1>a, <2>1, UpdateAnswered DEF Check, Install
<1>12. CASE UNCHANGED desktop
  BY <1>12 DEF desktop, window, all, vars, mvars, onDisk, OpenInv, Reopening
<1> QED  BY <1>1, <1>2, <1>3, <1>4, <1>5, <1>6, <1>7, <1>8, <1>9, <1>10, <1>11, <1>12
         DEF DesktopNext, WindowNext, Next, ReportActs

\* What the window reads is what is installed whenever no job that replaces the file is
\* under way: a file that was replaced under an open manager is opened again by the job
\* that replaced it, or by the page that hears of it, whatever else happens meanwhile.
THEOREM InstalledIsOpen == DesktopSpec => []OpenIsInstalled
<1> DEFINE Inv == Pool /\ DiskOK /\ OpenInv
<1>1. DesktopInit => Inv
  <2>1. DesktopInit => OpenInv
    BY DEF DesktopInit, WindowInit, MInit, Init, OpenInv
  <2> QED  BY <2>1, PoolHolds, DiskHolds
<1>2. Inv /\ [DesktopNext]_desktop => Inv'
  BY PoolStays, DiskStays, OpenStays
<1>3. Inv => OpenIsInstalled
  <2>1. ASSUME Pool, NEW k \in DOMAIN jobs, jobs[k].at = "open" PROVE jobs[k].want.ch[2] \in Replacing
    BY <2>1 DEF Pool, JobsOK, JobOK, Swaps, Replacing
  <2> QED  BY <2>1 DEF OpenInv, Reopening, OpenIsInstalled, Underway, UnderwayIn, Replacing
<1> QED  BY <1>1, <1>2, <1>3, PTL DEF DesktopSpec

--------------------------------------------------------------------------------
\* The Report Centre

\* A request is on its way after a step only if it was before, or is of a kind that the
\* step asks for.
LEMMA NotMore ==
  ASSUME Pool, NEW ch, Pending(ch)',
         \/ \E K : /\ Extended(K) /\ ch[2] \notin K
                   /\ inbox' = inbox \/ (inbox # <<>> /\ inbox' = Tail(inbox))
         \/ \E k \in DOMAIN jobs : GoesOn(k) \/ EndsWith(k) \/ Dropped(k)
         \/ jobs' = <<>> /\ inbox' = <<>>
  PROVE  Pending(ch)
<1>0. JobsOK(jobs) /\ QueueOK(inbox) /\ IsSeq(jobs) /\ IsSeq(inbox)
  BY DEF Pool, JobsOK, QueueOK
<1>1. CASE \E K : /\ Extended(K) /\ ch[2] \notin K
                  /\ inbox' = inbox \/ (inbox # <<>> /\ inbox' = Tail(inbox))
  <2>1. PICK K : /\ Extended(K) /\ ch[2] \notin K
                 /\ inbox' = inbox \/ (inbox # <<>> /\ inbox' = Tail(inbox))
    BY <1>1
  <2>2. ASSUME NEW i \in DOMAIN jobs', jobs'[i].want.ch = ch PROVE Pending(ch)
    BY <2>1, <2>2 DEF Extended, Same, Pending
  <2>3. ASSUME NEW i \in DOMAIN inbox', inbox'[i].want.ch = ch PROVE Pending(ch)
    BY <1>0, <2>1, <2>3, Handled DEF Pending
  <2> QED  BY <2>2, <2>3 DEF Pending
<1>2. ASSUME NEW k \in DOMAIN jobs, GoesOn(k) PROVE Pending(ch)
  <2>1. PICK place, note : Goes(k, place, note) /\ inbox' = inbox
    BY <1>2 DEF GoesOn
  <2> QED  BY <1>0, <2>1, Moved DEF Pending
<1>3. ASSUME NEW k \in DOMAIN jobs, NEW outcome, NEW saw, jobs' = RemoveAt(jobs, k),
             inbox' = inbox \/ inbox' = Append(inbox, Answered(jobs[k].want, outcome, saw))
      PROVE  Pending(ch)
  <2> DEFINE m == Answered(jobs[k].want, outcome, saw)
  <2>1. m.want = jobs[k].want
    BY DEF Answered
  <2> HIDE DEF m
  <2>2. /\ DOMAIN jobs' = 1 .. Len(jobs) - 1
        /\ \A i \in DOMAIN jobs' : jobs'[i] = jobs[IF i < k THEN i ELSE i + 1]
    BY <1>0, <1>3, RemoveOwn
  <2>3. ASSUME NEW i \in DOMAIN jobs', jobs'[i].want.ch = ch PROVE Pending(ch)
    <3>1. (IF i < k THEN i ELSE i + 1) \in DOMAIN jobs
      BY <1>0, <2>2, SeqDomain
    <3> QED  BY <2>2, <2>3, <3>1 DEF Pending
  <2>4. ASSUME NEW i \in DOMAIN inbox', inbox'[i].want.ch = ch PROVE Pending(ch)
    <3>1. CASE inbox' = inbox
      BY <2>4, <3>1 DEF Pending
    <3>2. CASE inbox' = Append(inbox, m)
      <4>1. (i \in DOMAIN inbox /\ inbox'[i] = inbox[i]) \/ inbox'[i] = m
        BY <1>0, <3>2, AppendOwn, SeqDomain
      <4> QED  BY <2>1, <2>4, <4>1 DEF Pending
    <3> QED  BY <1>3, <3>1, <3>2 DEF m
  <2> QED  BY <2>3, <2>4 DEF Pending
<1>4. ASSUME NEW k \in DOMAIN jobs, EndsWith(k) PROVE Pending(ch)
  BY <1>3, <1>4 DEF EndsWith, Ends
<1>5. ASSUME NEW k \in DOMAIN jobs, Dropped(k) PROVE Pending(ch)
  BY <1>3, <1>5 DEF Dropped
<1>6. CASE jobs' = <<>> /\ inbox' = <<>>
  BY <1>6, NoneSeq DEF Pending
<1> QED  BY <1>1, <1>2, <1>4, <1>5, <1>6

\* What a template sets.
LEMMA TypedReport ==
  ASSUME NEW p, IsReport(p), NEW type
  PROVE  LET q == Typed(p, type)
         IN  /\ IsReport(q) /\ q.type = type /\ q.seen = p.seen /\ q.offered = p.offered
             /\ q.loaded = p.loaded
<1> DEFINE e == type = Scoped
           d == [p EXCEPT !.type = type]
           f == [d EXCEPT !.enabled = e]
           q == Typed(p, type)
<1>1. q = IF type = p.type THEN p ELSE f
  BY DEF Typed
<1>2. d = [p EXCEPT !.type = type] /\ f = [d EXCEPT !.enabled = e]
  OBVIOUS
<1> HIDE DEF e, d, f, q
<1>3. IsReport(d) /\ d.type = type /\ d.seen = p.seen /\ d.offered = p.offered /\ d.loaded = p.loaded
  BY <1>2 DEF IsReport
<1>4. IsReport(f) /\ f.type = d.type /\ f.seen = d.seen /\ f.offered = d.offered /\ f.loaded = d.loaded
  BY <1>2, <1>3 DEF IsReport
<1> QED  BY <1>1, <1>3, <1>4 DEF q

\* What loading a template sets on the page.
LEMMA LoadedReport ==
  ASSUME NEW p, IsReport(p), NEW t
  PROVE  LET q == Loaded(p, t)
         IN  /\ IsReport(q) /\ q.type = t.type /\ q.seen = p.seen /\ q.offered = p.offered
             /\ q.loaded = t
             /\ q.filter = IF t.filter \in p.offered THEN t.filter ELSE None
<1> DEFINE v == IF t.filter \in p.offered THEN t.filter ELSE None
           type == t.type
           d == Typed(p, type)
           f == [d EXCEPT !.filter = v]
           q == Loaded(p, t)
<1>1. q = [f EXCEPT !.loaded = t]
  BY DEF Loaded
<1>2. f = [d EXCEPT !.filter = v]
  OBVIOUS
<1>3. IsReport(d) /\ d.type = type /\ d.seen = p.seen /\ d.offered = p.offered
  BY TypedReport
<1> HIDE DEF v, type, d, f, q
<1>4. IsReport(f) /\ f.type = d.type /\ f.seen = d.seen /\ f.offered = d.offered /\ f.filter = v
  BY <1>2, <1>3 DEF IsReport
<1>5. /\ IsReport(q) /\ q.type = f.type /\ q.seen = f.seen /\ q.offered = f.offered /\ q.filter = f.filter
      /\ q.loaded = t
  BY <1>1, <1>4 DEF IsReport
<1> QED  BY <1>3, <1>4, <1>5 DEF q, v, type

\* What was overtaken once stays so until the program is started again.
LEMMA LapsedGrows ==
  ASSUME [DesktopNext]_desktop
  PROVE  Restart \/ (lapsed \subseteq lapsed' /\ starts' = starts)
<1>1. CASE Lookups /\ UNCHANGED mvars
  <2>1. lapsed \subseteq lapsed'
    BY <1>1
       DEF Lookups, SearchBin, ClearBin, CheckBinlist, RunAdvanced, SearchName, ClearName,
           SelectInstitution, SetFilter, RefreshAnalytics, ScopeAnalytics, OpenPalette, ClosePalette,
           TypeText, Debounced, SetRemember, ClearHistory, Start, Finish, Deliver, CloseWindow,
           Teardown, Overtaken
  <2> QED  BY <1>1, <2>1 DEF mvars
<1>2. CASE \/ \E p \in Pages :
                \/ \E kind \in Checks \cup {"backup"} : StartJob(p, kind)
                \/ \E b \in Range(backups) : StartRestore(p, b)
           \/ \E kind \in JobKinds : PaletteCommand(kind)
           \/ StartRebuild \/ StartRollback \/ RefreshListStatus \/ GatherLearning
           \/ \E i \in DOMAIN backups : DeleteBackup(i)
           \/ ShowAdmin
  BY <1>2 DEF StartJob, StartRestore, PaletteCommand, StartRebuild, StartRollback,
              RefreshListStatus, GatherLearning, DeleteBackup, ShowAdmin, Overtaken, mvars
<1>3. ASSUME NEW k \in DOMAIN jobs, Work(k) \/ UpdateWork(k)
      PROVE  lapsed' = lapsed /\ starts' = starts
  BY <1>3 DEF Work, UpdateWork, RunCheck, BeginBackup, CompleteBackup, FailBackup, PruneBackups,
              VerifyBackup, BuildCandidate, VerifyPrevious, CloseForSwap, BeginKeeping,
              FinishKeeping, BeginCopy, Replace, FailReplace, OpenAfterSwap, FinishCheck,
              FetchPackage, CloseForInstall, OpenInstalled, Behind
<1>4. CASE DeliverJob
  <2>1. PICK m \in {Head(inbox)} :
          \/ OnJobDone(m) \/ OnReplaced(m) \/ OnShrinkRefused(m)
          \/ OnRestored(m) \/ OnRestoreFailed(m)
    BY <1>4 DEF DeliverJob
  <2>2. lapsed \subseteq lapsed'
    BY <2>1 DEF OnJobDone, OnReplaced, OnShrinkRefused, OnRestored, OnRestoreFailed, Overtaken
  <2> QED  BY <1>4, <2>2 DEF DeliverJob
<1>5. CASE Kill
  BY <1>5 DEF Kill, mvars
<1>6. CASE ReportActs \/ DeliverValues \/ Build
  BY <1>6 DEF ReportActs, ShowReports, SetType, SetReportFilter, SaveTemplate, LoadTemplate,
              DeleteTemplate, DeliverValues, Build, Unbuilt, Overtaken, mvars
<1>7. CASE \/ \E by \in {"user", "timer"} : CheckForUpdates(by)
           \/ InstallUpdate \/ BannerAction \/ CancelInstall
  BY <1>7 DEF CheckForUpdates, InstallUpdate, BannerAction, CancelInstall, Beside
<1>8. CASE DeliverUpdate
  <2>1. PICK m \in {Head(inbox)} :
          \/ OnChecked(m) \/ OnCheckFailed(m)
          \/ OnInstalled(m) \/ OnInstallFailed(m) \/ OnCancelled(m)
    BY <1>8 DEF DeliverUpdate
  <2>2. lapsed \subseteq lapsed'
    BY <2>1 DEF OnChecked, OnCheckFailed, OnInstalled, OnInstallFailed, OnCancelled, Overtaken
  <2> QED  BY <1>8, <2>2 DEF DeliverUpdate, Beside
<1>9. CASE UNCHANGED desktop
  BY <1>9 DEF desktop, window, all, vars, mvars
<1> QED  BY <1>1, <1>2, <1>3, <1>4, <1>5, <1>6, <1>7, <1>8, <1>9
         DEF DesktopNext, WindowNext, Next, ReportActs

\* Work of other kinds brings no values.
LEMMA ValuesKept ==
  ASSUME Pool, Pending(Values)', NEW K, "values" \notin K, Extended(K),
         inbox' = inbox \/ (inbox # <<>> /\ inbox' = Tail(inbox))
  PROVE  Pending(Values)
<1>1. Values[2] = "values"
  BY DEF Values
<1> QED  BY <1>1, NotMore

\* Only the Report Centre asks for the filter values, and only when it is first shown.
LEMMA ValuesAsked ==
  ASSUME Pool, [DesktopNext]_desktop, Pending(Values)'
  PROVE  Pending(Values) \/ ShowReports
<1>0. Values[2] = "values"
  BY DEF Values
<1>1. "values" \notin LookupKinds \cup MaintenanceKinds \cup UpdateKinds
  BY DEF LookupKinds, MaintenanceKinds, UpdateKinds, Checks
<1>2. CASE Lookups /\ UNCHANGED mvars
  <2>1. CASE Extended(LookupKinds) /\ (inbox' = inbox \/ (inbox # <<>> /\ inbox' = Tail(inbox)))
    BY <1>1, <2>1, ValuesKept
  <2>2. CASE \E k \in DOMAIN jobs : Dropped(k)
    BY <2>2, NotMore
  <2>3. CASE Emptied
    BY <2>3, NotMore DEF Emptied
  <2>4. \/ Extended(LookupKinds) /\ (inbox' = inbox \/ (inbox # <<>> /\ inbox' = Tail(inbox)))
        \/ \E k \in DOMAIN jobs : Dropped(k)
        \/ Emptied
    <3>1. \/ /\ Extended(LookupKinds) /\ inbox' = inbox /\ db' = db
             /\ life # "closed" /\ life' \in {life, "draining"}
          \/ /\ Extended(LookupKinds) /\ inbox # <<>> /\ inbox' = Tail(inbox) /\ db' = db
             /\ Head(inbox).want.ch[2] \in LookupKinds
             /\ life = "running" /\ life' = life
          \/ /\ \E k \in DOMAIN jobs : Dropped(k)
             /\ db' = db /\ life # "closed" /\ life' = life
          \/ Emptied
      BY <1>2, Looking
    <3> QED  BY <3>1
  <2> QED  BY <2>1, <2>2, <2>3, <2>4
<1>3. CASE \/ \E p \in Pages :
                \/ \E kind \in Checks \cup {"backup"} : StartJob(p, kind)
                \/ \E b \in Range(backups) : StartRestore(p, b)
           \/ \E kind \in JobKinds : PaletteCommand(kind)
           \/ StartRebuild \/ StartRollback \/ RefreshListStatus \/ GatherLearning
           \/ \E i \in DOMAIN backups : DeleteBackup(i)
           \/ ShowAdmin
  <2> DEFINE K == LookupKinds \cup MaintenanceKinds
  <2>3. Extended(K) /\ inbox' = inbox
    BY <1>3, UserMaintains
  <2>1. Extended(K) /\ (inbox' = inbox \/ (inbox # <<>> /\ inbox' = Tail(inbox)))
    BY <2>3
  <2>2. "values" \notin K
    BY <1>1
  <2> HIDE DEF K
  <2> QED  BY <2>1, <2>2, ValuesKept
<1>4. ASSUME NEW k \in DOMAIN jobs, Work(k) \/ UpdateWork(k)
      PROVE  Pending(Values)
  BY <1>4, Working, NotMore
<1>5. CASE DeliverJob
  <2>1. inbox # <<>> /\ inbox' = Tail(inbox) /\ life' = life
    BY <1>5, JobAnswered
  <2>2. \E K : Extended(K) /\ "values" \notin K
    <3>1. CASE \E K \in {{}, LookupKinds} : Extended(K)
      BY <1>1, <3>1
    <3>2. CASE BeginJob(Request(Job("database", "rebuild"), "allow_shrink", None), Tail(inbox))
      <4> DEFINE want == Request(Job("database", "rebuild"), "allow_shrink", None)
      <4>1. want.ch[2] = "rebuild"
        BY DEF Request, Job
      <4> HIDE DEF want
      <4>2. Extended({"rebuild"})
        BY <2>1, <3>2, <4>1, JobBegun DEF want
      <4> QED  BY <4>2
    <3> QED  BY <1>5, <3>1, <3>2, JobAnswered
  <2> QED  BY <1>0, <2>1, <2>2, NotMore
<1>6. CASE Kill \/ Build
  BY <1>6, NotMore DEF Kill, Build
<1>7. CASE Restart
  BY <1>7 DEF Restart, Pending
<1>8. CASE ReportActs
  <2>1. ~ShowReports => jobs' = jobs /\ inbox' = inbox
    BY <1>8, UserReports
  <2> QED  BY <2>1 DEF Pending
<1>9. CASE DeliverValues
  <2>1. jobs' = jobs /\ inbox # <<>> /\ inbox' = Tail(inbox)
    BY <1>9 DEF DeliverValues
  <2>2. Extended({})
    BY <1>9, <2>1, LeftAlone DEF DeliverValues, Pool
  <2> QED  BY <2>1, <2>2, NotMore
<1>10. CASE \/ \E by \in {"user", "timer"} : CheckForUpdates(by)
            \/ InstallUpdate \/ BannerAction \/ CancelInstall
  <2>2. Extended(UpdateKinds) /\ inbox' = inbox
    BY <1>10, UserUpdates
  <2>1. Extended(UpdateKinds) /\ (inbox' = inbox \/ (inbox # <<>> /\ inbox' = Tail(inbox)))
    BY <2>2
  <2> QED  BY <1>1, <2>1, ValuesKept
<1>11. CASE DeliverUpdate
  <2> DEFINE K == UpdateKinds \cup LookupKinds
  <2>1. Extended(K) /\ (inbox' = inbox \/ (inbox # <<>> /\ inbox' = Tail(inbox)))
    BY <1>11, UpdateAnswered
  <2>2. "values" \notin K
    BY <1>1
  <2> HIDE DEF K
  <2> QED  BY <2>1, <2>2, ValuesKept
<1>12. CASE UNCHANGED desktop
  BY <1>12 DEF desktop, window, all, vars, Pending
<1> QED  BY <1>2, <1>3, <1>4, <1>5, <1>6, <1>7, <1>8, <1>9, <1>10, <1>11, <1>12
         DEF DesktopNext, WindowNext, Next, ReportActs

\* No template is loaded at the start.
LEMMA LoadedHolds == DesktopInit => LoadedInv
BY DEF DesktopInit, WindowInit, MInit, NoReport, LoadedInv, IsReport

\* A step that leaves the page alone leaves it as it was loaded.
LEMMA LoadedLeft ==
  ASSUME Pool, LoadedInv, [DesktopNext]_desktop, report' = report, ~ShowReports, ~Restart
  PROVE  LoadedInv'
<1>1. lapsed \subseteq lapsed' /\ starts' = starts
  BY LapsedGrows
<1>2. Pending(Values)' => Pending(Values)
  BY ValuesAsked
<1> QED  BY <1>1, <1>2 DEF LoadedInv, AsLoaded

\* Every step keeps the page as it was loaded, or forgets that it was.
LEMMA LoadedStays ==
  ASSUME Pool, LoadedInv, [DesktopNext]_desktop
  PROVE  LoadedInv'
<1>1. CASE Restart
  <2>1. starts' \in Nat /\ starts' # starts
    BY <1>1 DEF Restart, LoadedInv
  <2>3. ~(ReportActs \/ DeliverValues \/ Build)
    BY <2>1 DEF ReportActs, ShowReports, SetType, SetReportFilter, SaveTemplate, LoadTemplate,
                DeleteTemplate, DeliverValues, Build, Unbuilt, mvars
  <2>4. ~(\/ \E by \in {"user", "timer"} : CheckForUpdates(by)
          \/ InstallUpdate \/ BannerAction \/ CancelInstall \/ DeliverUpdate)
    BY <2>1 DEF CheckForUpdates, InstallUpdate, BannerAction, CancelInstall, Beside, DeliverUpdate
  <2>5. ~(UNCHANGED desktop)
    BY <2>1 DEF desktop, window, all, mvars
  <2>6. ASSUME NEW k \in DOMAIN jobs, UpdateWork(k) PROVE FALSE
    BY <2>1, <2>6 DEF UpdateWork, FinishCheck, FetchPackage, CloseForInstall, OpenInstalled, Behind
  <2>2. report' = NoReport
    BY <2>1, <2>3, <2>4, <2>5, <2>6 DEF DesktopNext, WindowNext, ReportActs
  <2> QED  BY <2>1, <2>2 DEF LoadedInv, NoReport, IsReport
<1>2. CASE ShowReports
  <2>1. starts' = starts
    BY <1>2 DEF ShowReports, Unbuilt, mvars
  <2>2. report.loaded = None
    BY <1>2 DEF ShowReports, LoadedInv
  <2>3. report' = [report EXCEPT !.seen = TRUE]
    BY <1>2 DEF ShowReports
  <2>4. IsReport(report') /\ report'.loaded = None
    BY <2>2, <2>3 DEF LoadedInv, IsReport
  <2> QED  BY <2>1, <2>4 DEF LoadedInv
<1>3. ASSUME NEW type, SetType(type) PROVE LoadedInv'
  <2> DEFINE d == Typed(report, type)
  <2>1. IsReport(d)
    BY TypedReport DEF LoadedInv
  <2>2. report' = [d EXCEPT !.loaded = None] /\ starts' = starts
    BY <1>3 DEF SetType, Unbuilt, mvars
  <2> HIDE DEF d
  <2>3. IsReport(report') /\ report'.loaded = None
    BY <2>1, <2>2 DEF IsReport
  <2> QED  BY <2>2, <2>3 DEF LoadedInv
<1>4. ASSUME NEW f, SetReportFilter(f) PROVE LoadedInv'
  <2> DEFINE d == [report EXCEPT !.filter = f]
  <2>1. d = [report EXCEPT !.filter = f]
    OBVIOUS
  <2>2. report' = [d EXCEPT !.loaded = None] /\ starts' = starts
    BY <1>4 DEF SetReportFilter, Unbuilt, mvars
  <2> HIDE DEF d
  <2>3. IsReport(d)
    BY <2>1 DEF LoadedInv, IsReport
  <2>4. IsReport(report') /\ report'.loaded = None
    BY <2>2, <2>3 DEF IsReport
  <2> QED  BY <2>2, <2>4 DEF LoadedInv
<1>5. ASSUME NEW t, LoadTemplate(t) PROVE LoadedInv'
  <2>1. /\ starts' = starts /\ report' = Loaded(report, t) /\ report.seen
        /\ lapsed' = lapsed \cup {ch \in {Values} : Pending(ch)}
        /\ jobs' = jobs /\ inbox' = inbox
    BY <1>5 DEF LoadTemplate, Unbuilt, mvars, Overtaken
  <2>2. /\ IsReport(report') /\ report'.seen /\ report'.loaded = t /\ report'.type = t.type
        /\ report'.offered = report.offered
        /\ report'.filter = IF t.filter \in report.offered THEN t.filter ELSE None
    BY <2>1, LoadedReport DEF LoadedInv
  <2>3. Values \notin lapsed' => ~Pending(Values)'
    BY <2>1 DEF Pending
  <2>4. AsLoaded(report')
    BY <2>2 DEF AsLoaded
  <2> QED  BY <2>1, <2>2, <2>3, <2>4 DEF LoadedInv
<1>6. CASE DeliverValues
  <2>1. /\ inbox # <<>> /\ Head(inbox).want.ch = Values
        /\ starts' = starts /\ lapsed' = lapsed
    BY <1>6 DEF DeliverValues, mvars
  <2>2. Pending(Values)
    BY <2>1, Handled, TailOwn DEF Pending, Pool, QueueOK
  <2>3. IsReport(report') /\ report'.loaded = report.loaded /\ report'.seen = report.seen
    <3>1. CASE Head(inbox).outcome = "found"
      <4> DEFINE v == FilterValues[Head(inbox).saw.content]
                 d == [report EXCEPT !.offered = v]
      <4>1. report' = [d EXCEPT !.filter = None]
        BY <1>6, <3>1 DEF DeliverValues
      <4>2. d = [report EXCEPT !.offered = v]
        OBVIOUS
      <4> HIDE DEF v, d
      <4>3. IsReport(d) /\ d.loaded = report.loaded /\ d.seen = report.seen
        BY <4>2 DEF LoadedInv, IsReport
      <4> QED  BY <4>1, <4>3 DEF IsReport
    <3>2. CASE Head(inbox).outcome # "found"
      BY <1>6, <3>2 DEF DeliverValues, LoadedInv
    <3> QED  BY <3>1, <3>2
  <2> QED  BY <2>1, <2>2, <2>3 DEF LoadedInv
<1>7. CASE Build
  <2>1. /\ starts' = starts /\ lapsed' = lapsed /\ report' = [report EXCEPT !.building = TRUE]
        /\ jobs' = <<>> /\ inbox' = <<>>
    BY <1>7 DEF Build, mvars
  <2>2. /\ IsReport(report') /\ report'.loaded = report.loaded /\ report'.seen = report.seen
        /\ report'.type = report.type /\ report'.filter = report.filter
        /\ report'.offered = report.offered
    BY <2>1 DEF LoadedInv, IsReport
  <2>3. Pending(Values)' => Pending(Values)
    BY <2>1, NotMore
  <2> QED  BY <2>1, <2>2, <2>3 DEF LoadedInv, AsLoaded
<1>8. CASE \/ \E name \in TemplateNames : SaveTemplate(name)
           \/ \E t \in templates : DeleteTemplate(t)
  <2>1. report' = report
    BY <1>8 DEF SaveTemplate, DeleteTemplate
  <2> QED  BY <1>1, <1>2, <2>1, LoadedLeft
<1>9. CASE ~Restart /\ WindowNext /\ Next /\ report' = IF starts' # starts THEN NoReport ELSE report
  <2>1. report' = report
    BY <1>9, LapsedGrows
  <2> QED  BY <1>2, <1>9, <2>1, LoadedLeft
<1>10. CASE \/ \E by \in {"user", "timer"} : CheckForUpdates(by)
            \/ InstallUpdate \/ BannerAction \/ CancelInstall \/ DeliverUpdate
            \/ \E k \in DOMAIN jobs : UpdateWork(k) /\ UNCHANGED <<rvars, updates>>
            \/ UNCHANGED desktop
  <2>1. report' = report
    BY <1>10 DEF CheckForUpdates, InstallUpdate, BannerAction, CancelInstall, DeliverUpdate, Beside,
                 rvars, desktop, window
  <2> QED  BY <1>1, <1>2, <2>1, LoadedLeft
<1> QED  BY <1>1, <1>2, <1>3, <1>4, <1>5, <1>6, <1>7, <1>8, <1>9, <1>10
         DEF DesktopNext, WindowNext

\* A template that was loaded is what the page is set to, until the user changes
\* something; unless the values to choose from were on their way when it was loaded.
THEOREM TemplatesAreShown == DesktopSpec => []LoadedIsSaved
<1>1. DesktopInit => Pool /\ LoadedInv
  BY PoolHolds, LoadedHolds
<1>2. Pool /\ LoadedInv /\ [DesktopNext]_desktop => (Pool /\ LoadedInv)'
  BY PoolStays, LoadedStays
<1>3. LoadedInv => LoadedIsSaved
  BY DEF LoadedInv, LoadedIsSaved, Quiet, AsLoaded
<1> QED  BY <1>1, <1>2, <1>3, PTL DEF DesktopSpec

--------------------------------------------------------------------------------
\* The Updates page

\* A page has the fields it is made of.
LEMMA PageFields ==
  ASSUME NEW c, NEW i, NEW o, NEW e, NEW a, NEW w
  PROVE  LET p == Page(c, i, o, e, a, w)
         IN  /\ IsPage(p) /\ p.checking = c /\ p.installing = i /\ p.offer = o /\ p.enabled = e
             /\ p.action = a /\ p.wired = w
BY DEF Page, IsPage

\* What one assignment to a page leaves.
LEMMA SetChecking ==
  ASSUME NEW p, IsPage(p), NEW v, NEW q, q = [p EXCEPT !.checking = v]
  PROVE  q = Page(v, p.installing, p.offer, p.enabled, p.action, p.wired)
BY DEF Page, IsPage

\* The page with another value in the field.
LEMMA SetInstalling ==
  ASSUME NEW p, IsPage(p), NEW v, NEW q, q = [p EXCEPT !.installing = v]
  PROVE  q = Page(p.checking, v, p.offer, p.enabled, p.action, p.wired)
BY DEF Page, IsPage

\* The page with another offer.
LEMMA SetOffer ==
  ASSUME NEW p, IsPage(p), NEW v, NEW q, q = [p EXCEPT !.offer = v]
  PROVE  q = Page(p.checking, p.installing, v, p.enabled, p.action, p.wired)
BY DEF Page, IsPage

\* The page with its button enabled or not.
LEMMA SetEnabled ==
  ASSUME NEW p, IsPage(p), NEW v, NEW q, q = [p EXCEPT !.enabled = v]
  PROVE  q = Page(p.checking, p.installing, p.offer, v, p.action, p.wired)
BY DEF Page, IsPage

\* The page with another action.
LEMMA SetAction ==
  ASSUME NEW p, IsPage(p), NEW v, NEW q, q = [p EXCEPT !.action = v]
  PROVE  q = Page(p.checking, p.installing, p.offer, p.enabled, v, p.wired)
BY DEF Page, IsPage

\* The page with other slots wired.
LEMMA SetWired ==
  ASSUME NEW p, IsPage(p), NEW v, NEW q, q = [p EXCEPT !.wired = v]
  PROVE  q = Page(p.checking, p.installing, p.offer, p.enabled, p.action, v)
BY DEF Page, IsPage

\* What a page is after each of the things that change it.
LEMMA PageChecking ==
  ASSUME NEW p, IsPage(p)
  PROVE  LET q == Checking(p)
         IN  /\ IsPage(q) /\ q.checking = TRUE /\ q.installing = p.installing /\ q.offer = p.offer
             /\ q.wired = p.wired
<1> DEFINE yes == TRUE
           q == Checking(p)
<1>1. q = [p EXCEPT !.checking = yes]
  BY DEF Checking
<1>2. yes = TRUE
  OBVIOUS
<1> HIDE DEF yes, q
<1>3. q = Page(yes, p.installing, p.offer, p.enabled, p.action, p.wired)
  BY <1>1, SetChecking
<1>4. /\ IsPage(q) /\ q.checking = yes /\ q.installing = p.installing /\ q.offer = p.offer
      /\ q.wired = p.wired
  BY <1>3, PageFields
<1> QED  BY <1>2, <1>4 DEF q

\* What the beginning of an install changes on the page.
LEMMA PageInstalling ==
  ASSUME NEW p, IsPage(p)
  PROVE  LET q == Installing(p)
         IN  /\ IsPage(q) /\ q.checking = p.checking /\ q.installing = TRUE /\ q.offer = p.offer
             /\ q.wired = p.wired
<1> DEFINE yes == TRUE
           no  == FALSE
           d == [p EXCEPT !.installing = yes]
           q == Installing(p)
<1>1. q = [d EXCEPT !.enabled = no]
  BY DEF Installing
<1>2. d = [p EXCEPT !.installing = yes]
  OBVIOUS
<1>6. yes = TRUE
  OBVIOUS
<1> HIDE DEF yes, no, d, q
<1>3. d = Page(p.checking, yes, p.offer, p.enabled, p.action, p.wired)
  BY <1>2, SetInstalling
<1>4. /\ IsPage(d) /\ d.checking = p.checking /\ d.installing = yes /\ d.offer = p.offer
      /\ d.action = p.action /\ d.wired = p.wired
  BY <1>3, PageFields
<1>5. q = Page(d.checking, d.installing, d.offer, no, d.action, d.wired)
  BY <1>1, <1>4, SetEnabled
<1>7. /\ IsPage(q) /\ q.checking = d.checking /\ q.installing = d.installing /\ q.offer = d.offer
      /\ q.wired = d.wired
  BY <1>5, PageFields
<1> QED  BY <1>4, <1>6, <1>7 DEF q

\* What the slots of the banner change on the page.
LEMMA PageAfter ==
  ASSUME NEW p, IsPage(p), NEW slots
  PROVE  LET q == After(p, slots)
         IN  /\ IsPage(q) /\ q.offer = p.offer /\ q.wired = p.wired
             /\ q.installing = (p.installing \/ "install" \in slots)
             /\ q.checking = (p.checking \/ "retry" \in slots)
<1> DEFINE c == p.checking \/ "retry" \in slots
           i == p.installing \/ "install" \in slots
           d == [p EXCEPT !.installing = i]
           n == d.enabled /\ "install" \notin slots
           e == [d EXCEPT !.enabled = n]
           k == e.checking \/ "retry" \in slots
           q == After(p, slots)
<1>1. q = [e EXCEPT !.checking = k]
  BY DEF After
<1>2. d = [p EXCEPT !.installing = i] /\ e = [d EXCEPT !.enabled = n]
  OBVIOUS
<1>3. k = (e.checking \/ "retry" \in slots) /\ c = (p.checking \/ "retry" \in slots)
      /\ i = (p.installing \/ "install" \in slots)
  OBVIOUS
<1> HIDE DEF c, i, d, n, e, k, q
<1>4. d = Page(p.checking, i, p.offer, p.enabled, p.action, p.wired)
  BY <1>2, SetInstalling
<1>5. /\ IsPage(d) /\ d.checking = p.checking /\ d.installing = i /\ d.offer = p.offer
      /\ d.action = p.action /\ d.wired = p.wired
  BY <1>4, PageFields
<1>6. e = Page(d.checking, d.installing, d.offer, n, d.action, d.wired)
  BY <1>2, <1>5, SetEnabled
<1>7. /\ IsPage(e) /\ e.checking = p.checking /\ e.installing = i /\ e.offer = p.offer
      /\ e.wired = p.wired
  BY <1>5, <1>6, PageFields
<1>8. q = Page(k, e.installing, e.offer, e.enabled, e.action, e.wired)
  BY <1>1, <1>7, SetChecking
<1>9. IsPage(q) /\ q.checking = k /\ q.installing = e.installing /\ q.offer = e.offer /\ q.wired = e.wired
  BY <1>8, PageFields
<1>10. k = c
  BY <1>3, <1>7
<1> QED  BY <1>3, <1>7, <1>9, <1>10 DEF q

\* What the end of an install changes on the page.
LEMMA PageEnded ==
  ASSUME NEW p, IsPage(p)
  PROVE  LET q == Ended(p)
         IN  /\ IsPage(q) /\ q.checking = p.checking /\ q.installing = FALSE /\ q.offer = p.offer
             /\ q.wired = p.wired
<1> DEFINE no == FALSE
           d == [p EXCEPT !.installing = no]
           m == d.offer # None
           e == [d EXCEPT !.enabled = m]
           q == Ended(p)
<1>1. q = [e EXCEPT !.action = None]
  BY DEF Ended
<1>2. d = [p EXCEPT !.installing = no] /\ e = [d EXCEPT !.enabled = m]
  OBVIOUS
<1>8. no = FALSE
  OBVIOUS
<1> HIDE DEF no, d, m, e, q
<1>3. d = Page(p.checking, no, p.offer, p.enabled, p.action, p.wired)
  BY <1>2, SetInstalling
<1>4. /\ IsPage(d) /\ d.checking = p.checking /\ d.installing = no /\ d.offer = p.offer
      /\ d.action = p.action /\ d.wired = p.wired
  BY <1>3, PageFields
<1>5. e = Page(d.checking, d.installing, d.offer, m, d.action, d.wired)
  BY <1>2, <1>4, SetEnabled
<1>6. /\ IsPage(e) /\ e.checking = p.checking /\ e.installing = no /\ e.offer = p.offer
      /\ e.wired = p.wired
  BY <1>4, <1>5, PageFields
<1>7. q = Page(e.checking, e.installing, e.offer, e.enabled, None, e.wired)
  BY <1>1, <1>6, SetAction
<1>9. /\ IsPage(q) /\ q.checking = e.checking /\ q.installing = e.installing /\ q.offer = e.offer
      /\ q.wired = e.wired
  BY <1>7, PageFields
<1> QED  BY <1>6, <1>8, <1>9 DEF q

\* What connecting a slot changes on the page.
LEMMA PageWired ==
  ASSUME NEW p, IsPage(p), NEW slot
  PROVE  LET q == Wired(p, slot)
         IN  /\ IsPage(q) /\ q.checking = p.checking /\ q.installing = p.installing /\ q.offer = p.offer
             /\ q.wired = IF slot \in Range(p.wired) THEN p.wired ELSE Append(p.wired, slot)
<1> DEFINE w == IF slot \in Range(p.wired) THEN p.wired ELSE Append(p.wired, slot)
           q == Wired(p, slot)
<1>1. q = [p EXCEPT !.wired = w]
  BY DEF Wired
<1> HIDE DEF w, q
<1>2. q = Page(p.checking, p.installing, p.offer, p.enabled, p.action, w)
  BY <1>1, SetWired
<1>3. /\ IsPage(q) /\ q.checking = p.checking /\ q.installing = p.installing /\ q.offer = p.offer
      /\ q.wired = w
  BY <1>2, PageFields
<1> QED  BY <1>3 DEF w, q

\* The page with another action, after a check.
LEMMA PageAction ==
  ASSUME NEW p, IsPage(p), NEW v, NEW a
  PROVE  LET q == Acted(p, v, a)
         IN  /\ IsPage(q) /\ q.checking = v /\ q.installing = p.installing /\ q.offer = p.offer
             /\ q.wired = p.wired
<1> DEFINE d == [p EXCEPT !.checking = v]
           q == Acted(p, v, a)
<1>1. q = [d EXCEPT !.action = a]
  BY DEF Acted
<1>2. d = [p EXCEPT !.checking = v]
  OBVIOUS
<1> HIDE DEF d, q
<1>3. d = Page(v, p.installing, p.offer, p.enabled, p.action, p.wired)
  BY <1>2, SetChecking
<1>4. /\ IsPage(d) /\ d.checking = v /\ d.installing = p.installing /\ d.offer = p.offer
      /\ d.wired = p.wired
  BY <1>3, PageFields
<1>5. q = Page(d.checking, d.installing, d.offer, d.enabled, a, d.wired)
  BY <1>1, <1>4, SetAction
<1> QED  BY <1>4, <1>5, PageFields DEF q

\* The page with another offer, after a check.
LEMMA PageSettled ==
  ASSUME NEW r, IsPage(r), NEW c, NEW o, NEW n, NEW a
  PROVE  LET q == Settled(r, c, o, n, a)
         IN  /\ IsPage(q) /\ q.checking = c /\ q.installing = r.installing /\ q.wired = r.wired
<1> DEFINE d == [r EXCEPT !.checking = c]
           f == [d EXCEPT !.offer = o]
           g == [f EXCEPT !.enabled = n]
           q == Settled(r, c, o, n, a)
<1>1. d = [r EXCEPT !.checking = c] /\ f = [d EXCEPT !.offer = o] /\ g = [f EXCEPT !.enabled = n]
      /\ q = [g EXCEPT !.action = a]
  BY DEF Settled
<1> HIDE DEF d, f, g, q
<1>2. d = Page(c, r.installing, r.offer, r.enabled, r.action, r.wired)
  BY <1>1, SetChecking
<1>3. IsPage(d) /\ d.checking = c /\ d.installing = r.installing /\ d.wired = r.wired
  BY <1>2, PageFields
<1>4. f = Page(d.checking, d.installing, o, d.enabled, d.action, d.wired)
  BY <1>1, <1>3, SetOffer
<1>5. IsPage(f) /\ f.checking = c /\ f.installing = r.installing /\ f.wired = r.wired
  BY <1>3, <1>4, PageFields
<1>6. g = Page(f.checking, f.installing, f.offer, n, f.action, f.wired)
  BY <1>1, <1>5, SetEnabled
<1>7. IsPage(g) /\ g.checking = c /\ g.installing = r.installing /\ g.wired = r.wired
  BY <1>5, <1>6, PageFields
<1>8. q = Page(g.checking, g.installing, g.offer, g.enabled, a, g.wired)
  BY <1>1, <1>7, SetAction
<1>9. IsPage(q) /\ q.checking = g.checking /\ q.installing = g.installing /\ q.wired = g.wired
  BY <1>8, PageFields
<1> QED  BY <1>7, <1>9 DEF q

\* What the answer to a check changes on the page.
LEMMA PageAnswered ==
  ASSUME NEW p, IsPage(p), NEW m
  PROVE  LET q == Answer(p, m)
         IN  /\ IsPage(q) /\ q.checking = FALSE /\ q.installing = p.installing
             /\ q.wired \in {p.wired, Wired(p, "install").wired}
<1> DEFINE no == FALSE
           yes == TRUE
           b == "install"
           q == Answer(p, m)
<1>1. no = FALSE /\ b = "install"
  OBVIOUS
<1>2. CASE m.outcome = "newer"
  <2> DEFINE o == "newer"
             r == Wired(p, b)
  <2>1. IsPage(r) /\ r.installing = p.installing
    BY PageWired
  <2>2. q = Settled(r, no, o, yes, b)
    BY <1>2 DEF Answer, Settled
  <2> HIDE DEF no, yes, b, o, r, q
  <2>3. IsPage(q) /\ q.checking = no /\ q.installing = r.installing /\ q.wired = r.wired
    BY <2>1, <2>2, PageSettled
  <2> QED  BY <1>1, <2>1, <2>3 DEF q, r
<1>3. CASE m.outcome # "newer"
  <2> DEFINE o == "other"
             g == [[[p EXCEPT !.checking = no] EXCEPT !.offer = o] EXCEPT !.enabled = no]
             a == IF m.want.by = "timer" THEN g.action ELSE None
  <2>1. q = Settled(p, no, o, no, a)
    BY <1>3 DEF Answer, Settled
  <2> HIDE DEF no, yes, b, o, a, q
  <2>2. IsPage(q) /\ q.checking = no /\ q.installing = p.installing /\ q.wired = p.wired
    BY <2>1, PageSettled
  <2> QED  BY <1>1, <2>2 DEF q
<1> QED  BY <1>2, <1>3

--------------------------------------------------------------------------------
\* The slots of the banner's button, and the page after an answer

\* A slot that is connected again is there once.
LEMMA WiredOnce ==
  ASSUME NEW w, Wiring(w), NEW slot \in {"install", "retry"}
  PROVE  Wiring(IF slot \in Range(w) THEN w ELSE Append(w, slot))
<1>1. CASE slot \in Range(w)
  BY <1>1
<1>2. CASE slot \notin Range(w)
  <2> DEFINE v == Append(w, slot)
  <2>1. \A i \in DOMAIN w : w[i] # slot
    BY <1>2 DEF Range
  <2>2. /\ IsSeq(v) /\ DOMAIN v = 1 .. Len(w) + 1 /\ Len(w) \in Nat /\ DOMAIN w = 1 .. Len(w)
        /\ \A i \in DOMAIN w : v[i] = w[i]
        /\ v[Len(w) + 1] = slot
    BY AppendOwn, SeqDomain DEF Wiring
  <2> HIDE DEF v
  <2>3. \A i \in DOMAIN v : i \in DOMAIN w \/ i = Len(w) + 1
    BY <2>2
  <2>4. Wiring(v)
    BY <2>1, <2>2, <2>3 DEF Wiring
  <2> QED  BY <1>2, <2>4 DEF v
<1> QED  BY <1>1, <1>2

\* So the page stays what it is when one is connected.
LEMMA WiredIsOK ==
  ASSUME NEW p, PageOK(p), NEW slot \in {"install", "retry"}
  PROVE  PageOK(Wired(p, slot))
<1> DEFINE q == Wired(p, slot)
<1>1. IsPage(q) /\ q.wired = IF slot \in Range(p.wired) THEN p.wired ELSE Append(p.wired, slot)
  BY PageWired DEF PageOK
<1> HIDE DEF q
<1>2. Wiring(q.wired)
  BY <1>1, WiredOnce DEF PageOK
<1> QED  BY <1>1, <1>2 DEF PageOK, q

\* Nothing to begin.
LEMMA BeginsNothing ==
  ASSUME Pool, life' = life, tangled \in BOOLEAN, NEW page, NEW queue, Begin(page, <<>>, queue)
  PROVE  updates' = page /\ Extended(LookupKinds) /\ tangled' = tangled
<1>1. Extended(LookupKinds)
  BY AsksNone, PageBegins
<1>2. Range(<<>>) = {}
  BY NoneSeq DEF Range
<1>3. ~(\E r \in Range(<<>>) : r.ch = Install)
  BY <1>2
<1>4. tangled' = tangled /\ updates' = page
  BY <1>3, Zenon DEF Begin
<1> QED  BY <1>1, <1>4

\* What the page is once an answer was handled, and what it may begin at once.
LEMMA UpdateTells ==
  ASSUME Pool, PageOK(updates), tangled \in BOOLEAN, DeliverUpdate
  PROVE  \E page : Told(page, Head(inbox).want.ch) /\ Onwards(page)
<1>0. life' = life
  BY DEF DeliverUpdate, Beside
<1> DEFINE m == Head(inbox)
<1>a. OnChecked(m) \/ OnCheckFailed(m) \/ OnInstalled(m) \/ OnInstallFailed(m) \/ OnCancelled(m)
  BY DEF DeliverUpdate
<1> HIDE DEF m
<1>1. CASE OnChecked(m)
  <2> DEFINE page == Answer(updates, m)
  <2>1. /\ m.want.ch = Check
        /\ \/ Begin(Installing(page), <<InstallRequest(page)>>, Tail(inbox)) /\ CanInstall(page)
           \/ Begin(page, <<>>, Tail(inbox))
    BY <1>1 DEF OnChecked
  <2>2. /\ IsPage(page) /\ page.checking = FALSE /\ page.installing = updates.installing
        /\ page.wired \in {updates.wired, Wired(updates, "install").wired}
    BY PageAnswered DEF PageOK
  <2>3. PageOK(Wired(updates, "install"))
    BY WiredIsOK
  <2> HIDE DEF page
  <2>4. PageOK(page)
    BY <2>2, <2>3 DEF PageOK
  <2>5. Told(page, m.want.ch)
    BY <2>1, <2>2, <2>4 DEF Told
  <2>6. Onwards(page)
    BY <1>0, <2>1, BeginsNothing DEF Onwards
  <2> QED  BY <2>5, <2>6 DEF m
<1>2. CASE OnCheckFailed(m)
  <2> DEFINE yes == FALSE
             a == "retry"
             w == Wired(updates, a)
             p1 == Acted(w, yes, a)
             p2 == Acted(updates, yes, None)
             page == IF m.outcome = "offline" THEN p1 ELSE p2
  <2>0. yes = FALSE /\ a \in {"install", "retry"}
    OBVIOUS
  <2>1. /\ m.want.ch = Check
        /\ \/ Begin(page, <<>>, Tail(inbox))
           \/ Begin(Checking(page), <<CheckRequest("user")>>, Tail(inbox))
    BY <1>2 DEF OnCheckFailed, Acted
  <2>2. PageOK(w) /\ w.installing = updates.installing
    BY <2>0, WiredIsOK, PageWired DEF PageOK
  <2>a. PageOK(w) => IsPage(w)
    BY DEF PageOK
  <2> HIDE DEF yes, a, w
  <2>3. /\ IsPage(p1) /\ p1.checking = yes /\ p1.installing = w.installing /\ p1.wired = w.wired
    BY <2>2, <2>a, PageAction
  <2>4. /\ IsPage(p2) /\ p2.checking = yes /\ p2.installing = updates.installing
        /\ p2.wired = updates.wired
    BY PageAction DEF PageOK
  <2> HIDE DEF p1, p2
  <2>5. PageOK(p1) /\ PageOK(p2)
    BY <2>2, <2>3, <2>4 DEF PageOK
  <2>6. PageOK(page) /\ page.checking = FALSE /\ page.installing = updates.installing
    BY <2>0, <2>2, <2>3, <2>4, <2>5
  <2> HIDE DEF page
  <2>7. Told(page, m.want.ch)
    BY <2>1, <2>6 DEF Told
  <2>8. Onwards(page)
    BY <1>0, <2>1, <2>6, BeginsNothing DEF Onwards
  <2> QED  BY <2>7, <2>8 DEF m
<1> DEFINE e == Ended(updates)
<1>b. /\ PageOK(e) /\ e.installing = FALSE /\ e.checking = updates.checking
  <2>1. /\ IsPage(e) /\ e.checking = updates.checking /\ e.installing = FALSE
        /\ e.wired = updates.wired
    BY PageEnded DEF PageOK
  <2> HIDE DEF e
  <2> QED  BY <2>1 DEF PageOK
<1>3. CASE OnInstalled(m)
  <2> DEFINE no == FALSE
             page == [e EXCEPT !.enabled = no]
  <2>1. /\ m.want.ch = Install /\ updates' = page /\ tangled' = tangled
        /\ Reload(db.open, ~busy["admin"])
    BY <1>3 DEF OnInstalled
  <2>2. page = [e EXCEPT !.enabled = no]
    OBVIOUS
  <2> HIDE DEF page, e, no
  <2>3. page = Page(e.checking, e.installing, e.offer, no, e.action, e.wired)
    BY <1>b, <2>2, SetEnabled DEF PageOK
  <2>4. IsPage(page) /\ page.checking = e.checking /\ page.installing = e.installing /\ page.wired = e.wired
    BY <2>3, PageFields
  <2>5. PageOK(page)
    BY <1>b, <2>4 DEF PageOK
  <2>6. Told(page, m.want.ch)
    BY <1>b, <2>1, <2>4, <2>5 DEF Told
  <2>7. Extended(LookupKinds)
    BY <1>0, <2>1, ReloadAsks DEF Pool
  <2>8. Onwards(page)
    BY <2>1, <2>7 DEF Onwards
  <2> QED  BY <2>6, <2>8 DEF m
<1>4. CASE OnInstallFailed(m) \/ OnCancelled(m)
  <2>1. /\ m.want.ch = Install
        /\ \/ Begin(e, <<>>, Tail(inbox))
           \/ Begin(Installing(e), <<InstallRequest(e)>>, Tail(inbox)) /\ CanInstall(e)
    BY <1>4 DEF OnInstallFailed, OnCancelled
  <2> HIDE DEF e
  <2>2. Told(e, m.want.ch)
    BY <1>b, <2>1 DEF Told
  <2>3. Onwards(e)
    BY <1>0, <2>1, BeginsNothing DEF Onwards
  <2> QED  BY <2>2, <2>3 DEF m
<1> QED  BY <1>a, <1>1, <1>2, <1>3, <1>4

\* The slots that do something, each once.
LEMMA RunsOne ==
  ASSUME NEW p, PageOK(p), NEW n \in {1, 2}
  PROVE  LET r == Runs(p, n)
         IN  \/ r = <<>>
             \/ /\ n \in DOMAIN p.wired /\ r = <<p.wired[n]>>
                /\ p.wired[n] = "install" => CanInstall(p)
                /\ p.wired[n] = "retry" => CanCheck(p)
BY DEF Runs

\* The slots that run are different, and each could have been run alone.
LEMMA SlotsOnce ==
  ASSUME NEW p, PageOK(p)
  PROVE  LET s == Effective(p)
         IN  /\ IsSeq(s)
             /\ \A k \in DOMAIN s : /\ s[k] \in {"install", "retry"}
                                    /\ s[k] = "install" => CanInstall(p)
                                    /\ s[k] = "retry" => CanCheck(p)
             /\ \A i, j \in DOMAIN s : s[i] = s[j] => i = j
<1> DEFINE a == Runs(p, 1)
           b == Runs(p, 2)
           s == Effective(p)
<1>1. s = a \o b
  BY DEF Effective
<1>2. /\ \/ a = <<>>
         \/ /\ 1 \in DOMAIN p.wired /\ a = <<p.wired[1]>>
            /\ p.wired[1] = "install" => CanInstall(p)
            /\ p.wired[1] = "retry" => CanCheck(p)
      /\ \/ b = <<>>
         \/ /\ 2 \in DOMAIN p.wired /\ b = <<p.wired[2]>>
            /\ p.wired[2] = "install" => CanInstall(p)
            /\ p.wired[2] = "retry" => CanCheck(p)
  BY RunsOne
<1> HIDE DEF a, b, s
<1>3. /\ IsSeq(a) /\ \/ DOMAIN a = {} /\ Len(a) = 0
                     \/ DOMAIN a = {1} /\ Len(a) = 1 /\ a[1] = p.wired[1]
      /\ IsSeq(b) /\ \/ DOMAIN b = {} /\ Len(b) = 0
                     \/ DOMAIN b = {1} /\ Len(b) = 1 /\ b[1] = p.wired[2]
  BY <1>2, NoneSeq, OneSeq
<1>4. /\ IsSeq(s) /\ DOMAIN s = 1 .. Len(a) + Len(b)
      /\ \A i \in DOMAIN a : s[i] = a[i]
      /\ \A i \in DOMAIN s \ DOMAIN a : i - Len(a) \in DOMAIN b /\ s[i] = b[i - Len(a)]
  BY <1>1, <1>3, ConcatOwn
<1>5. \A i, j \in DOMAIN p.wired : p.wired[i] = p.wired[j] => i = j
  BY DEF PageOK, Wiring
<1>6. \A i \in DOMAIN p.wired : p.wired[i] \in {"install", "retry"}
  BY DEF PageOK, Wiring
<1>7. \A k \in DOMAIN s :
        \/ k = 1 /\ 1 \in DOMAIN a /\ s[k] = p.wired[1] /\ a # <<>>
        \/ k = Len(a) + 1 /\ 1 \in DOMAIN b /\ s[k] = p.wired[2] /\ b # <<>>
  <2>1. ASSUME NEW k \in DOMAIN s, k \in DOMAIN a
        PROVE  k = 1 /\ 1 \in DOMAIN a /\ s[k] = p.wired[1] /\ a # <<>>
    BY <1>3, <1>4, <2>1, NoneSeq
  <2>2. ASSUME NEW k \in DOMAIN s, k \notin DOMAIN a
        PROVE  k = Len(a) + 1 /\ 1 \in DOMAIN b /\ s[k] = p.wired[2] /\ b # <<>>
    <3>1. k - Len(a) \in DOMAIN b /\ s[k] = b[k - Len(a)] /\ k \in 1 .. Len(a) + Len(b)
      BY <1>4, <2>2
    <3> QED  BY <1>3, <3>1, NoneSeq
  <2> QED  BY <2>1, <2>2
<1>8. \A k \in DOMAIN s : /\ s[k] \in {"install", "retry"}
                          /\ s[k] = "install" => CanInstall(p)
                          /\ s[k] = "retry" => CanCheck(p)
  BY <1>2, <1>6, <1>7
<1>9. \A i, j \in DOMAIN s : s[i] = s[j] => i = j
  <2>1. a # <<>> => 1 \in DOMAIN p.wired
    BY <1>2
  <2>2. b # <<>> => 2 \in DOMAIN p.wired
    BY <1>2
  <2> QED  BY <1>5, <1>7, <2>1, <2>2
<1> QED  BY <1>4, <1>8, <1>9 DEF s

\* The page at the start.
LEMMA PageHolds == DesktopInit => PageInv
<1> SUFFICES ASSUME DesktopInit PROVE PageInv
  OBVIOUS
<1>1. updates = NoUpdates /\ tangled = FALSE
  BY DEF DesktopInit, WindowInit, MInit
<1>2. IsPage(NoUpdates) /\ NoUpdates.wired = <<>>
  BY DEF NoUpdates, IsPage, Page
<1>3. Wiring(<<>>)
  BY NoneSeq DEF Wiring
<1> QED  BY <1>1, <1>2, <1>3 DEF PageInv, PageOK

\* The page stays what it is when it begins something.
LEMMA BeginningIsOK ==
  ASSUME NEW p, PageOK(p)
  PROVE  PageOK(Checking(p)) /\ PageOK(Installing(p))
BY PageChecking, PageInstalling DEF PageOK

\* The history variable is a Boolean.
LEMMA TangledStays ==
  ASSUME tangled \in BOOLEAN, [DesktopNext]_desktop
  PROVE  tangled' \in BOOLEAN
<1>1. ASSUME NEW want, NEW queue, BeginJob(want, queue) PROVE tangled' \in BOOLEAN
  BY <1>1 DEF BeginJob
<1>2. ASSUME NEW page, NEW requests, NEW queue, Begin(page, requests, queue)
      PROVE  tangled' \in BOOLEAN
  BY <1>2 DEF Begin
<1>3. CASE UNCHANGED tangled
  BY <1>3
<1>4. CASE \/ \E p \in Pages :
                \/ \E kind \in Checks \cup {"backup"} : StartJob(p, kind)
                \/ \E b \in Range(backups) : StartRestore(p, b)
           \/ \E kind \in JobKinds : PaletteCommand(kind)
           \/ StartRebuild \/ StartRollback
  BY <1>1, <1>4 DEF StartJob, StartRestore, PaletteCommand, StartRebuild, StartRollback
<1>5. CASE DeliverJob
  BY <1>1, <1>5 DEF DeliverJob, OnJobDone, OnReplaced, OnShrinkRefused, OnRestored, OnRestoreFailed, End
<1>6. CASE DeliverUpdate
  BY <1>2, <1>6 DEF DeliverUpdate, OnChecked, OnCheckFailed, OnInstalled, OnInstallFailed, OnCancelled
<1>7. CASE \/ \E by \in {"user", "timer"} : CheckForUpdates(by)
           \/ InstallUpdate \/ BannerAction \/ CancelInstall
  BY <1>2, <1>7 DEF CheckForUpdates, InstallUpdate, BannerAction, CancelInstall
<1>8. CASE \E k \in DOMAIN jobs : Work(k) \/ UpdateWork(k)
  <2>1. tangled' = tangled
    BY <1>8 DEF Work, UpdateWork, RunCheck, BeginBackup, CompleteBackup, FailBackup, PruneBackups,
              VerifyBackup, BuildCandidate, VerifyPrevious, CloseForSwap, BeginKeeping,
              FinishKeeping, BeginCopy, Replace, FailReplace, OpenAfterSwap, FinishCheck,
              FetchPackage, CloseForInstall, OpenInstalled, Behind, panel
  <2> QED  BY <2>1
<1>9. CASE \/ Lookups /\ UNCHANGED mvars
           \/ RefreshListStatus \/ GatherLearning
           \/ \E i \in DOMAIN backups : DeleteBackup(i)
           \/ ShowAdmin \/ Kill \/ Restart \/ ReportActs \/ DeliverValues \/ Build
           \/ UNCHANGED desktop
  BY <1>9 DEF mvars, panel, RefreshListStatus, GatherLearning, DeleteBackup, ShowAdmin, Kill, Restart,
              ReportActs, ShowReports, SetType, SetReportFilter, SaveTemplate, LoadTemplate,
              DeleteTemplate, DeliverValues, Build, Unbuilt, desktop, window, all
<1> QED  BY <1>4, <1>5, <1>6, <1>7, <1>8, <1>9 DEF DesktopNext, WindowNext, Next, ReportActs

\* Every step keeps the page what it is.
LEMMA PageStays ==
  ASSUME Pool, PageInv, [DesktopNext]_desktop
  PROVE  PageInv'
<1>1. CASE updates' = updates
  BY <1>1, TangledStays DEF PageInv
<1>2. CASE updates' = NoUpdates
  <2>1. IsPage(NoUpdates) /\ NoUpdates.wired = <<>>
    BY DEF NoUpdates, IsPage, Page
  <2>2. Wiring(<<>>)
    BY NoneSeq DEF Wiring
  <2> QED  BY <1>2, <2>1, <2>2, TangledStays DEF PageInv, PageOK
<1>3. CASE \/ \E by \in {"user", "timer"} : CheckForUpdates(by)
           \/ InstallUpdate \/ BannerAction
  <2>1. updates' \in {Checking(updates), Installing(updates)}
        \/ \E slots : updates' = After(updates, slots)
    BY <1>3 DEF CheckForUpdates, InstallUpdate, BannerAction, Begin
  <2>2. \A slots : PageOK(After(updates, slots))
    BY PageAfter DEF PageInv, PageOK
  <2> QED  BY <2>1, <2>2, BeginningIsOK, TangledStays DEF PageInv
<1>4. CASE DeliverUpdate
  <2>1. PICK page : PageOK(page) /\ updates' \in {page, Checking(page), Installing(page)}
    BY <1>4, UpdateTells DEF PageInv, Told, Onwards, Begin
  <2> QED  BY <2>1, BeginningIsOK, TangledStays DEF PageInv
<1>5. CASE CancelInstall \/ UNCHANGED desktop \/ \E k \in DOMAIN jobs : UNCHANGED <<rvars, updates>>
  BY <1>1, <1>5 DEF CancelInstall, desktop
<1> QED  BY <1>1, <1>2, <1>3, <1>4, <1>5 DEF DesktopNext

--------------------------------------------------------------------------------
\* One install and one check at a time

\* The first message is handled.
LEMMA OneHandled ==
  ASSUME QueueOK(inbox), inbox # <<>>, inbox' = Tail(inbox), NEW ch, Single(ch, jobs, inbox)
  PROVE  /\ Single(ch, jobs, inbox')
         /\ Head(inbox).want.ch # ch => Sent(ch, jobs, inbox') = Sent(ch, jobs, inbox)
         /\ Head(inbox).want.ch = ch => Sent(ch, jobs, inbox') = FALSE
<1>1. /\ 1 \in DOMAIN inbox /\ Head(inbox) = inbox[1]
      /\ \A i \in DOMAIN inbox' : i + 1 \in DOMAIN inbox \ {1} /\ inbox'[i] = inbox[i + 1]
      /\ \A j \in DOMAIN inbox \ {1} : j - 1 \in DOMAIN inbox' /\ inbox'[j - 1] = inbox[j]
  BY Handled
<1>2. \A i \in DOMAIN inbox' : i \in Nat
  BY Handled, SeqDomain DEF QueueOK
<1>3. Single(ch, jobs, inbox')
  <2>1. \A i, j \in DOMAIN inbox' : inbox'[i].want.ch = ch /\ inbox'[j].want.ch = ch => i = j
    <3>1. ASSUME NEW i \in DOMAIN inbox', NEW j \in DOMAIN inbox',
                 inbox'[i].want.ch = ch, inbox'[j].want.ch = ch
          PROVE  i = j
      <4>1. i + 1 = j + 1
        BY <1>1, <3>1 DEF Single
      <4> QED  BY <1>2, <4>1
    <3> QED  BY <3>1
  <2>2. \A i \in DOMAIN jobs, j \in DOMAIN inbox' : ~(jobs[i].want.ch = ch /\ inbox'[j].want.ch = ch)
    BY <1>1 DEF Single
  <2> QED  BY <2>1, <2>2 DEF Single
<1>4. ASSUME Head(inbox).want.ch # ch PROVE Sent(ch, jobs, inbox') = Sent(ch, jobs, inbox)
  <2>1. inbox[1].want.ch # ch
    BY <1>1, <1>4
  <2>2. ASSUME NEW j \in DOMAIN inbox, inbox[j].want.ch = ch
        PROVE  \E i \in DOMAIN inbox' : inbox'[i].want.ch = ch
    <3>1. j \in DOMAIN inbox \ {1}
      BY <2>1, <2>2
    <3> QED  BY <1>1, <2>2, <3>1
  <2>3. ASSUME NEW i \in DOMAIN inbox', inbox'[i].want.ch = ch
        PROVE  \E j \in DOMAIN inbox : inbox[j].want.ch = ch
    BY <1>1, <2>3
  <2> QED  BY <2>2, <2>3 DEF Sent
<1>5. ASSUME Head(inbox).want.ch = ch PROVE ~Sent(ch, jobs, inbox')
  BY <1>1, <1>5 DEF Sent, Single
<1> QED  BY <1>3, <1>4, <1>5 DEF Sent

\* The pool is extended, by none on the channel.
LEMMA NoneMore ==
  ASSUME NEW K, Extended(K), JobsOK(jobs), NEW ch, NEW ms, Single(ch, jobs, ms),
         \A i \in DOMAIN jobs' \ DOMAIN jobs : jobs'[i].want.ch # ch
  PROVE  Single(ch, jobs', ms) /\ Sent(ch, jobs', ms) = Sent(ch, jobs, ms)
<1>1. DOMAIN jobs \subseteq DOMAIN jobs'
  BY SeqDomain DEF Extended, JobsOK
<1>2. /\ \A i \in DOMAIN jobs : jobs'[i].want.ch = jobs[i].want.ch
      /\ \A i \in DOMAIN jobs' : jobs'[i].want.ch = ch => i \in DOMAIN jobs /\ jobs[i].want.ch = ch
  BY DEF Extended, Same
<1>3. Single(ch, jobs', ms)
  BY <1>1, <1>2 DEF Single
<1>4. Sent(ch, jobs', ms) = Sent(ch, jobs, ms)
  BY <1>1, <1>2 DEF Sent
<1> QED  BY <1>3, <1>4

\* The pool is extended, by one on the channel where there was none.
LEMMA OneMore ==
  ASSUME NEW K, Extended(K), JobsOK(jobs), NEW ch, NEW ms, Single(ch, jobs, ms), ~Sent(ch, jobs, ms),
         NEW n \in DOMAIN jobs' \ DOMAIN jobs,
         \A i \in DOMAIN jobs' \ DOMAIN jobs : jobs'[i].want.ch = ch <=> i = n
  PROVE  Single(ch, jobs', ms) /\ Sent(ch, jobs', ms)
<1>1. \A i \in DOMAIN jobs' : jobs'[i].want.ch = ch <=> i = n
  BY DEF Extended, Same, Sent
<1>2. \A j \in DOMAIN ms : ms[j].want.ch # ch
  BY DEF Sent
<1> QED  BY <1>1, <1>2 DEF Single, Sent

\* A job goes on.
LEMMA OneGoesOn ==
  ASSUME JobsOK(jobs), NEW k \in DOMAIN jobs, NEW place, NEW note, Goes(k, place, note),
         NEW ch, NEW ms, Single(ch, jobs, ms)
  PROVE  Single(ch, jobs', ms) /\ Sent(ch, jobs', ms) = Sent(ch, jobs, ms)
<1>1. DOMAIN jobs' = DOMAIN jobs /\ \A i \in DOMAIN jobs : jobs'[i].want = jobs[i].want
  BY Moved
<1>2. Single(ch, jobs', ms)
  BY <1>1 DEF Single
<1>3. Sent(ch, jobs', ms) = Sent(ch, jobs, ms)
  BY <1>1 DEF Sent
<1> QED  BY <1>2, <1>3

\* A job leaves the pool: its answer takes its place, or it was another's.
LEMMA OneLeaves ==
  ASSUME JobsOK(jobs), QueueOK(inbox), NEW k \in DOMAIN jobs, jobs' = RemoveAt(jobs, k),
         NEW ch, Single(ch, jobs, inbox),
         \/ \E m : inbox' = Append(inbox, m) /\ m.want = jobs[k].want
         \/ inbox' = inbox /\ jobs[k].want.ch # ch
  PROVE  Single(ch, jobs', inbox') /\ Sent(ch, jobs', inbox') = Sent(ch, jobs, inbox)
<1> DEFINE r(i) == IF i < k THEN i ELSE i + 1
<1>0. IsSeq(jobs) /\ IsSeq(inbox)
  BY DEF JobsOK, QueueOK
<1>1. /\ DOMAIN jobs' = 1 .. Len(jobs) - 1
      /\ \A i \in DOMAIN jobs' : jobs'[i] = jobs[r(i)]
      /\ DOMAIN jobs = 1 .. Len(jobs) /\ Len(jobs) \in Nat
  BY <1>0, RemoveOwn, SeqDomain
<1>2. /\ \A i \in DOMAIN jobs' : r(i) \in DOMAIN jobs \ {k}
      /\ \A i, j \in DOMAIN jobs' : r(i) = r(j) => i = j
      /\ \A j \in DOMAIN jobs \ {k} : \E i \in DOMAIN jobs' : r(i) = j
  <2>1. \A i \in DOMAIN jobs' : r(i) \in DOMAIN jobs \ {k}
    BY <1>1
  <2>2. \A i, j \in DOMAIN jobs' : r(i) = r(j) => i = j
    BY <1>1
  <2>3. ASSUME NEW j \in DOMAIN jobs \ {k} PROVE \E i \in DOMAIN jobs' : r(i) = j
    <3>1. CASE j < k
      BY <1>1, <3>1
    <3>2. CASE ~(j < k)
      <4>1. j - 1 \in DOMAIN jobs' /\ r(j - 1) = j
        BY <1>1, <3>2
      <4> QED  BY <4>1
    <3> QED  BY <3>1, <3>2
  <2> QED  BY <2>1, <2>2, <2>3
<1> HIDE DEF r
<1>3. \A i, j \in DOMAIN jobs' : jobs'[i].want.ch = ch /\ jobs'[j].want.ch = ch => i = j
  BY <1>1, <1>2 DEF Single
<1>4. CASE inbox' = inbox /\ jobs[k].want.ch # ch
  <2>1. Single(ch, jobs', inbox')
    BY <1>1, <1>2, <1>3, <1>4 DEF Single
  <2>2. Sent(ch, jobs', inbox') = Sent(ch, jobs, inbox)
    <3>1. (\E i \in DOMAIN jobs' : jobs'[i].want.ch = ch) <=> (\E i \in DOMAIN jobs : jobs[i].want.ch = ch)
      BY <1>1, <1>2, <1>4
    <3> QED  BY <1>4, <3>1 DEF Sent
  <2> QED  BY <2>1, <2>2
<1>5. ASSUME NEW m, inbox' = Append(inbox, m), m.want = jobs[k].want
      PROVE  Single(ch, jobs', inbox') /\ Sent(ch, jobs', inbox') = Sent(ch, jobs, inbox)
  <2> DEFINE n == Len(inbox) + 1
  <2>1. /\ \A i \in DOMAIN inbox : i \in DOMAIN inbox' /\ inbox'[i] = inbox[i] /\ i # n
        /\ \A i \in DOMAIN inbox' \ {n} : i \in DOMAIN inbox
        /\ n \in DOMAIN inbox' /\ inbox'[n].want = jobs[k].want
    BY <1>0, <1>5, AppendOwn, SeqDomain
  <2> HIDE DEF n
  <2>2. \A i, j \in DOMAIN inbox' : inbox'[i].want.ch = ch /\ inbox'[j].want.ch = ch => i = j
    BY <2>1 DEF Single
  <2>3. ASSUME NEW i \in DOMAIN jobs', NEW j \in DOMAIN inbox', jobs'[i].want.ch = ch, inbox'[j].want.ch = ch
        PROVE  FALSE
    <3>1. jobs[r(i)].want.ch = ch /\ r(i) \in DOMAIN jobs \ {k}
      BY <1>1, <1>2, <2>3
    <3>2. CASE j = n
      BY <2>1, <2>3, <3>1, <3>2 DEF Single
    <3>3. CASE j # n
      BY <2>1, <2>3, <3>1, <3>3 DEF Single
    <3> QED  BY <3>2, <3>3
  <2>4. Single(ch, jobs', inbox')
    BY <1>3, <2>2, <2>3 DEF Single
  <2>5. Sent(ch, jobs', inbox') => Sent(ch, jobs, inbox)
    <3>1. ASSUME NEW i \in DOMAIN jobs', jobs'[i].want.ch = ch PROVE Sent(ch, jobs, inbox)
      BY <1>1, <1>2, <3>1 DEF Sent
    <3>2. ASSUME NEW i \in DOMAIN inbox', inbox'[i].want.ch = ch PROVE Sent(ch, jobs, inbox)
      BY <2>1, <3>2 DEF Sent
    <3> QED  BY <3>1, <3>2 DEF Sent
  <2>6. Sent(ch, jobs, inbox) => Sent(ch, jobs', inbox')
    <3>1. ASSUME NEW j \in DOMAIN jobs, jobs[j].want.ch = ch PROVE Sent(ch, jobs', inbox')
      <4>1. CASE j = k
        BY <2>1, <3>1, <4>1 DEF Sent
      <4>2. CASE j # k
        <5>1. PICK i \in DOMAIN jobs' : r(i) = j
          BY <1>2, <4>2
        <5>2. jobs'[i].want.ch = ch
          BY <1>1, <3>1, <5>1
        <5> QED  BY <5>2 DEF Sent
      <4> QED  BY <4>1, <4>2
    <3>2. ASSUME NEW i \in DOMAIN inbox, inbox[i].want.ch = ch PROVE Sent(ch, jobs', inbox')
      BY <2>1, <3>2 DEF Sent
    <3> QED  BY <3>1, <3>2 DEF Sent
  <2>7. Sent(ch, jobs', inbox') \in BOOLEAN /\ Sent(ch, jobs, inbox) \in BOOLEAN
    BY DEF Sent
  <2> QED  BY <2>4, <2>5, <2>6, <2>7
<1> QED  BY <1>4, <1>5

\* A check, an install and the other channels differ.
LEMMA Channels ==
  /\ Check # Install /\ Check[2] = "check" /\ Install[2] = "install"
  /\ Check # BinSearch /\ Install # BinSearch /\ Check # Values /\ Install # Values
<1>1. Check[2] = "check" /\ Install[2] = "install" /\ BinSearch[2] = "lookup" /\ Values[2] = "values"
  BY DEF Check, Install, BinSearch, Values
<1> QED  BY <1>1

\* Such a step changes neither whether there is one nor that it is the only one.
LEMMA AsideKeeps ==
  ASSUME Pool, life = "running", NEW ch \in {Check, Install}, Single(ch, jobs, inbox), Aside(ch)
  PROVE  Single(ch, jobs', inbox') /\ Sent(ch, jobs', inbox') = Sent(ch, jobs, inbox)
<1>0. JobsOK(jobs) /\ QueueOK(inbox) /\ CancelOK
  BY DEF Pool
<1>1. ASSUME NEW K, Extended(K), ch[2] \notin K,
             \/ inbox' = inbox
             \/ inbox # <<>> /\ inbox' = Tail(inbox) /\ Head(inbox).want.ch # ch
      PROVE  Single(ch, jobs', inbox') /\ Sent(ch, jobs', inbox') = Sent(ch, jobs, inbox)
  <2>1. Single(ch, jobs, inbox') /\ Sent(ch, jobs, inbox') = Sent(ch, jobs, inbox)
    <3>1. CASE inbox' = inbox
      BY <3>1 DEF Single, Sent
    <3>2. CASE inbox # <<>> /\ inbox' = Tail(inbox) /\ Head(inbox).want.ch # ch
      BY <1>0, <3>2, OneHandled
    <3> QED  BY <1>1, <3>1, <3>2
  <2>2. \A i \in DOMAIN jobs' \ DOMAIN jobs : jobs'[i].want.ch # ch
    BY <1>1 DEF Extended
  <2>3. Single(ch, jobs', inbox') /\ Sent(ch, jobs', inbox') = Sent(ch, jobs, inbox')
    BY <1>0, <1>1, <2>1, <2>2, NoneMore
  <2> QED  BY <2>1, <2>3
<1>2. ASSUME NEW k \in DOMAIN jobs, GoesOn(k)
      PROVE  Single(ch, jobs', inbox') /\ Sent(ch, jobs', inbox') = Sent(ch, jobs, inbox)
  <2>1. PICK place, note : Goes(k, place, note) /\ inbox' = inbox
    BY <1>2 DEF GoesOn
  <2>2. Single(ch, jobs', inbox) /\ Sent(ch, jobs', inbox) = Sent(ch, jobs, inbox)
    BY <1>0, <2>1, OneGoesOn
  <2> QED  BY <2>1, <2>2
<1>3. ASSUME NEW k \in DOMAIN jobs, EndsWith(k)
      PROVE  Single(ch, jobs', inbox') /\ Sent(ch, jobs', inbox') = Sent(ch, jobs, inbox)
  <2>1. PICK outcome : /\ jobs' = RemoveAt(jobs, k)
                       /\ inbox' = Append(inbox, Answered(jobs[k].want, outcome, jobs[k].saw))
    BY <1>3 DEF EndsWith, Ends
  <2>2. Answered(jobs[k].want, outcome, jobs[k].saw).want = jobs[k].want
    BY DEF Answered
  <2> QED  BY <1>0, <2>1, <2>2, OneLeaves
<1>4. ASSUME NEW k \in DOMAIN jobs, Dropped(k)
      PROVE  Single(ch, jobs', inbox') /\ Sent(ch, jobs', inbox') = Sent(ch, jobs, inbox)
  <2>0. jobs' = RemoveAt(jobs, k)
    BY <1>4 DEF Dropped
  <2>1. CASE inbox' = inbox /\ jobs[k].cancelled /\ ~Hears(jobs[k].want)
    <3>1. jobs[k].want.ch \in {BinSearch, Install}
      BY <1>0, <2>1 DEF CancelOK
    <3>2. jobs[k].want.ch[2] # "install"
      BY <2>1 DEF Hears
    <3>3. jobs[k].want.ch # ch
      BY <3>1, <3>2, Channels
    <3> QED  BY <1>0, <2>0, <2>1, <3>3, OneLeaves
  <2>2. ASSUME NEW outcome, NEW saw, inbox' = Append(inbox, Answered(jobs[k].want, outcome, saw))
        PROVE  Single(ch, jobs', inbox') /\ Sent(ch, jobs', inbox') = Sent(ch, jobs, inbox)
    <3>1. Answered(jobs[k].want, outcome, saw).want = jobs[k].want
      BY DEF Answered
    <3> QED  BY <1>0, <2>0, <2>2, <3>1, OneLeaves
  <2> QED  BY <1>4, <2>1, <2>2 DEF Dropped
<1> QED  BY <1>1, <1>2, <1>3, <1>4 DEF Aside

\* Nothing but the Updates page asks for a check or an install.
LEMMA OthersAside ==
  ASSUME Pool, life = "running", life' = "running", NEW ch \in {Check, Install},
         \/ WindowNext
         \/ \E k \in DOMAIN jobs : UpdateWork(k)
         \/ CancelInstall
         \/ UNCHANGED desktop
  PROVE  Aside(ch)
<1>0. ch[2] \in {"check", "install"}
  BY Channels
<1>1. ch[2] \notin LookupKinds \cup MaintenanceKinds \cup {"values"}
  BY <1>0 DEF LookupKinds, MaintenanceKinds, Checks
<1>a. ASSUME NEW K, Extended(K), ch[2] \notin K, inbox' = inbox PROVE Aside(ch)
  BY <1>a DEF Aside
<1>b. ASSUME NEW K, Extended(K), ch[2] \notin K, inbox # <<>>, inbox' = Tail(inbox),
             Head(inbox).want.ch # ch
      PROVE  Aside(ch)
  BY <1>b DEF Aside
<1>c. ASSUME jobs' = jobs, inbox' = inbox PROVE Aside(ch)
  <2>1. Extended({})
    BY <1>c, LeftAlone DEF Pool
  <2> QED  BY <1>a, <1>c, <2>1
<1>2. CASE Lookups /\ UNCHANGED mvars
  <2>1. CASE Extended(LookupKinds) /\ inbox' = inbox
    BY <1>1, <1>a, <2>1
  <2>2. CASE /\ Extended(LookupKinds) /\ inbox # <<>> /\ inbox' = Tail(inbox)
             /\ Head(inbox).want.ch[2] \in LookupKinds
    BY <1>1, <1>b, <2>2
  <2>3. CASE \E k \in DOMAIN jobs : Dropped(k)
    BY <2>3 DEF Aside
  <2>4. CASE Emptied
    BY <2>4 DEF Emptied
  <2> QED  BY <1>2, <2>1, <2>2, <2>3, <2>4, Looking
<1>3. CASE \/ \E p \in Pages :
                \/ \E kind \in Checks \cup {"backup"} : StartJob(p, kind)
                \/ \E b \in Range(backups) : StartRestore(p, b)
           \/ \E kind \in JobKinds : PaletteCommand(kind)
           \/ StartRebuild \/ StartRollback \/ RefreshListStatus \/ GatherLearning
           \/ \E i \in DOMAIN backups : DeleteBackup(i)
           \/ ShowAdmin
  <2> DEFINE K == LookupKinds \cup MaintenanceKinds
  <2>1. Extended(K) /\ inbox' = inbox
    BY <1>3, UserMaintains
  <2>2. ch[2] \notin K
    BY <1>1
  <2> HIDE DEF K
  <2> QED  BY <1>a, <2>1, <2>2
<1>4. ASSUME NEW k \in DOMAIN jobs, Work(k) \/ UpdateWork(k)
      PROVE  Aside(ch)
  BY <1>4, Working DEF Aside
<1>5. CASE DeliverJob
  <2>1. inbox # <<>> /\ inbox' = Tail(inbox) /\ life' = life /\ Head(inbox).want.ch[2] \in MaintenanceKinds
    BY <1>5, JobAnswered
  <2>2. Head(inbox).want.ch # ch
    BY <1>1, <2>1
  <2>3. \E K : Extended(K) /\ ch[2] \notin K
    <3>1. CASE \E K \in {{}, LookupKinds} : Extended(K)
      BY <1>1, <3>1
    <3>2. CASE BeginJob(Request(Job("database", "rebuild"), "allow_shrink", None), Tail(inbox))
      <4> DEFINE want == Request(Job("database", "rebuild"), "allow_shrink", None)
      <4>1. want.ch[2] = "rebuild"
        BY DEF Request, Job
      <4> HIDE DEF want
      <4>2. Extended({"rebuild"})
        BY <2>1, <3>2, <4>1, JobBegun DEF want
      <4> QED  BY <1>0, <4>2
    <3> QED  BY <1>5, <3>1, <3>2, JobAnswered
  <2> QED  BY <1>b, <2>1, <2>2, <2>3
<1>6. CASE Kill \/ Build
  BY <1>6 DEF Kill, Build
<1>7. CASE Restart
  BY <1>7 DEF Restart
<1>8. CASE ReportActs
  <2>1. Extended({"values"}) /\ inbox' = inbox
    BY <1>8, UserReports
  <2>2. ch[2] \notin {"values"}
    BY <1>1
  <2> QED  BY <1>a, <2>1, <2>2
<1>9. CASE DeliverValues
  <2>1. jobs' = jobs /\ inbox # <<>> /\ inbox' = Tail(inbox) /\ Head(inbox).want.ch = Values
    BY <1>9 DEF DeliverValues
  <2>2. Extended({})
    BY <2>1, LeftAlone DEF Pool
  <2>3. Values # ch
    BY Channels
  <2> QED  BY <1>b, <2>1, <2>2, <2>3
<1>10. CASE CancelInstall
  <2>1. Extended({}) /\ inbox' = inbox
    BY <1>10, InstallCancelled
  <2> QED  BY <1>a, <2>1
<1>11. CASE UNCHANGED desktop
  BY <1>11, <1>c DEF desktop, window, all, vars
<1> QED  BY <1>2, <1>3, <1>4, <1>5, <1>6, <1>7, <1>8, <1>9, <1>10, <1>11
         DEF WindowNext, Next, ReportActs

\* What the page asks for is on its way.
LEMMA Requested ==
  ASSUME Pool, life' = life, NEW requests, Asks(requests, UpdateKinds), Submit(requests),
         NEW ch, NEW ms, Single(ch, jobs, ms)
  PROVE  /\ (\A k \in DOMAIN requests : requests[k].ch # ch) =>
              Single(ch, jobs', ms) /\ Sent(ch, jobs', ms) = Sent(ch, jobs, ms)
         /\ ~Sent(ch, jobs, ms)
              /\ (\E n \in DOMAIN requests : \A k \in DOMAIN requests : requests[k].ch = ch <=> k = n) =>
              Single(ch, jobs', ms) /\ Sent(ch, jobs', ms)
<1>1. /\ Extended(UpdateKinds)
      /\ Len(jobs') = Len(jobs) + Len(requests)
      /\ \A i \in DOMAIN jobs' \ DOMAIN jobs :
              /\ i - Len(jobs) \in DOMAIN requests
              /\ jobs'[i] = Worker(requests[i - Len(jobs)], FALSE)
  BY Submitted DEF Pool
<1>2. \A i \in DOMAIN jobs' \ DOMAIN jobs : jobs'[i].want = requests[i - Len(jobs)]
  BY <1>1 DEF Worker
<1>0. JobsOK(jobs)
  BY DEF Pool
<1>3. ASSUME \A k \in DOMAIN requests : requests[k].ch # ch
      PROVE  Single(ch, jobs', ms) /\ Sent(ch, jobs', ms) = Sent(ch, jobs, ms)
  <2>1. \A i \in DOMAIN jobs' \ DOMAIN jobs : jobs'[i].want.ch # ch
    BY <1>1, <1>2, <1>3
  <2> QED  BY <1>0, <1>1, <2>1, NoneMore
<1>4. ASSUME ~Sent(ch, jobs, ms), NEW n \in DOMAIN requests,
             \A k \in DOMAIN requests : requests[k].ch = ch <=> k = n
      PROVE  Single(ch, jobs', ms) /\ Sent(ch, jobs', ms)
  <2>1. /\ DOMAIN jobs = 1 .. Len(jobs) /\ DOMAIN jobs' = 1 .. Len(jobs) + Len(requests)
        /\ Len(jobs) \in Nat /\ DOMAIN requests = 1 .. Len(requests) /\ Len(requests) \in Nat
    BY <1>0, <1>1, SeqDomain DEF Extended, JobsOK, Asks
  <2> DEFINE l == Len(jobs) + n
  <2>2. l \in DOMAIN jobs' \ DOMAIN jobs
    BY <2>1
  <2>3. ASSUME NEW i \in DOMAIN jobs' \ DOMAIN jobs PROVE jobs'[i].want.ch = ch <=> i = l
    <3>1. i - Len(jobs) \in DOMAIN requests /\ jobs'[i].want = requests[i - Len(jobs)]
      BY <1>1, <1>2
    <3>2. i - Len(jobs) = n <=> i = l
      BY <2>1
    <3> HIDE DEF l
    <3> QED  BY <1>4, <3>1, <3>2
  <2> HIDE DEF l
  <2> QED  BY <1>0, <1>1, <1>4, <2>2, <2>3, OneMore
<1> QED  BY <1>3, <1>4

\* The page begins what it knows there is none of.
LEMMA OneBegun ==
  ASSUME Pool, life' = life, NEW page, PageOK(page), BothOne(page, jobs, inbox'), NEW queue,
         \/ Begin(Installing(page), <<InstallRequest(page)>>, queue) /\ CanInstall(page)
         \/ \E by : Begin(Checking(page), <<CheckRequest(by)>>, queue) /\ CanCheck(page)
  PROVE  BothOne(updates', jobs', inbox')
<1>1. ASSUME Begin(Installing(page), <<InstallRequest(page)>>, queue), CanInstall(page)
      PROVE  BothOne(updates', jobs', inbox')
  <2> DEFINE q == Installing(page)
             r == <<InstallRequest(page)>>
  <2>1. /\ DOMAIN r = {1} /\ r[1].ch = Install
    BY OneSeq DEF InstallRequest, Request
  <2>2. Asks(r, UpdateKinds)
    BY InstallAsks
  <2>3. updates' = q /\ Submit(r)
    BY <1>1 DEF Begin
  <2>4. q.installing = TRUE /\ q.checking = page.checking
    BY PageInstalling DEF PageOK
  <2> HIDE DEF q, r
  <2>5. ~Sent(Install, jobs, inbox')
    <3>1. page.installing = Sent(Install, jobs, inbox')
      BY DEF BothOne, OneIn
    <3>2. ~page.installing
      BY <1>1, Zenon DEF CanInstall
    <3> QED  BY <3>1, <3>2, Zenon
  <2>6. Single(Install, jobs, inbox') /\ Single(Check, jobs, inbox')
    BY DEF BothOne, OneIn
  <2>7. Single(Install, jobs', inbox') /\ Sent(Install, jobs', inbox')
    BY <2>1, <2>2, <2>3, <2>5, <2>6, Requested
  <2>8. Single(Check, jobs', inbox') /\ Sent(Check, jobs', inbox') = Sent(Check, jobs, inbox')
    BY <2>1, <2>2, <2>3, <2>6, Requested, Channels
  <2>9. Sent(Install, jobs', inbox') = TRUE
    BY <2>7 DEF Sent
  <2> QED  BY <2>3, <2>4, <2>7, <2>8, <2>9 DEF BothOne, OneIn
<1>2. ASSUME NEW by, Begin(Checking(page), <<CheckRequest(by)>>, queue), CanCheck(page)
      PROVE  BothOne(updates', jobs', inbox')
  <2> DEFINE q == Checking(page)
             r == <<CheckRequest(by)>>
  <2>1. /\ DOMAIN r = {1} /\ r[1].ch = Check
    BY OneSeq DEF CheckRequest, Request
  <2>2. Asks(r, UpdateKinds)
    BY CheckAsks
  <2>3. updates' = q /\ Submit(r)
    BY <1>2 DEF Begin
  <2>4. q.checking = TRUE /\ q.installing = page.installing
    BY PageChecking DEF PageOK
  <2> HIDE DEF q, r
  <2>5. ~Sent(Check, jobs, inbox')
    <3>1. page.checking = Sent(Check, jobs, inbox')
      BY DEF BothOne, OneIn
    <3>2. ~page.checking
      BY <1>2, Zenon DEF CanCheck
    <3> QED  BY <3>1, <3>2, Zenon
  <2>6. Single(Install, jobs, inbox') /\ Single(Check, jobs, inbox')
    BY DEF BothOne, OneIn
  <2>7. Single(Check, jobs', inbox') /\ Sent(Check, jobs', inbox')
    BY <2>1, <2>2, <2>3, <2>5, <2>6, Requested
  <2>8. Single(Install, jobs', inbox') /\ Sent(Install, jobs', inbox') = Sent(Install, jobs, inbox')
    BY <2>1, <2>2, <2>3, <2>6, Requested, Channels
  <2>9. Sent(Check, jobs', inbox') = TRUE
    BY <2>7 DEF Sent
  <2> QED  BY <2>3, <2>4, <2>7, <2>8, <2>9 DEF BothOne, OneIn
<1> QED  BY <1>1, <1>2

\* One slot asks for what one button would.
LEMMA OneOfSlots ==
  ASSUME Pool, life' = life, PageOK(updates), BothOne(updates, jobs, inbox), NEW queue,
         NEW slots, slots = Effective(updates),
         Begin(After(updates, Range(slots)), SlotRequests(slots), queue)
  PROVE  BothOne(updates', jobs', inbox)
<1> DEFINE r == SlotRequests(slots)
           q == After(updates, Range(slots))
<1>1. /\ IsSeq(slots)
      /\ \A k \in DOMAIN slots : /\ slots[k] \in {"install", "retry"}
                                 /\ slots[k] = "install" => CanInstall(updates)
                                 /\ slots[k] = "retry" => CanCheck(updates)
      /\ \A i, j \in DOMAIN slots : slots[i] = slots[j] => i = j
  BY SlotsOnce
<1>2. Asks(r, UpdateKinds) /\ DOMAIN r = DOMAIN slots
  BY <1>1, SlotsAsk
<1>3. \A k \in DOMAIN slots : r[k].ch = IF slots[k] = "install" THEN Install ELSE Check
  BY <1>2 DEF SlotRequests, InstallRequest, CheckRequest, Request
<1>4. updates' = q /\ Submit(r)
  BY DEF Begin
<1>5. /\ q.installing = (updates.installing \/ "install" \in Range(slots))
      /\ q.checking = (updates.checking \/ "retry" \in Range(slots))
  BY PageAfter DEF PageOK
<1>6. /\ "install" \in Range(slots) <=> \E k \in DOMAIN slots : slots[k] = "install"
      /\ "retry" \in Range(slots) <=> \E k \in DOMAIN slots : slots[k] = "retry"
  BY DEF Range
<1> HIDE DEF r, q
<1>7. /\ Single(Install, jobs, inbox) /\ Single(Check, jobs, inbox)
      /\ updates.installing = Sent(Install, jobs, inbox) /\ updates.checking = Sent(Check, jobs, inbox)
  BY DEF BothOne, OneIn
<1>8. Single(Install, jobs', inbox) /\ q.installing = Sent(Install, jobs', inbox)
  <2>1. ASSUME NEW n \in DOMAIN slots, slots[n] = "install"
        PROVE  Single(Install, jobs', inbox) /\ q.installing = Sent(Install, jobs', inbox)
    <3>1. ~updates.installing
      BY <1>1, <2>1, Zenon DEF CanInstall
    <3>2. ~Sent(Install, jobs, inbox)
      BY <1>7, <3>1, Zenon
    <3>3. \A k \in DOMAIN r : r[k].ch = Install <=> k = n
      BY <1>1, <1>2, <1>3, <2>1, Channels
    <3>4. Single(Install, jobs', inbox) /\ Sent(Install, jobs', inbox)
      BY <1>2, <1>4, <1>7, <2>1, <3>2, <3>3, Requested
    <3>5. "install" \in Range(slots)
      BY <1>6, <2>1
    <3>6. q.installing = TRUE
      BY <1>5, <3>5
    <3>7. Sent(Install, jobs', inbox) = TRUE
      BY <3>4 DEF Sent
    <3> QED  BY <3>4, <3>6, <3>7
  <2>2. ASSUME \A k \in DOMAIN slots : slots[k] # "install"
        PROVE  Single(Install, jobs', inbox) /\ q.installing = Sent(Install, jobs', inbox)
    <3>1. \A k \in DOMAIN r : r[k].ch # Install
      BY <1>2, <1>3, <2>2, Channels
    <3>2. Single(Install, jobs', inbox) /\ Sent(Install, jobs', inbox) = Sent(Install, jobs, inbox)
      BY <1>2, <1>4, <1>7, <3>1, Requested
    <3>3. "install" \notin Range(slots)
      BY <1>6, <2>2
    <3>4. updates.installing \in BOOLEAN
      BY <1>7 DEF Sent
    <3>5. q.installing = updates.installing
      BY <1>5, <3>3, <3>4
    <3> QED  BY <1>7, <3>2, <3>5
  <2> QED  BY <2>1, <2>2
<1>9. Single(Check, jobs', inbox) /\ q.checking = Sent(Check, jobs', inbox)
  <2>1. ASSUME NEW n \in DOMAIN slots, slots[n] = "retry"
        PROVE  Single(Check, jobs', inbox) /\ q.checking = Sent(Check, jobs', inbox)
    <3>1. ~updates.checking
      BY <1>1, <2>1, Zenon DEF CanCheck
    <3>2. ~Sent(Check, jobs, inbox)
      BY <1>7, <3>1, Zenon
    <3>3. \A k \in DOMAIN r : r[k].ch = Check <=> k = n
      BY <1>1, <1>2, <1>3, <2>1, Channels
    <3>4. Single(Check, jobs', inbox) /\ Sent(Check, jobs', inbox)
      BY <1>2, <1>4, <1>7, <2>1, <3>2, <3>3, Requested
    <3>5. "retry" \in Range(slots)
      BY <1>6, <2>1
    <3>6. q.checking = TRUE
      BY <1>5, <3>5
    <3>7. Sent(Check, jobs', inbox) = TRUE
      BY <3>4 DEF Sent
    <3> QED  BY <3>4, <3>6, <3>7
  <2>2. ASSUME \A k \in DOMAIN slots : slots[k] # "retry"
        PROVE  Single(Check, jobs', inbox) /\ q.checking = Sent(Check, jobs', inbox)
    <3>1. \A k \in DOMAIN r : r[k].ch # Check
      BY <1>1, <1>2, <1>3, <2>2, Channels
    <3>2. Single(Check, jobs', inbox) /\ Sent(Check, jobs', inbox) = Sent(Check, jobs, inbox)
      BY <1>2, <1>4, <1>7, <3>1, Requested
    <3>3. "retry" \notin Range(slots)
      BY <1>6, <2>2
    <3>4. updates.checking \in BOOLEAN
      BY <1>7 DEF Sent
    <3>5. q.checking = updates.checking
      BY <1>5, <3>3, <3>4
    <3> QED  BY <1>7, <3>2, <3>5
  <2> QED  BY <2>1, <2>2
<1> QED  BY <1>4, <1>8, <1>9 DEF BothOne, OneIn

\* With nothing on its way, the page at the start knows of all there is.
LEMMA NoneIsOne == ASSUME NEW js, NEW ms, js = <<>>, ms = <<>> PROVE BothOne(NoUpdates, js, ms)
BY NoneSeq DEF BothOne, OneIn, Single, Sent, NoUpdates

\* As it does when the program has just been started.
LEMMA OneHolds == DesktopInit => OneInv
BY NoneIsOne DEF DesktopInit, WindowInit, MInit, Init, OneInv

\* Nothing but a restart opens the window.
LEMMA RunsOn ==
  ASSUME Pool, [DesktopNext]_desktop, life' = "running", ~Restart
  PROVE  life = "running"
<1>1. CASE Lookups
  BY <1>1, Looking DEF Emptied
<1>2. CASE \/ \E p \in Pages :
                \/ \E kind \in Checks \cup {"backup"} : StartJob(p, kind)
                \/ \E b \in Range(backups) : StartRestore(p, b)
           \/ \E kind \in JobKinds : PaletteCommand(kind)
           \/ StartRebuild \/ StartRollback \/ RefreshListStatus \/ GatherLearning
           \/ \E i \in DOMAIN backups : DeleteBackup(i)
           \/ ShowAdmin
  BY <1>2, UserMaintains
<1>3. ASSUME NEW k \in DOMAIN jobs, Work(k) \/ UpdateWork(k) PROVE life = "running"
  <2>1. life' = life
    BY <1>3, Working
  <2> QED  BY <2>1
<1>4. CASE DeliverJob \/ Kill \/ Build \/ DeliverValues \/ DeliverUpdate
  BY <1>4, JobAnswered, UpdateAnswered DEF Kill, Build, DeliverValues
<1>5. CASE ReportActs
  BY <1>5, UserReports
<1>6. CASE \/ \E by \in {"user", "timer"} : CheckForUpdates(by)
           \/ InstallUpdate \/ BannerAction \/ CancelInstall
  BY <1>6, UserUpdates
<1>7. CASE UNCHANGED desktop
  BY <1>7 DEF desktop, window, all, vars
<1> QED  BY <1>1, <1>2, <1>3, <1>4, <1>5, <1>6, <1>7
         DEF DesktopNext, WindowNext, Next, ReportActs

\* The page that was told of an end knows of no more than there is.
LEMMA OneAnswered ==
  ASSUME Pool, PageInv, BothOne(updates, jobs, inbox), DeliverUpdate
  PROVE  BothOne(updates', jobs', inbox')
<1> DEFINE ch == Head(inbox).want.ch
<1>1. PICK page : Told(page, ch) /\ Onwards(page)
  BY UpdateTells DEF PageInv
<1>2. /\ inbox # <<>> /\ inbox' = Tail(inbox) /\ life = "running" /\ life' = life
      /\ ch \in {Check, Install} /\ QueueOK(inbox) /\ JobsOK(jobs)
  BY UpdateAnswered DEF Pool
<1>3. /\ Single(Install, jobs, inbox) /\ updates.installing = Sent(Install, jobs, inbox)
      /\ Single(Check, jobs, inbox) /\ updates.checking = Sent(Check, jobs, inbox)
  BY DEF BothOne, OneIn
<1>4. /\ Single(Install, jobs, inbox')
      /\ ch # Install => Sent(Install, jobs, inbox') = Sent(Install, jobs, inbox)
      /\ ch = Install => Sent(Install, jobs, inbox') = FALSE
  BY <1>2, <1>3, OneHandled
<1>5. /\ Single(Check, jobs, inbox')
      /\ ch # Check => Sent(Check, jobs, inbox') = Sent(Check, jobs, inbox)
      /\ ch = Check => Sent(Check, jobs, inbox') = FALSE
  BY <1>2, <1>3, OneHandled
<1> HIDE DEF ch
<1>6. BothOne(page, jobs, inbox')
  <2>1. CASE ch = Check
    <3>1. page.checking = FALSE /\ page.installing = updates.installing
      BY <1>1, <2>1, Channels DEF Told
    <3> QED  BY <1>3, <1>4, <1>5, <2>1, <3>1, Channels DEF BothOne, OneIn
  <2>2. CASE ch = Install
    <3>1. page.installing = FALSE /\ page.checking = updates.checking
      BY <1>1, <2>2, Channels DEF Told
    <3> QED  BY <1>3, <1>4, <1>5, <2>2, <3>1, Channels DEF BothOne, OneIn
  <2> QED  BY <1>2, <2>1, <2>2
<1>7. CASE updates' = page /\ Extended(LookupKinds)
  <2>1. ASSUME NEW c \in {Install, Check}, NEW i \in DOMAIN jobs' \ DOMAIN jobs
        PROVE  jobs'[i].want.ch # c
    <3>1. c[2] \notin LookupKinds
      BY Channels DEF LookupKinds
    <3> QED  BY <1>7, <3>1 DEF Extended
  <2>2. Single(Install, jobs', inbox') /\ Sent(Install, jobs', inbox') = Sent(Install, jobs, inbox')
    BY <1>2, <1>4, <1>7, <2>1, NoneMore
  <2>3. Single(Check, jobs', inbox') /\ Sent(Check, jobs', inbox') = Sent(Check, jobs, inbox')
    BY <1>2, <1>5, <1>7, <2>1, NoneMore
  <2> QED  BY <1>6, <1>7, <2>2, <2>3 DEF BothOne, OneIn
<1>8. CASE \/ Begin(Installing(page), <<InstallRequest(page)>>, Tail(inbox)) /\ CanInstall(page)
           \/ Begin(Checking(page), <<CheckRequest("user")>>, Tail(inbox)) /\ page.checking = FALSE
  <2>1. page.checking = FALSE => CanCheck(page)
    BY Zenon DEF CanCheck
  <2>2. PageOK(page)
    BY <1>1 DEF Told
  <2> QED  BY <1>2, <1>6, <1>8, <2>1, <2>2, OneBegun
<1> QED  BY <1>1, <1>7, <1>8 DEF Onwards

\* Every step keeps the page right about the one install and the one check.
LEMMA OneStays ==
  ASSUME Pool, LoadedInv, PageInv, OneInv, [DesktopNext]_desktop
  PROVE  OneInv'
<1> SUFFICES ASSUME life' = "running" PROVE BothOne(updates', jobs', inbox')
  BY DEF OneInv
<1>1. CASE Restart
  <2>1. jobs' = <<>> /\ inbox' = <<>> /\ starts' # starts
    BY <1>1 DEF Restart, LoadedInv, Pool
  <2>2. ~(\/ \E by \in {"user", "timer"} : CheckForUpdates(by)
          \/ InstallUpdate \/ BannerAction \/ CancelInstall \/ DeliverUpdate)
    BY <2>1 DEF CheckForUpdates, InstallUpdate, BannerAction, CancelInstall, Beside, DeliverUpdate
  <2>3. ~(UNCHANGED desktop)
    BY <2>1 DEF desktop, window, all, mvars
  <2>4. ASSUME NEW k \in DOMAIN jobs, UpdateWork(k) PROVE FALSE
    BY <2>1, <2>4 DEF UpdateWork, FinishCheck, FetchPackage, CloseForInstall, OpenInstalled, Behind
  <2>5. updates' = NoUpdates
    BY <2>1, <2>2, <2>3, <2>4 DEF DesktopNext
  <2> QED  BY <2>1, <2>5, NoneIsOne
<1>2. ASSUME ~Restart PROVE BothOne(updates', jobs', inbox')
  <2>1. life = "running" /\ starts' = starts /\ BothOne(updates, jobs, inbox)
    BY <1>2, RunsOn, LapsedGrows DEF OneInv
  <2>2. CASE \/ WindowNext /\ updates' = IF starts' # starts THEN NoUpdates ELSE updates
             \/ \E k \in DOMAIN jobs : UpdateWork(k) /\ UNCHANGED <<rvars, updates>>
             \/ CancelInstall
             \/ UNCHANGED desktop
    <3>1. updates' = updates
      BY <2>1, <2>2 DEF CancelInstall, desktop
    <3>2. Aside(Install) /\ Aside(Check)
      BY <2>1, <2>2, OthersAside
    <3>3. Single(Install, jobs, inbox) /\ Single(Check, jobs, inbox)
      BY <2>1 DEF BothOne, OneIn
    <3>4. Single(Install, jobs', inbox') /\ Sent(Install, jobs', inbox') = Sent(Install, jobs, inbox)
      BY <2>1, <3>2, <3>3, AsideKeeps
    <3>5. Single(Check, jobs', inbox') /\ Sent(Check, jobs', inbox') = Sent(Check, jobs, inbox)
      BY <2>1, <3>2, <3>3, AsideKeeps
    <3> QED  BY <2>1, <3>1, <3>4, <3>5 DEF BothOne, OneIn
  <2>3. CASE (\E by \in {"user", "timer"} : CheckForUpdates(by)) \/ InstallUpdate
    <3>1. /\ inbox' = inbox /\ life' = life
          /\ \/ Begin(Installing(updates), <<InstallRequest(updates)>>, inbox) /\ CanInstall(updates)
             \/ \E by : Begin(Checking(updates), <<CheckRequest(by)>>, inbox) /\ CanCheck(updates)
      BY <2>3 DEF CheckForUpdates, InstallUpdate, Beside
    <3> QED  BY <2>1, <3>1, OneBegun DEF PageInv
  <2>4. CASE BannerAction
    <3> DEFINE slots == Effective(updates)
    <3>1. /\ inbox' = inbox /\ life' = life
          /\ Begin(After(updates, Range(slots)), SlotRequests(slots), inbox)
      BY <2>4 DEF BannerAction, Beside, SlotRequests
    <3>2. slots = Effective(updates)
      OBVIOUS
    <3> HIDE DEF slots
    <3> QED  BY <2>1, <3>1, <3>2, OneOfSlots DEF PageInv
  <2>5. CASE DeliverUpdate
    BY <2>1, <2>5, OneAnswered
  <2> QED  BY <2>2, <2>3, <2>4, <2>5 DEF DesktopNext
<1> QED  BY <1>1, <1>2

\* None or one, as the page knows.
LEMMA Counted ==
  ASSUME NEW ch, NEW flag, OneIn(ch, jobs, inbox, flag)
  PROVE  Count(ch) = IF flag THEN 1 ELSE 0
<1> DEFINE J == {k \in DOMAIN jobs : jobs[k].want.ch = ch}
           M == {k \in DOMAIN inbox : inbox[k].want.ch = ch}
<1>1. Count(ch) = Cardinality(J) + Cardinality(M)
  BY DEF Count
<1>2. /\ \A i, j \in J : i = j
      /\ \A i, j \in M : i = j
      /\ J = {} \/ M = {}
      /\ flag = (J # {} \/ M # {})
  BY DEF OneIn, Single, Sent
<1> HIDE DEF J, M
<1>3. Cardinality({}) = 0 /\ \A e : Cardinality({e}) = 1
  BY FS_EmptySet, FS_Singleton
<1>4. CASE J = {} /\ M = {}
  <2>1. flag = FALSE
    BY <1>2, <1>4
  <2>2. Cardinality(J) = 0 /\ Cardinality(M) = 0
    BY <1>3, <1>4
  <2>3. Count(ch) = 0
    BY <1>1, <2>2
  <2> QED  BY <2>1, <2>3
<1>5. ASSUME NEW e \in J PROVE Count(ch) = IF flag THEN 1 ELSE 0
  <2>1. J = {e} /\ M = {}
    BY <1>2, <1>5
  <2>2. Cardinality(J) = 1 /\ Cardinality(M) = 0
    BY <1>3, <2>1
  <2>3. flag = TRUE
    BY <1>2, <2>1
  <2>4. Count(ch) = 1
    BY <1>1, <2>2
  <2> QED  BY <2>3, <2>4
<1>6. ASSUME NEW e \in M PROVE Count(ch) = IF flag THEN 1 ELSE 0
  <2>1. M = {e} /\ J = {}
    BY <1>2, <1>6
  <2>2. Cardinality(M) = 1 /\ Cardinality(J) = 0
    BY <1>3, <2>1
  <2>3. flag = TRUE
    BY <1>2, <2>1
  <2>4. Count(ch) = 1
    BY <1>1, <2>2
  <2> QED  BY <2>3, <2>4
<1> QED  BY <1>4, <1>5, <1>6

\* There is never more than one install, nor more than one check, and the Updates page
\* knows of the one that there is: whatever its buttons were wired to, whatever the
\* dialogs, the palette and the timer asked for, however many answers are on their way.
THEOREM InstallsAreSingle == DesktopSpec => []OneInstall
<1> DEFINE Inv == Pool /\ LoadedInv /\ PageInv /\ OneInv
<1>1. DesktopInit => Inv
  BY PoolHolds, LoadedHolds, PageHolds, OneHolds
<1>2. Inv /\ [DesktopNext]_desktop => Inv'
  BY PoolStays, LoadedStays, PageStays, OneStays
<1>3. Inv => OneInstall
  BY Counted DEF OneInv, BothOne, OneInstall
<1> QED  BY <1>1, <1>2, <1>3, PTL DEF DesktopSpec

--------------------------------------------------------------------------------
\* What is installed is whole

\* Work that does not replace the file adds no job that does.
LEMMA OthersJoin ==
  ASSUME NEW K, Extended(K), \A kind \in K : kind \notin Replacing
  PROVE  Joined
BY DEF Extended, Joined, Replaces

\* A job of a maintenance page comes alone, unless the history variable says otherwise.
LEMMA JobJoins ==
  ASSUME Pool, life' = life, tangled \in BOOLEAN, tangled' = FALSE, NEW want, NEW queue, BeginJob(want, queue)
  PROVE  tangled = FALSE /\ Joined
<1>1. /\ Extended({want.ch[2]})
      /\ Len(jobs') = Len(jobs) + 1
      /\ jobs'[Len(jobs) + 1] = Worker(want, FALSE)
  BY JobAppended DEF BeginJob, Pool
<1>2. tangled' = (tangled \/ (want.ch[2] \in Replacing /\ UnderwayIn(Replacing, queue)))
  BY DEF BeginJob
<1>3. ~(tangled \/ (want.ch[2] \in Replacing /\ UnderwayIn(Replacing, queue)))
  BY <1>2, Zenon
<1>4. tangled = FALSE
  BY <1>3
<1>5. CASE want.ch[2] \notin Replacing
  BY <1>1, <1>4, <1>5, OthersJoin
<1>6. CASE want.ch[2] \in Replacing
  <2>1. \A k \in DOMAIN jobs : ~Replaces(jobs[k])
    BY <1>3, <1>6 DEF UnderwayIn, Replaces
  <2>2. \A i \in DOMAIN jobs' \ DOMAIN jobs : i = Len(jobs) + 1
    BY <1>1, SeqDomain DEF Extended, JobsOK, Pool
  <2> QED  BY <1>1, <1>4, <2>1, <2>2 DEF Joined
<1> QED  BY <1>5, <1>6

\* At most one request of the Updates page is an install.
LEMMA PageJoins ==
  ASSUME Pool, life' = life, tangled \in BOOLEAN, tangled' = FALSE, NEW page, NEW requests, NEW queue,
         Begin(page, requests, queue), Asks(requests, UpdateKinds),
         \A i \in DOMAIN requests : requests[i].ch \in {Check, Install},
         \A i, j \in DOMAIN requests : requests[i].ch = Install /\ requests[j].ch = Install => i = j
  PROVE  tangled = FALSE /\ Joined
<1> DEFINE two == UnderwayIn(Replacing, queue)
           one == \E r \in Range(requests) : r.ch = Install
<1>1. tangled' = (tangled \/ (two /\ one))
  BY DEF Begin
<1> HIDE DEF two, one
<1>2. ~(tangled \/ (two /\ one))
  BY <1>1, Zenon
<1>3. tangled = FALSE
  BY <1>2
<1>4. /\ Extended(UpdateKinds)
      /\ \A i \in DOMAIN jobs' \ DOMAIN jobs :
              /\ i - Len(jobs) \in DOMAIN requests
              /\ jobs'[i] = Worker(requests[i - Len(jobs)], FALSE)
  BY Submitted DEF Begin, Pool
<1>5. \A i \in DOMAIN jobs' \ DOMAIN jobs :
        /\ i - Len(jobs) \in DOMAIN requests
        /\ Replaces(jobs'[i]) => requests[i - Len(jobs)].ch = Install
  <2>1. Check[2] \notin Replacing
    BY Channels DEF Replacing
  <2> QED  BY <1>4, <2>1 DEF Replaces, Worker
<1>6. CASE one
  <2>1. \A k \in DOMAIN jobs : ~Replaces(jobs[k])
    BY <1>2, <1>6 DEF two, UnderwayIn, Replaces
  <2>2. ASSUME NEW i \in DOMAIN jobs' \ DOMAIN jobs, NEW j \in DOMAIN jobs' \ DOMAIN jobs,
               Replaces(jobs'[i]), Replaces(jobs'[j])
        PROVE  i = j
    <3>1. i - Len(jobs) = j - Len(jobs)
      BY <1>5, <2>2
    <3>2. i \in Nat /\ j \in Nat /\ Len(jobs) \in Nat
      BY <1>4, SeqDomain DEF Extended, JobsOK, Pool
    <3> QED  BY <3>1, <3>2
  <2> QED  BY <1>3, <1>4, <2>1, <2>2 DEF Joined
<1>7. CASE ~one
  <2>1. \A i \in DOMAIN requests : requests[i].ch # Install
    BY <1>7 DEF one, Range
  <2> QED  BY <1>3, <1>4, <1>5, <2>1 DEF Joined
<1> QED  BY <1>6, <1>7

\* One request of the Updates page.
LEMMA OneRequest ==
  ASSUME NEW r, r.ch \in {Check, Install}
  PROVE  /\ Asks(<<r>>, UpdateKinds)
         /\ \A i \in DOMAIN <<r>> : <<r>>[i].ch \in {Check, Install}
         /\ \A i, j \in DOMAIN <<r>> : <<r>>[i].ch = Install /\ <<r>>[j].ch = Install => i = j
<1>1. r.ch[2] \in UpdateKinds
  BY Channels DEF UpdateKinds
<1> QED  BY <1>1, AsksOne, OneSeq

\* An install comes alone, unless the history variable says otherwise.
LEMMA OneJoins ==
  ASSUME Pool, life' = life, tangled \in BOOLEAN, tangled' = FALSE, NEW page, NEW queue,
         \/ Begin(Installing(page), <<InstallRequest(page)>>, queue)
         \/ \E by : Begin(Checking(page), <<CheckRequest(by)>>, queue)
  PROVE  tangled = FALSE /\ Joined
<1>1. ASSUME NEW p, NEW r, NEW s, s = <<r>>, r.ch \in {Check, Install}, Begin(p, s, queue)
      PROVE  tangled = FALSE /\ Joined
  <2>1. /\ Asks(s, UpdateKinds)
        /\ \A i \in DOMAIN s : s[i].ch \in {Check, Install}
        /\ \A i, j \in DOMAIN s : s[i].ch = Install /\ s[j].ch = Install => i = j
    BY <1>1, OneRequest
  <2> QED  BY <1>1, <2>1, PageJoins
<1>2. InstallRequest(page).ch = Install /\ \A by : CheckRequest(by).ch = Check
  BY DEF InstallRequest, CheckRequest, Request
<1>3. CASE Begin(Installing(page), <<InstallRequest(page)>>, queue)
  <2> DEFINE r == InstallRequest(page)
             p == Installing(page)
             s == <<r>>
  <2>1. r.ch \in {Check, Install} /\ Begin(p, s, queue) /\ s = <<r>>
    BY <1>2, <1>3
  <2> HIDE DEF r, p, s
  <2> QED  BY <1>1, <2>1
<1>4. ASSUME NEW by, Begin(Checking(page), <<CheckRequest(by)>>, queue)
      PROVE  tangled = FALSE /\ Joined
  <2> DEFINE r == CheckRequest(by)
             p == Checking(page)
             s == <<r>>
  <2>1. r.ch \in {Check, Install} /\ Begin(p, s, queue) /\ s = <<r>>
    BY <1>2, <1>4
  <2> HIDE DEF r, p, s
  <2> QED  BY <1>1, <2>1
<1> QED  BY <1>3, <1>4

\* So does one that the banner begins.
LEMMA SlotsJoin ==
  ASSUME Pool, PageInv, life' = life, tangled' = FALSE, NEW page, NEW queue,
         NEW slots, slots = Effective(updates), Begin(page, SlotRequests(slots), queue)
  PROVE  tangled = FALSE /\ Joined
<1> DEFINE r == SlotRequests(slots)
<1>1. /\ IsSeq(slots)
      /\ \A i, j \in DOMAIN slots : slots[i] = slots[j] => i = j
  BY SlotsOnce DEF PageInv
<1>2. Asks(r, UpdateKinds) /\ DOMAIN r = DOMAIN slots
  BY <1>1, SlotsAsk
<1>3. \A k \in DOMAIN slots : r[k].ch = IF slots[k] = "install" THEN Install ELSE Check
  BY <1>2 DEF SlotRequests, InstallRequest, CheckRequest, Request
<1> HIDE DEF r
<1>4. /\ \A i \in DOMAIN r : r[i].ch \in {Check, Install}
      /\ \A i, j \in DOMAIN r : r[i].ch = Install /\ r[j].ch = Install => i = j
  BY <1>1, <1>2, <1>3, Channels
<1>5. Begin(page, r, queue) /\ tangled \in BOOLEAN
  BY DEF r, PageInv
<1> QED  BY <1>2, <1>4, <1>5, PageJoins

\* However a step changes the pool: nothing new replaces the file while something else
\* does, as long as the history variable says so.
LEMMA Joining ==
  ASSUME Pool, PageInv, [DesktopNext]_desktop, tangled' = FALSE
  PROVE  /\ tangled = FALSE
         /\ \/ Joined
            \/ \E k \in DOMAIN jobs : Work(k) \/ UpdateWork(k) \/ Dropped(k)
            \/ jobs' = <<>>
<1> DEFINE Goal == /\ tangled = FALSE
                   /\ \/ Joined
                      \/ \E k \in DOMAIN jobs : Work(k) \/ UpdateWork(k) \/ Dropped(k)
                      \/ jobs' = <<>>
<1>0. tangled \in BOOLEAN
  BY DEF PageInv
<1>a. ASSUME tangled' = tangled, NEW K \in {{}, LookupKinds, {"values"}}, Extended(K) PROVE Goal
  <2>1. \A kind \in K : kind \notin Replacing
    BY <1>a DEF LookupKinds, Replacing
  <2> QED  BY <1>a, <2>1, OthersJoin
<1>b. ASSUME jobs' = jobs, life' = life PROVE Extended({})
  BY <1>b, LeftAlone DEF Pool
<1>c. ASSUME NEW want, NEW queue, BeginJob(want, queue), life' = life PROVE Goal
  BY <1>c, <1>0, JobJoins
<1>1. CASE Lookups /\ UNCHANGED mvars
  <2>1. tangled' = tangled
    BY <1>1 DEF mvars, panel
  <2>2. \/ Extended(LookupKinds) \/ Emptied \/ \E k \in DOMAIN jobs : Dropped(k)
    BY <1>1, Looking
  <2> QED  BY <1>a, <2>1, <2>2 DEF Emptied
<1>2. CASE \/ \E p \in Pages :
                \/ \E kind \in Checks \cup {"backup"} : StartJob(p, kind)
                \/ \E b \in Range(backups) : StartRestore(p, b)
           \/ \E kind \in JobKinds : PaletteCommand(kind)
           \/ StartRebuild \/ StartRollback
  BY <1>2, <1>c DEF StartJob, StartRestore, PaletteCommand, StartRebuild, StartRollback
<1>3. CASE \/ RefreshListStatus \/ GatherLearning
           \/ \E i \in DOMAIN backups : DeleteBackup(i)
  <2>1. jobs' = jobs /\ life' = life /\ tangled' = tangled
    BY <1>3 DEF RefreshListStatus, GatherLearning, DeleteBackup, panel
  <2> QED  BY <1>a, <1>b, <2>1
<1>4. CASE ShowAdmin
  <2>1. Submit(Measures(~busy["admin"])) /\ life' = life /\ tangled' = tangled
    BY <1>4 DEF ShowAdmin, mvars, panel
  <2>2. Extended(LookupKinds)
    BY <2>1, MeasuresAsk, Submitted DEF Pool
  <2> QED  BY <1>a, <2>1, <2>2
<1>5. CASE \E k \in DOMAIN jobs : Work(k) \/ UpdateWork(k)
  <2>1. tangled' = tangled
    BY <1>5 DEF Work, UpdateWork, RunCheck, BeginBackup, CompleteBackup, FailBackup, PruneBackups,
              VerifyBackup, BuildCandidate, VerifyPrevious, CloseForSwap, BeginKeeping,
              FinishKeeping, BeginCopy, Replace, FailReplace, OpenAfterSwap, FinishCheck,
              FetchPackage, CloseForInstall, OpenInstalled, Behind, panel
  <2> QED  BY <1>5, <2>1
<1>6. CASE DeliverJob
  <2>1. /\ life' = life
        /\ \/ Extended(LookupKinds) /\ tangled' = tangled
           \/ Extended({}) /\ tangled' = tangled
           \/ BeginJob(Request(Job("database", "rebuild"), "allow_shrink", None), Tail(inbox))
    BY <1>6, JobAnswered
  <2> QED  BY <1>a, <1>c, <2>1
<1>7. CASE Kill \/ Build
  BY <1>7 DEF Kill, Build, mvars, panel
<1>8. CASE Restart
  <2>1. jobs' = <<>> /\ tangled' = tangled
    BY <1>8 DEF Restart, Pool
  <2> QED  BY <2>1
<1>9. CASE ReportActs
  <2>1. Extended({"values"})
    BY <1>9, UserReports
  <2>2. tangled' = tangled
    BY <1>9 DEF ReportActs, ShowReports, SetType, SetReportFilter, SaveTemplate, LoadTemplate,
              DeleteTemplate, Unbuilt, mvars, panel
  <2> QED  BY <1>a, <2>1, <2>2
<1>10. CASE DeliverValues
  <2>1. jobs' = jobs /\ life' = life /\ tangled' = tangled
    BY <1>10 DEF DeliverValues, mvars, panel
  <2> QED  BY <1>a, <1>b, <2>1
<1>11. CASE (\E by \in {"user", "timer"} : CheckForUpdates(by)) \/ InstallUpdate
  <2>1. /\ life' = life
        /\ \/ Begin(Installing(updates), <<InstallRequest(updates)>>, inbox)
           \/ \E by : Begin(Checking(updates), <<CheckRequest(by)>>, inbox)
    BY <1>11 DEF CheckForUpdates, InstallUpdate, Beside
  <2> QED  BY <1>0, <2>1, OneJoins
<1>12. CASE BannerAction
  <2> DEFINE slots == Effective(updates)
             page == After(updates, Range(slots))
  <2>1. life' = life /\ Begin(page, SlotRequests(slots), inbox)
    BY <1>12 DEF BannerAction, Beside, SlotRequests
  <2>2. slots = Effective(updates)
    OBVIOUS
  <2> HIDE DEF slots, page
  <2> QED  BY <2>1, <2>2, SlotsJoin
<1>13. CASE CancelInstall
  <2>1. Extended({}) /\ tangled' = tangled
    BY <1>13, InstallCancelled DEF CancelInstall
  <2> QED  BY <1>a, <2>1
<1>14. CASE DeliverUpdate
  <2>1. PICK page : Onwards(page)
    BY <1>14, <1>0, UpdateTells DEF PageInv
  <2>2. life' = life
    BY <1>14, UpdateAnswered
  <2>3. CASE Extended(LookupKinds) /\ tangled' = tangled
    BY <1>a, <2>3
  <2>4. CASE \/ Begin(Installing(page), <<InstallRequest(page)>>, Tail(inbox))
             \/ Begin(Checking(page), <<CheckRequest("user")>>, Tail(inbox))
    BY <1>0, <2>2, <2>4, OneJoins
  <2> QED  BY <2>1, <2>3, <2>4 DEF Onwards
<1>15. CASE UNCHANGED desktop
  <2>1. jobs' = jobs /\ life' = life /\ tangled' = tangled
    BY <1>15 DEF desktop, window, all, vars, mvars, panel
  <2> QED  BY <1>a, <1>b, <2>1
<1> QED  BY <1>1, <1>2, <1>3, <1>4, <1>5, <1>6, <1>7, <1>8, <1>9, <1>10, <1>11, <1>12, <1>13, <1>14, <1>15
         DEF DesktopNext, WindowNext, Next, ReportActs

\* What a sequence holds is finite.
LEMMA FiniteRange ==
  ASSUME NEW n \in Nat, NEW f, f = [i \in 1 .. n |-> f[i]]
  PROVE  IsFiniteSet(Range(f))
<1>1. IsFiniteSet(1 .. n)
  BY FS_Interval
<1>2. f \in Surjection(1 .. n, Range(f))
  BY DEF Surjection, Range
<1> QED  BY <1>1, <1>2, FS_Surjection

\* A new snapshot has a name that no other has, and that no job still has in hand.
LEMMA FreshIsNew == ASSUME Pool, DiskOK PROVE FreshId \notin UsedIds
<1> DEFINE n == Len(jobs)
           m == Len(backups)
           ids == [i \in 1 .. m |-> backups[i].id]
           notes == [i \in 1 .. n |-> jobs[i].note]
           wants == [i \in 1 .. n |-> jobs[i].want.of]
           all3 == (Range(ids) \cup Range(notes)) \cup Range(wants)
<1>1. n \in Nat /\ m \in Nat /\ DOMAIN jobs = 1 .. n /\ DOMAIN backups = 1 .. m
  BY SeqDomain DEF Pool, JobsOK, DiskOK
<1>2. IsFiniteSet(Range(ids)) /\ IsFiniteSet(Range(notes)) /\ IsFiniteSet(Range(wants))
  BY <1>1, FiniteRange
<1>3. IsFiniteSet(all3)
  <2> HIDE DEF ids, notes, wants
  <2>1. IsFiniteSet(Range(ids) \cup Range(notes))
    BY <1>2, FS_Union
  <2> QED  BY <1>2, <2>1, FS_Union
<1>4. UsedIds \subseteq all3
  <2>1. {b.id : b \in Range(backups)} \subseteq Range(ids)
    BY <1>1 DEF Range
  <2>2. {jobs[k].note : k \in {j \in DOMAIN jobs : jobs[j].want.ch[2] = "backup"}} \subseteq Range(notes)
    BY <1>1 DEF Range
  <2>3. {jobs[k].want.of : k \in {j \in DOMAIN jobs : jobs[j].want.ch[2] = "restore"}} \subseteq Range(wants)
    BY <1>1 DEF Range
  <2> HIDE DEF ids, notes, wants
  <2> QED  BY <2>1, <2>2, <2>3 DEF UsedIds
<1> HIDE DEF all3
<1>5. IsFiniteSet(UsedIds) /\ Cardinality(UsedIds) \in Nat
  BY <1>3, <1>4, FS_Subset, FS_CardinalityType
<1> DEFINE c == Cardinality(UsedIds)
           S == 1 .. c + 1
<1>6. IsFiniteSet(S) /\ Cardinality(S) = c + 1
  BY <1>5, FS_Interval
<1>7. ~(S \subseteq UsedIds)
  <2>1. SUFFICES ASSUME S \subseteq UsedIds PROVE FALSE
    OBVIOUS
  <2>2. Cardinality(S) <= c
    BY <1>5, <2>1, FS_Subset
  <2> QED  BY <1>5, <1>6, <2>2
<1>8. \E k \in S : k \notin UsedIds
  BY <1>7
<1>9. FreshId = CHOOSE k \in S : k \notin UsedIds
  BY DEF FreshId
<1> QED  BY <1>8, <1>9

\* The names of the snapshots stay different, however they are changed.
LEMMA NamesStay ==
  ASSUME DiskOK, NamedOnce(backups), NEW ids, \A i \in DOMAIN backups : backups[i].id \in ids,
         \/ backups' = backups
         \/ \E b : b.id \notin ids /\ backups' = <<b>> \o backups
         \/ \E i \in DOMAIN backups : \E b : /\ b.id = backups[i].id /\ b.whole = file.sound
                                             /\ backups' = <<b>> \o RemoveAt(backups, i)
         \/ \E i \in DOMAIN backups : backups' = RemoveAt(backups, i)
         \/ backups' = Newest(backups, Retention)
  PROVE  NamedOnce(backups') /\ (file.sound = TRUE => Kin(ids))
<1>0. IsSeq(backups) /\ Len(backups) \in Nat /\ DOMAIN backups = 1 .. Len(backups)
  BY SeqDomain DEF DiskOK
<1>1. CASE backups' = backups
  BY <1>1 DEF Kin
<1>2. ASSUME NEW b, b.id \notin ids, backups' = <<b>> \o backups
      PROVE  NamedOnce(backups') /\ (file.sound = TRUE => Kin(ids))
  <2>1. /\ backups'[1] = b
        /\ \A i \in DOMAIN backups' \ {1} : i - 1 \in DOMAIN backups /\ backups'[i] = backups[i - 1]
        /\ DOMAIN backups' = 1 .. Len(backups) + 1
    <3> DEFINE v == <<b>> \o backups
    <3>1. /\ IsSeq(v) /\ Len(v) = Len(backups) + 1
          /\ DOMAIN v = 1 .. Len(backups) + 1
          /\ v[1] = b
          /\ \A i \in DOMAIN v \ {1} : i - 1 \in DOMAIN backups /\ v[i] = backups[i - 1]
      BY <1>0, PutFirst
    <3>2. backups' = v
      BY <1>2
    <3> HIDE DEF v
    <3> QED  BY <3>1, <3>2
  <2>2. Kin(ids)
    BY <1>2, <2>1 DEF Kin
  <2>3. ASSUME NEW i \in DOMAIN backups', NEW j \in DOMAIN backups', backups'[i].id = backups'[j].id
        PROVE  i = j
    <3>1. CASE i # 1 /\ j # 1
      <4>1. i - 1 = j - 1
        BY <2>1, <2>3, <3>1 DEF NamedOnce
      <4> QED  BY <1>0, <2>1, <4>1
    <3>2. CASE i = 1 \/ j = 1
      BY <1>2, <2>1, <2>3, <3>2
    <3> QED  BY <3>1, <3>2
  <2> QED  BY <2>2, <2>3 DEF NamedOnce
<1> DEFINE r(k, i) == IF i < k THEN i ELSE i + 1
<1>3. ASSUME NEW k \in DOMAIN backups
      PROVE  LET rest == RemoveAt(backups, k)
             IN  /\ IsSeq(rest)
                 /\ \A i \in DOMAIN rest : /\ r(k, i) \in DOMAIN backups \ {k} /\ rest[i] = backups[r(k, i)]
                 /\ \A i, j \in DOMAIN rest : r(k, i) = r(k, j) => i = j
                 /\ DOMAIN rest = 1 .. Len(rest) /\ Len(rest) \in Nat
  <2> DEFINE rest == RemoveAt(backups, k)
  <2>1. /\ IsSeq(rest) /\ DOMAIN rest = 1 .. Len(backups) - 1
        /\ \A i \in DOMAIN rest : rest[i] = backups[r(k, i)]
    BY <1>0, RemoveOwn
  <2> HIDE DEF rest
  <2>2. \A i \in DOMAIN rest : r(k, i) \in DOMAIN backups \ {k}
    BY <1>0, <2>1
  <2>3. \A i, j \in DOMAIN rest : r(k, i) = r(k, j) => i = j
    BY <1>0, <2>1
  <2>4. DOMAIN rest = 1 .. Len(rest) /\ Len(rest) \in Nat
    BY <2>1, SeqDomain
  <2> QED  BY <2>1, <2>2, <2>3, <2>4 DEF rest
<1> HIDE DEF r
<1>4. ASSUME NEW k \in DOMAIN backups, backups' = RemoveAt(backups, k)
      PROVE  NamedOnce(backups') /\ (file.sound = TRUE => Kin(ids))
  <2>1. /\ \A i \in DOMAIN backups' : r(k, i) \in DOMAIN backups /\ backups'[i] = backups[r(k, i)]
        /\ \A i, j \in DOMAIN backups' : r(k, i) = r(k, j) => i = j
    BY <1>3, <1>4
  <2> QED  BY <2>1 DEF NamedOnce, Kin
<1>5. ASSUME NEW k \in DOMAIN backups, NEW b, b.id = backups[k].id, b.whole = file.sound,
             backups' = <<b>> \o RemoveAt(backups, k)
      PROVE  NamedOnce(backups') /\ (file.sound = TRUE => Kin(ids))
  <2> DEFINE rest == RemoveAt(backups, k)
  <2>1. /\ IsSeq(rest)
        /\ \A i \in DOMAIN rest : r(k, i) \in DOMAIN backups \ {k} /\ rest[i] = backups[r(k, i)]
        /\ \A i, j \in DOMAIN rest : r(k, i) = r(k, j) => i = j
        /\ DOMAIN rest = 1 .. Len(rest) /\ Len(rest) \in Nat
    BY <1>3
  <2>2. backups' = <<b>> \o rest
    BY <1>5
  <2> HIDE DEF rest
  <2>3. /\ backups'[1] = b
        /\ \A i \in DOMAIN backups' \ {1} : i - 1 \in DOMAIN rest /\ backups'[i] = rest[i - 1]
        /\ DOMAIN backups' = 1 .. Len(rest) + 1
    <3> DEFINE v == <<b>> \o rest
    <3>1. /\ IsSeq(v) /\ Len(v) = Len(rest) + 1
          /\ DOMAIN v = 1 .. Len(rest) + 1
          /\ v[1] = b
          /\ \A i \in DOMAIN v \ {1} : i - 1 \in DOMAIN rest /\ v[i] = rest[i - 1]
      BY <2>1, PutFirst
    <3>2. backups' = v
      BY <2>2
    <3> HIDE DEF v
    <3> QED  BY <3>1, <3>2
  <2>4. \A i \in DOMAIN backups' \ {1} :
          r(k, i - 1) \in DOMAIN backups \ {k} /\ backups'[i] = backups[r(k, i - 1)]
    BY <2>1, <2>3
  <2>5. file.sound = TRUE => Kin(ids)
    BY <1>5, <2>3, <2>4 DEF Kin
  <2>6. ASSUME NEW i \in DOMAIN backups', NEW j \in DOMAIN backups', backups'[i].id = backups'[j].id
        PROVE  i = j
    <3>1. CASE i # 1 /\ j # 1
      <4>1. r(k, i - 1) = r(k, j - 1)
        BY <2>4, <2>6, <3>1 DEF NamedOnce
      <4>2. i - 1 = j - 1
        BY <2>1, <2>3, <3>1, <4>1
      <4> QED  BY <2>1, <2>3, <4>2
    <3>2. CASE i = 1 /\ j # 1
      BY <1>5, <2>3, <2>4, <2>6, <3>2 DEF NamedOnce
    <3>3. CASE i # 1 /\ j = 1
      BY <1>5, <2>3, <2>4, <2>6, <3>3 DEF NamedOnce
    <3> QED  BY <3>1, <3>2, <3>3
  <2> QED  BY <2>5, <2>6 DEF NamedOnce
<1>6. CASE backups' = Newest(backups, Retention)
  <2>1. \A i \in DOMAIN backups' : i \in DOMAIN backups /\ backups'[i] = backups[i]
    BY <1>0, <1>6, NewestOwn, MaintenanceAssumption
  <2> QED  BY <2>1 DEF NamedOnce, Kin
<1> QED  BY <1>1, <1>2, <1>4, <1>5, <1>6

\* That is all a job does to the snapshots.
LEMMA Rewriting ==
  ASSUME Pool, DiskOK, NEW k \in DOMAIN jobs, Work(k) \/ UpdateWork(k)
  PROVE  Rewritten
<1>1. CASE BeginBackup(k)
  <2> DEFINE b == [id |-> FreshId, content |-> file.content, whole |-> FALSE]
  <2>1. b.id \notin UsedIds
    BY FreshIsNew
  <2>2. backups' = <<b>> \o backups
    BY <1>1 DEF BeginBackup
  <2> QED  BY <2>1, <2>2 DEF Rewritten
<1>2. CASE CompleteBackup(k)
  <2>1. PICK i \in DOMAIN backups : backups' = <<[backups[i] EXCEPT !.whole = file.sound]>> \o RemoveAt(backups, i)
    BY <1>2 DEF CompleteBackup
  <2> DEFINE b == [backups[i] EXCEPT !.whole = file.sound]
  <2>2. backups[i] = [id |-> backups[i].id, content |-> backups[i].content, whole |-> backups[i].whole]
    BY DEF DiskOK, IsBackup
  <2>3. b.id = backups[i].id /\ b.whole = file.sound
    BY <2>2
  <2> QED  BY <2>1, <2>3 DEF Rewritten
<1>3. CASE FailBackup(k)
  BY <1>3 DEF FailBackup, Rewritten
<1>4. CASE PruneBackups(k)
  BY <1>4 DEF PruneBackups, Pruned, Rewritten
<1>5. CASE ~(BeginBackup(k) \/ CompleteBackup(k) \/ FailBackup(k) \/ PruneBackups(k))
  <2>1. backups' = backups
    BY <1>5 DEF Work, UpdateWork, RunCheck, VerifyBackup, BuildCandidate, VerifyPrevious, CloseForSwap,
                BeginKeeping, FinishKeeping, BeginCopy, Replace, FailReplace, OpenAfterSwap,
                FinishCheck, FetchPackage, CloseForInstall, OpenInstalled, onDisk
  <2> QED  BY <2>1 DEF Rewritten
<1> QED  BY <1>1, <1>2, <1>3, <1>4, <1>5

\* So their names stay different.
LEMMA NamesKept ==
  ASSUME DiskOK, NamedOnce(backups), Rewritten
  PROVE  NamedOnce(backups') /\ (file.sound = TRUE => Kin(UsedIds))
<1>1. \A i \in DOMAIN backups : backups[i].id \in UsedIds
  BY DEF UsedIds, Range
<1> QED  BY <1>1, NamesStay DEF Rewritten

\* A job that does not replace the file has nothing to be ready for.
LEMMA ReadyElse ==
  ASSUME NEW j, ~Replaces(j), NEW bs, NEW prev, NEW st
  PROVE  Ready(j, bs, prev, st)
BY DEF Ready, Replaces, Replacing

\* A job that is at none of those places has nothing to be ready for.
LEMMA ReadyAt ==
  ASSUME NEW j, NEW bs, NEW prev, NEW st, j.at # "replace",
         \/ j.at \notin {"close", "keep", "copy"}
         \/ j.want.ch[2] \notin {"restore", "rollback"}
  PROVE  Ready(j, bs, prev, st)
BY DEF Ready

\* A job goes on, or leaves the pool: what is there was there.
LEMMA Remaining ==
  ASSUME Pool, NEW k \in DOMAIN jobs,
         \/ \E place, note : Goes(k, place, note)
         \/ jobs' = RemoveAt(jobs, k)
  PROVE  /\ Alone(jobs) => Alone(jobs')
         /\ \A i \in DOMAIN jobs' :
              \/ \E j \in DOMAIN jobs \ {k} : jobs'[i] = jobs[j]
              \/ i = k /\ jobs'[i].want = jobs[k].want /\ ~(jobs' = RemoveAt(jobs, k))
<1>0. JobsOK(jobs) /\ IsSeq(jobs) /\ Len(jobs) \in Nat /\ DOMAIN jobs = 1 .. Len(jobs)
  BY SeqDomain DEF Pool, JobsOK
<1> DEFINE r(i) == IF i < k THEN i ELSE i + 1
<1>1. CASE jobs' = RemoveAt(jobs, k)
  <2>1. DOMAIN jobs' = 1 .. Len(jobs) - 1 /\ \A i \in DOMAIN jobs' : jobs'[i] = jobs[r(i)]
    BY <1>0, <1>1, RemoveOwn
  <2>2. \A i \in DOMAIN jobs' : r(i) \in DOMAIN jobs \ {k}
    BY <1>0, <2>1
  <2>3. \A i, j \in DOMAIN jobs' : r(i) = r(j) => i = j
    BY <1>0, <2>1
  <2> HIDE DEF r
  <2> QED  BY <2>1, <2>2, <2>3 DEF Alone
<1>2. ASSUME NEW place, NEW note, Goes(k, place, note), ~(jobs' = RemoveAt(jobs, k))
      PROVE  /\ Alone(jobs) => Alone(jobs')
             /\ \A i \in DOMAIN jobs' :
                  \/ \E j \in DOMAIN jobs \ {k} : jobs'[i] = jobs[j]
                  \/ i = k /\ jobs'[i].want = jobs[k].want /\ ~(jobs' = RemoveAt(jobs, k))
  <2>1. /\ DOMAIN jobs' = DOMAIN jobs
        /\ \A i \in DOMAIN jobs \ {k} : jobs'[i] = jobs[i]
        /\ jobs'[k].want = jobs[k].want
    BY <1>0, <1>2, Moved
  <2>2. \A i \in DOMAIN jobs : jobs'[i].want = jobs[i].want
    BY <2>1
  <2> QED  BY <1>2, <2>1, <2>2 DEF Alone, Replaces
<1> QED  BY <1>1, <1>2

\* A check or a backup: the file is as it was, and so is what the others rely on.
LEMMA CopyingIsWhole ==
  ASSUME Pool, DiskOK, WholeInv, NEW k \in DOMAIN jobs, tangled' = tangled,
         \/ RunCheck(k) \/ FinishCheck(k)
         \/ BeginBackup(k) \/ CompleteBackup(k) \/ FailBackup(k) \/ PruneBackups(k)
  PROVE  tangled = FALSE => WholeInv'
<1> SUFFICES ASSUME tangled = FALSE PROVE WholeInv'
  OBVIOUS
<1>0. /\ Alone(jobs) /\ NamedOnce(backups) /\ file.sound = TRUE /\ file.writer = None
      /\ \A i \in DOMAIN jobs : Ready(jobs[i], backups, previous, staged)
  BY DEF WholeInv
<1>1. /\ file' = file /\ previous' = previous /\ staged' = staged
      /\ jobs[k].want.ch[2] \notin Replacing
      /\ \/ \E place, note : Goes(k, place, note)
         \/ jobs' = RemoveAt(jobs, k)
  BY DEF RunCheck, FinishCheck, BeginBackup, CompleteBackup, FailBackup, PruneBackups, At, Checks,
         Replacing, Ends, onDisk
<1>4. NamedOnce(backups') /\ Kin(UsedIds)
  BY <1>0, Rewriting, NamesKept DEF Work, UpdateWork
<1>5. Alone(jobs')
  BY <1>0, <1>1, Remaining
<1>6. ASSUME NEW j \in DOMAIN jobs PROVE Ready(jobs[j], backups', previous', staged')
  <2>1. Ready(jobs[j], backups, previous, staged)
    BY <1>0
  <2>2. jobs[j].want.ch[2] = "restore" => jobs[j].want.of \in UsedIds
    BY DEF UsedIds
  <2>3. ASSUME jobs[j].want.ch[2] = "restore", jobs[j].at = "copy",
               NEW i \in DOMAIN backups', backups'[i].id = jobs[j].want.of
        PROVE  backups'[i].whole = TRUE
    <3>1. PICK l \in DOMAIN backups : /\ backups'[i].id = backups[l].id
                                      /\ backups[l].whole => backups'[i].whole
      BY <1>4, <2>2, <2>3 DEF Kin
    <3>2. backups[l].whole = TRUE
      BY <2>1, <2>3, <3>1 DEF Ready
    <3>3. backups'[i].whole
      BY <3>1, <3>2
    <3> QED  BY <3>3
  <2> QED  BY <1>1, <2>1, <2>3 DEF Ready
<1>7. \A i \in DOMAIN jobs' : Ready(jobs'[i], backups', previous', staged')
  <2>1. ASSUME NEW i \in DOMAIN jobs', jobs'[i].want = jobs[k].want
        PROVE  Ready(jobs'[i], backups', previous', staged')
    BY <1>1, <2>1, ReadyElse DEF Replaces
  <2> QED  BY <1>1, <1>6, <2>1, Remaining
<1> QED  BY <1>0, <1>1, <1>4, <1>5, <1>7 DEF WholeInv

\* Step by step, what the one job puts in the place of the file is whole.
LEMMA ReplacingIsReady ==
  ASSUME Pool, DiskOK, WholeInv, tangled = FALSE, NEW k \in DOMAIN jobs, Replaces(jobs[k]),
         Work(k) \/ UpdateWork(k)
  PROVE  /\ file'.sound = TRUE /\ file'.writer = None
         /\ backups' = backups
         /\ GoesReady(k)
<1> DEFINE Goal == /\ file'.sound = TRUE /\ file'.writer = None
                   /\ backups' = backups
                   /\ GoesReady(k)
           kind == jobs[k].want.ch[2]
<1>0. /\ file.sound = TRUE /\ file.writer = None
      /\ Ready(jobs[k], backups, previous, staged)
      /\ NamedOnce(backups) /\ JobsOK(jobs)
      /\ kind \in Replacing
  BY DEF WholeInv, Replaces, Pool
<1>a. ASSUME UNCHANGED <<file, backups>>, \E outcome : Ends(k, outcome) PROVE Goal
  BY <1>0, <1>a DEF GoesReady
<1>b. ASSUME NEW place, NEW note, Goes(k, place, note)
      PROVE  jobs'[k].at = place /\ jobs'[k].want = jobs[k].want
  BY <1>0, <1>b, Moved
<1>c. ASSUME NEW place, NEW note, UNCHANGED <<file, backups>>, Goes(k, place, note),
             Ready(jobs'[k], backups', previous', staged')
      PROVE  Goal
  BY <1>0, <1>c DEF GoesReady
<1>1. CASE \/ RunCheck(k) \/ FinishCheck(k)
           \/ BeginBackup(k) \/ CompleteBackup(k) \/ FailBackup(k) \/ PruneBackups(k)
  BY <1>0, <1>1 DEF RunCheck, FinishCheck, BeginBackup, CompleteBackup, FailBackup, PruneBackups, At,
                    Checks, Replacing
<1>2. CASE VerifyBackup(k)
  <2>1. UNCHANGED <<file, backups, previous, staged>> /\ kind = "restore"
    BY <1>2 DEF VerifyBackup, onDisk, At
  <2>2. CASE ~(\E b \in Chosen(k) : Restorable(b))
    BY <1>2, <1>a, <2>1, <2>2 DEF VerifyBackup
  <2>3. CASE \E b \in Chosen(k) : Restorable(b)
    <3> DEFINE note == [new |-> 0, was |-> FALSE, kept |-> NoFile]
    <3>1. Goes(k, "copy", note)
      BY <1>2, <2>3 DEF VerifyBackup
    <3> HIDE DEF note
    <3>2. jobs'[k].at = "copy" /\ jobs'[k].want = jobs[k].want
      BY <1>b, <3>1
    <3>3. PICK j \in DOMAIN backups : backups[j].id = jobs[k].want.of /\ backups[j].whole
      BY <2>3 DEF Chosen, Restorable, Range
    <3>4. \A i \in DOMAIN backups : backups[i].id = jobs[k].want.of => backups[i].whole = TRUE
      BY <1>0, <3>3 DEF NamedOnce
    <3>5. Ready(jobs'[k], backups', previous', staged')
      BY <2>1, <3>2, <3>4 DEF Ready
    <3> QED  BY <1>c, <2>1, <3>1, <3>5
  <2> QED  BY <2>2, <2>3
<1>3. CASE BuildCandidate(k)
  <2>1. UNCHANGED <<file, backups>> /\ kind = "rebuild"
    BY <1>3 DEF BuildCandidate, At
  <2>2. \/ \E outcome : Ends(k, outcome)
        \/ \E note : Goes(k, "close", note)
    BY <1>3 DEF BuildCandidate
  <2>3. ASSUME NEW note, Goes(k, "close", note) PROVE Ready(jobs'[k], backups', previous', staged')
    <3>1. jobs'[k].at = "close" /\ jobs'[k].want = jobs[k].want
      BY <1>b, <2>3
    <3> QED  BY <2>1, <3>1, ReadyAt
  <2> QED  BY <1>a, <1>c, <2>1, <2>2, <2>3
<1>4. CASE VerifyPrevious(k)
  <2>1. UNCHANGED <<file, backups, previous, staged>> /\ kind = "rollback"
    BY <1>4 DEF VerifyPrevious, onDisk, At
  <2>2. \/ \E outcome : Ends(k, outcome)
        \/ previous.whole /\ \E note : Goes(k, "close", note)
    BY <1>4 DEF VerifyPrevious
  <2>3. ASSUME NEW note, Goes(k, "close", note), previous.whole
        PROVE  Ready(jobs'[k], backups', previous', staged')
    <3>1. jobs'[k].at = "close" /\ jobs'[k].want = jobs[k].want
      BY <1>b, <2>3
    <3> QED  BY <2>1, <2>3, <3>1 DEF Ready
  <2> QED  BY <1>a, <1>c, <2>1, <2>2, <2>3
<1>5. CASE CloseForSwap(k)
  <2>1. /\ UNCHANGED <<file, backups, previous, staged>> /\ jobs[k].at = "close"
        /\ kind \in {"rebuild", "rollback"}
    BY <1>5 DEF CloseForSwap, onDisk, At, Swaps
  <2>2. PICK note : Goes(k, "keep", note)
    BY <1>5 DEF CloseForSwap
  <2>3. jobs'[k].at = "keep" /\ jobs'[k].want = jobs[k].want
    BY <1>b, <2>2
  <2>4. Ready(jobs'[k], backups', previous', staged')
    BY <1>0, <2>1, <2>3 DEF Ready
  <2> QED  BY <1>c, <2>1, <2>2, <2>4
<1>6. CASE BeginKeeping(k)
  <2>1. CASE At(k, "rebuild", "keep")
    <3>1. /\ UNCHANGED <<file, backups>> /\ Goes(k, "keeping", jobs[k].note)
      BY <1>6, <2>1 DEF BeginKeeping, At
    <3>2. jobs'[k].at = "keeping"
      BY <1>b, <3>1
    <3>3. Ready(jobs'[k], backups', previous', staged')
      BY <3>2, ReadyAt
    <3> QED  BY <1>c, <3>1, <3>3
  <2>2. CASE ~At(k, "rebuild", "keep")
    <3>1. /\ UNCHANGED <<file, backups, previous, staged>> /\ jobs[k].at = "keep" /\ kind = "rollback"
      BY <1>6, <2>2 DEF BeginKeeping, At, onDisk
    <3>2. PICK note : Goes(k, "copy", note)
      BY <1>6, <2>2 DEF BeginKeeping
    <3>3. jobs'[k].at = "copy" /\ jobs'[k].want = jobs[k].want
      BY <1>b, <3>2
    <3>4. Ready(jobs'[k], backups', previous', staged')
      BY <1>0, <3>1, <3>3 DEF Ready
    <3> QED  BY <1>c, <3>1, <3>2, <3>4
  <2> QED  BY <2>1, <2>2
<1>7. CASE FinishKeeping(k)
  <2>1. UNCHANGED <<file, backups>> /\ kind = "rebuild" /\ Goes(k, "copy", jobs[k].note)
    BY <1>7 DEF FinishKeeping, At
  <2>2. jobs'[k].at = "copy" /\ jobs'[k].want = jobs[k].want
    BY <1>b, <2>1
  <2>3. Ready(jobs'[k], backups', previous', staged')
    BY <2>1, <2>2, ReadyAt
  <2> QED  BY <1>c, <2>1, <2>3
<1>8. CASE BeginCopy(k)
  <2>1. UNCHANGED <<file, backups, previous>> /\ jobs[k].at = "copy" /\ Goes(k, "replace", jobs[k].note)
    BY <1>8 DEF BeginCopy, At
  <2>2. PICK f \in Source(k) :
          staged' = [staged EXCEPT ![StagingName(k)] =
                       [content |-> f.content, sound |-> f.whole, writer |-> jobs[k].want]]
    BY <1>8 DEF BeginCopy
  <2>3. f.whole = TRUE
    <3>1. CASE kind = "restore"
      <4>1. f \in Range(backups) /\ f.id = jobs[k].want.of
        BY <2>2, <3>1 DEF Source, Chosen
      <4>2. PICK i \in DOMAIN backups : f = backups[i]
        BY <4>1 DEF Range
      <4> QED  BY <1>0, <2>1, <3>1, <4>1, <4>2 DEF Ready
    <3>2. CASE kind = "rollback"
      <4>1. f = previous
        BY <2>2, <3>2 DEF Source
      <4> QED  BY <1>0, <2>1, <3>2, <4>1 DEF Ready
    <3>3. CASE kind \notin {"restore", "rollback"}
      BY <2>2, <3>3 DEF Source
    <3> QED  BY <3>1, <3>2, <3>3
  <2>4. jobs'[k].at = "replace" /\ jobs'[k].want = jobs[k].want
    BY <1>b, <2>1
  <2>5. StagingName(k) = StagingOf(jobs'[k]) /\ StagingName(k) \in DOMAIN staged
    BY <2>4, StagingNames DEF StagingName, StagingOf, DiskOK
  <2> DEFINE name == StagingName(k)
             what == [content |-> f.content, sound |-> f.whole, writer |-> jobs[k].want]
  <2>6. staged' = [staged EXCEPT ![name] = what] /\ what.sound = TRUE /\ what.writer = jobs[k].want
    BY <2>2, <2>3
  <2> HIDE DEF name, what
  <2>7. staged'[name] = what
    BY <2>5, <2>6 DEF name
  <2>8. Ready(jobs'[k], backups', previous', staged')
    BY <2>4, <2>5, <2>6, <2>7 DEF Ready, name
  <2> QED  BY <1>c, <2>1, <2>8
<1>9. CASE Replace(k)
  <2>1. /\ backups' = backups /\ jobs[k].at = "replace" /\ staged[StagingName(k)] # None
        /\ file' = Written(staged[StagingName(k)], jobs[k].want)
        /\ \/ \E outcome : Ends(k, outcome)
           \/ Goes(k, "open", jobs[k].note)
    BY <1>9 DEF Replace, At
  <2> DEFINE f == staged[StagingName(k)]
  <2>2. StagingName(k) = StagingOf(jobs[k]) /\ StagingName(k) \in DOMAIN staged
    BY StagingNames DEF StagingName, StagingOf, DiskOK
  <2>3. f.sound = TRUE /\ f.writer = jobs[k].want
    BY <1>0, <2>1, <2>2 DEF Ready, Replaces
  <2>4. IsFile(f) /\ f # None /\ file' = Written(f, jobs[k].want)
    BY <2>1, <2>2 DEF DiskOK
  <2> HIDE DEF f
  <2>5. file'.sound = TRUE /\ file'.writer = None
    BY <2>3, <2>4, WrittenIsFile
  <2>6. ASSUME Goes(k, "open", jobs[k].note) PROVE Ready(jobs'[k], backups', previous', staged')
    <3>1. jobs'[k].at = "open"
      BY <1>b, <2>6
    <3> QED  BY <3>1, ReadyAt
  <2> QED  BY <2>1, <2>5, <2>6 DEF GoesReady
<1>10. CASE FailReplace(k)
  <2>1. /\ backups' = backups /\ file' = Written(file, jobs[k].want)
        /\ \E outcome : Ends(k, outcome)
    BY <1>10 DEF FailReplace
  <2>2. file'.sound = TRUE /\ file'.writer = None
    BY <1>0, <2>1, WrittenIsFile DEF DiskOK
  <2> QED  BY <2>1, <2>2 DEF GoesReady
<1>11. CASE OpenAfterSwap(k) \/ OpenInstalled(k)
  BY <1>11, <1>a DEF OpenAfterSwap, OpenInstalled, onDisk
<1>12. CASE FetchPackage(k)
  <2>1. UNCHANGED <<file, backups>> /\ kind = "install"
    BY <1>12 DEF FetchPackage, At
  <2>2. \/ \E outcome : Ends(k, outcome)
        \/ \E note : Goes(k, "close", note)
    BY <1>12 DEF FetchPackage
  <2>3. ASSUME NEW note, Goes(k, "close", note) PROVE Ready(jobs'[k], backups', previous', staged')
    <3>1. jobs'[k].at = "close" /\ jobs'[k].want = jobs[k].want
      BY <1>b, <2>3
    <3> QED  BY <2>1, <3>1, ReadyAt
  <2> QED  BY <1>a, <1>c, <2>1, <2>2, <2>3
<1>13. CASE CloseForInstall(k)
  <2>1. UNCHANGED <<file, backups>> /\ kind = "install"
    BY <1>13 DEF CloseForInstall, At, onDisk
  <2>2. PICK note : Goes(k, "copy", note)
    BY <1>13 DEF CloseForInstall
  <2>3. jobs'[k].at = "copy" /\ jobs'[k].want = jobs[k].want
    BY <1>b, <2>2
  <2>4. Ready(jobs'[k], backups', previous', staged')
    BY <2>1, <2>3, ReadyAt
  <2> QED  BY <1>c, <2>1, <2>2, <2>4
<1> QED  BY <1>1, <1>2, <1>3, <1>4, <1>5, <1>6, <1>7, <1>8, <1>9, <1>10, <1>11, <1>12, <1>13
         DEF Work, UpdateWork

\* The file at the start is whole, and there is one snapshot.
LEMMA WholeHolds == DesktopInit => WholeInv
<1> SUFFICES ASSUME DesktopInit PROVE WholeInv
  OBVIOUS
<1> DEFINE b == [id |-> 1, content |-> 1, whole |-> TRUE]
<1>1. /\ jobs = <<>> /\ backups = <<b>>
      /\ file = [content |-> 2, sound |-> TRUE, writer |-> None]
  BY DEF DesktopInit, WindowInit, MInit, Init
<1> HIDE DEF b
<1>2. NamedOnce(backups)
  BY <1>1, OneSeq DEF NamedOnce
<1>3. DOMAIN jobs = {}
  BY <1>1, NoneSeq
<1> QED  BY <1>1, <1>2, <1>3 DEF WholeInv, Alone

\* A job takes a step.
LEMMA WorkIsWhole ==
  ASSUME Pool, DiskOK, WholeInv, tangled' = tangled, NEW k \in DOMAIN jobs, Work(k) \/ UpdateWork(k)
  PROVE  WholeInv'
<1>1. NamedOnce(backups')
  BY Rewriting, NamesKept DEF WholeInv
<1>2. ASSUME tangled = FALSE PROVE WholeInv'
  <2>1. CASE \/ RunCheck(k) \/ FinishCheck(k)
             \/ BeginBackup(k) \/ CompleteBackup(k) \/ FailBackup(k) \/ PruneBackups(k)
    BY <1>2, <2>1, CopyingIsWhole
  <2>2. CASE ~(\/ RunCheck(k) \/ FinishCheck(k)
               \/ BeginBackup(k) \/ CompleteBackup(k) \/ FailBackup(k) \/ PruneBackups(k))
    <3>0. Replaces(jobs[k])
      BY <2>2 DEF Work, UpdateWork, VerifyBackup, BuildCandidate, VerifyPrevious, CloseForSwap,
                  BeginKeeping, FinishKeeping, BeginCopy, Replace, FailReplace, OpenAfterSwap,
                  FetchPackage, CloseForInstall, OpenInstalled, At, Swaps, Replacing, Replaces
    <3>1. file'.sound = TRUE /\ file'.writer = None /\ GoesReady(k)
      BY <1>2, <3>0, ReplacingIsReady
    <3>2. Alone(jobs)
      BY <1>2 DEF WholeInv
    <3>3. \/ \E place, note : Goes(k, place, note)
          \/ jobs' = RemoveAt(jobs, k)
      BY <3>1 DEF GoesReady, Ends
    <3>4. Alone(jobs')
      BY <3>2, <3>3, Remaining
    <3>5. ASSUME NEW i \in DOMAIN jobs' PROVE Ready(jobs'[i], backups', previous', staged')
      <4>1. ASSUME NEW j \in DOMAIN jobs \ {k}, jobs'[i] = jobs[j]
            PROVE  Ready(jobs'[i], backups', previous', staged')
        <5>1. ~Replaces(jobs'[i])
          BY <3>0, <3>2, <4>1 DEF Alone
        <5> QED  BY <5>1, ReadyElse
      <4>2. CASE i = k /\ ~(jobs' = RemoveAt(jobs, k))
        BY <3>1, <4>2 DEF GoesReady, Ends
      <4> QED  BY <3>3, <4>1, <4>2, Remaining
    <3> QED  BY <1>1, <3>1, <3>4, <3>5 DEF WholeInv
  <2> QED  BY <2>1, <2>2
<1> QED  BY <1>1, <1>2 DEF WholeInv

\* The window leaves the disk alone.
LEMMA WindowIsWhole ==
  ASSUME Pool, WholeInv, UNCHANGED onDisk,
         tangled' = FALSE => tangled = FALSE,
         tangled' = FALSE => \/ Joined
                             \/ \E k \in DOMAIN jobs : Dropped(k)
                             \/ jobs' = <<>>
  PROVE  WholeInv'
<1>1. file' = file /\ backups' = backups /\ previous' = previous /\ staged' = staged
  BY DEF onDisk
<1>2. ASSUME tangled' = FALSE
      PROVE  Alone(jobs') /\ \A i \in DOMAIN jobs' : Ready(jobs'[i], backups', previous', staged')
  <2>0. Alone(jobs) /\ \A j \in DOMAIN jobs : Ready(jobs[j], backups, previous, staged)
    BY <1>2 DEF WholeInv
  <2>1. CASE jobs' = <<>>
    BY <2>1, NoneSeq DEF Alone
  <2>2. ASSUME NEW k \in DOMAIN jobs, Dropped(k)
        PROVE  Alone(jobs') /\ \A i \in DOMAIN jobs' : Ready(jobs'[i], backups', previous', staged')
    <3>1. jobs' = RemoveAt(jobs, k)
      BY <2>2 DEF Dropped
    <3> QED  BY <1>1, <2>0, <3>1, Remaining
  <2>3. CASE Joined
    <3>1. PICK K : Extended(K)
      BY <2>3 DEF Joined
    <3>2. \A i \in DOMAIN jobs : i \in DOMAIN jobs' /\ jobs'[i].want = jobs[i].want /\ jobs'[i].at = jobs[i].at
      BY <3>1, SeqDomain DEF Extended, Same, JobsOK, Pool
    <3>3. ASSUME NEW i \in DOMAIN jobs' PROVE Ready(jobs'[i], backups', previous', staged')
      <4>1. CASE i \in DOMAIN jobs
        <5>1. Ready(jobs[i], backups, previous, staged)
          BY <2>0, <4>1
        <5> QED  BY <1>1, <3>2, <4>1, <5>1 DEF Ready, Replaces, StagingOf
      <4>2. CASE i \notin DOMAIN jobs
        <5>1. jobs'[i].at = "start"
          BY <3>1, <4>2 DEF Extended, NewJob
        <5> QED  BY <5>1, ReadyAt
      <4> QED  BY <4>1, <4>2
    <3>4. Alone(jobs')
      <4>1. \A i \in DOMAIN jobs : Replaces(jobs'[i]) <=> Replaces(jobs[i])
        BY <3>2 DEF Replaces
      <4>2. CASE \A i \in DOMAIN jobs' \ DOMAIN jobs : ~Replaces(jobs'[i])
        BY <2>0, <4>1, <4>2 DEF Alone
      <4>3. CASE /\ \A k \in DOMAIN jobs : ~Replaces(jobs[k])
                 /\ \A i, j \in DOMAIN jobs' \ DOMAIN jobs : Replaces(jobs'[i]) /\ Replaces(jobs'[j]) => i = j
        BY <4>1, <4>3 DEF Alone
      <4> QED  BY <2>3, <4>2, <4>3 DEF Joined
    <3> QED  BY <3>3, <3>4
  <2> QED  BY <1>2, <2>1, <2>2, <2>3
<1> QED  BY <1>1, <1>2 DEF WholeInv

\* Every step keeps the file whole while one job at a time replaces it.
LEMMA WholeStays ==
  ASSUME Pool, DiskOK, PageInv, WholeInv, [DesktopNext]_desktop
  PROVE  WholeInv'
<1>1. ASSUME NEW k \in DOMAIN jobs, Work(k) \/ UpdateWork(k) PROVE WholeInv'
  <2>1. tangled' = tangled
    BY <1>1 DEF Work, UpdateWork, RunCheck, BeginBackup, CompleteBackup, FailBackup, PruneBackups,
              VerifyBackup, BuildCandidate, VerifyPrevious, CloseForSwap, BeginKeeping,
              FinishKeeping, BeginCopy, Replace, FailReplace, OpenAfterSwap, FinishCheck,
              FetchPackage, CloseForInstall, OpenInstalled, Behind, panel
  <2> QED  BY <1>1, <2>1, WorkIsWhole
<1>2. ASSUME NEW d \in DOMAIN backups, DeleteBackup(d) PROVE WholeInv'
  <2>1. /\ jobs' = jobs /\ file' = file /\ previous' = previous /\ staged' = staged
        /\ tangled' = tangled /\ backups' = RemoveAt(backups, d)
    BY <1>2 DEF DeleteBackup, panel
  <2>2. IsSeq(backups) /\ Len(backups) \in Nat /\ DOMAIN backups = 1 .. Len(backups)
    BY SeqDomain DEF DiskOK
  <2>3. \A i \in DOMAIN backups' : \E j \in DOMAIN backups : backups'[i] = backups[j]
    <3>1. DOMAIN backups' = 1 .. Len(backups) - 1
          /\ \A i \in DOMAIN backups' : backups'[i] = backups[IF i < d THEN i ELSE i + 1]
      BY <2>1, <2>2, RemoveOwn
    <3>2. \A i \in DOMAIN backups' : (IF i < d THEN i ELSE i + 1) \in DOMAIN backups
      BY <2>2, <3>1
    <3> QED  BY <3>1, <3>2
  <2>4. NamedOnce(backups')
    BY <2>1, NamesKept DEF WholeInv, Rewritten
  <2>5. ASSUME NEW j, Ready(j, backups, previous, staged)
        PROVE  Ready(j, backups', previous', staged')
    BY <2>1, <2>3, <2>5 DEF Ready
  <2> QED  BY <2>1, <2>4, <2>5 DEF WholeInv
<1>3. CASE /\ UNCHANGED onDisk
           /\ ~(\E k \in DOMAIN jobs : Work(k) \/ UpdateWork(k))
  BY <1>3, Joining, WindowIsWhole
<1> QED  BY <1>1, <1>2, <1>3, WindowLeaves

\* What is installed is whole at every step, and after a kill at any step, as long as one
\* job at a time replaces it: whatever was fetched, built, kept or restored before, and
\* however the backups, the deletions and the lookups interleave with it.
THEOREM InstalledIsWhole == DesktopSpec => []InstalledWhole
<1> DEFINE Inv == Pool /\ DiskOK /\ PageInv /\ WholeInv
<1>1. DesktopInit => Inv
  BY PoolHolds, DiskHolds, PageHolds, WholeHolds
<1>2. Inv /\ [DesktopNext]_desktop => Inv'
  BY PoolStays, DiskStays, PageStays, WholeStays
<1>3. Inv => InstalledWhole
  <2>1. ASSUME tangled \in BOOLEAN, ~tangled PROVE tangled = FALSE
    BY <2>1
  <2> QED  BY <2>1 DEF WholeInv, PageInv, InstalledWhole, Whole
<1> QED  BY <1>1, <1>2, <1>3, PTL DEF DesktopSpec

--------------------------------------------------------------------------------
\* The last whole snapshot

\* Jobs that end and snapshots that go, wherever they are, leave it so: r says which job
\* a job was, and q which snapshot a snapshot.
LEMMA ThinnedStays ==
  ASSUME SavedInv, tangled = FALSE, NEW r, NEW q,
         \A k \in DOMAIN jobs' : Saves(jobs'[k]) =>
           /\ r[k] \in DOMAIN jobs
           /\ jobs'[k].want = jobs[r[k]].want /\ jobs'[k].at = jobs[r[k]].at
           /\ jobs'[k].note = jobs[r[k]].note,
         \A k, l \in DOMAIN jobs' : Saves(jobs'[k]) /\ Saves(jobs'[l]) /\ r[k] = r[l] => k = l,
         Thinned(q),
         \A l \in DOMAIN jobs : Writes(jobs[l]) =>
           \/ \E k \in DOMAIN jobs' : Writes(jobs'[k]) /\ jobs'[k].note = jobs[l].note
           \/ \A i \in DOMAIN backups' : backups'[i].id # jobs[l].note
  PROVE  SavedInv'
<1>1. \A k \in DOMAIN jobs' : /\ Writes(jobs'[k]) => Writes(jobs[r[k]])
                              /\ Prunes(jobs'[k]) => Prunes(jobs[r[k]])
                              /\ Saves(jobs'[k]) => Saves(jobs[r[k]])
  BY DEF Writes, Prunes, Saves
<1>2. ASSUME NEW k \in DOMAIN jobs', NEW l \in DOMAIN jobs', Saves(jobs'[k]), Saves(jobs'[l]),
             jobs'[k].note = jobs'[l].note
      PROVE  k = l
  <2>1. /\ r[k] \in DOMAIN jobs /\ jobs'[k].note = jobs[r[k]].note /\ Saves(jobs[r[k]])
        /\ r[l] \in DOMAIN jobs /\ jobs'[l].note = jobs[r[l]].note /\ Saves(jobs[r[l]])
    BY <1>1, <1>2
  <2>2. jobs[r[k]].note = jobs[r[l]].note
    BY <1>2, <2>1
  <2>3. \A i, j \in DOMAIN jobs : Saves(jobs[i]) /\ Saves(jobs[j]) /\ jobs[i].note = jobs[j].note => i = j
    BY DEF SavedInv
  <2>4. r[k] = r[l]
    BY <2>1, <2>2, <2>3
  <2> QED  BY <1>2, <2>4
<1>3. ASSUME NEW k \in DOMAIN jobs', NEW i \in DOMAIN backups', Writes(jobs'[k]),
             backups'[i].id = jobs'[k].note
      PROVE  backups'[i].whole = FALSE
  <2>1. Saves(jobs'[k])
    BY <1>3 DEF Saves
  <2>2. /\ r[k] \in DOMAIN jobs /\ jobs'[k].note = jobs[r[k]].note /\ Writes(jobs[r[k]])
        /\ q[i] \in DOMAIN backups /\ backups'[i] = backups[q[i]]
    BY <1>1, <1>3, <2>1 DEF Thinned
  <2> QED  BY <1>3, <2>2 DEF SavedInv
<1>4. ASSUME NEW k \in DOMAIN jobs', NEW w \in DOMAIN backups', Prunes(jobs'[k]),
             backups'[w].id = jobs'[k].note
      PROVE  backups'[w].whole = TRUE /\ Above(jobs', backups', w)
  <2>1. Saves(jobs'[k])
    BY <1>4 DEF Saves
  <2>2. /\ r[k] \in DOMAIN jobs /\ jobs'[k].note = jobs[r[k]].note /\ Prunes(jobs[r[k]])
        /\ q[w] \in DOMAIN backups /\ backups'[w] = backups[q[w]]
    BY <1>1, <1>4, <2>1 DEF Thinned
  <2>3. backups[q[w]].whole = TRUE /\ Above(jobs, backups, q[w])
    BY <1>4, <2>2 DEF SavedInv
  <2>4. ASSUME NEW i \in 1 .. w - 1
        PROVE  \/ backups'[i].whole = TRUE
               \/ \E l \in DOMAIN jobs' : Writes(jobs'[l]) /\ jobs'[l].note = backups'[i].id
    <3>1. i \in DOMAIN backups' /\ q[i] \in 1 .. q[w] - 1 /\ backups'[i] = backups[q[i]]
      BY <2>4 DEF Thinned
    <3>2. \/ backups[q[i]].whole = TRUE
          \/ \E l \in DOMAIN jobs : Writes(jobs[l]) /\ jobs[l].note = backups[q[i]].id
      BY <2>3, <3>1 DEF Above
    <3>3. ASSUME NEW l \in DOMAIN jobs, Writes(jobs[l]), jobs[l].note = backups'[i].id
          PROVE  \E j \in DOMAIN jobs' : Writes(jobs'[j]) /\ jobs'[j].note = backups'[i].id
      BY <3>1, <3>3
    <3> QED  BY <3>1, <3>2, <3>3
  <2> QED  BY <2>2, <2>3, <2>4 DEF Above
<1> QED  BY <1>2, <1>3, <1>4 DEF SavedInv

\* Nothing, one or the oldest of the snapshots goes.
LEMMA Thinning ==
  ASSUME DiskOK,
         \/ backups' = backups
         \/ \E i \in DOMAIN backups : backups' = RemoveAt(backups, i)
         \/ backups' = Newest(backups, Retention)
  PROVE  \E q : Thinned(q)
<1>0. IsSeq(backups) /\ Len(backups) \in Nat /\ DOMAIN backups = 1 .. Len(backups)
  BY SeqDomain DEF DiskOK
<1>1. ASSUME NEW m \in Nat, m <= Len(backups), DOMAIN backups' = 1 .. m,
             \A i \in 1 .. m : backups'[i] = backups[i]
      PROVE  \E q : Thinned(q)
  <2> DEFINE q == [i \in 1 .. m |-> i]
  <2>1. \A i \in 1 .. m : q[i] = i
    OBVIOUS
  <2> HIDE DEF q
  <2>2. Thinned(q)
    BY <1>0, <1>1, <2>1 DEF Thinned
  <2> QED  BY <2>2
<1>2. CASE backups' = backups
  <2>1. Len(backups) <= Len(backups)
    BY <1>0
  <2>2. DOMAIN backups' = 1 .. Len(backups) /\ \A i \in 1 .. Len(backups) : backups'[i] = backups[i]
    BY <1>0, <1>2
  <2> QED  BY <1>0, <1>1, <2>1, <2>2
<1>3. CASE backups' = Newest(backups, Retention)
  <2> DEFINE m == IF Len(backups) < Retention THEN Len(backups) ELSE Retention
  <2>1. m \in Nat /\ m <= Len(backups)
    BY <1>0, MaintenanceAssumption
  <2> DEFINE rest == Newest(backups, Retention)
  <2>2. DOMAIN rest = 1 .. m /\ \A i \in DOMAIN rest : rest[i] = backups[i]
    BY <1>0, NewestOwn, MaintenanceAssumption
  <2>3. backups' = rest
    BY <1>3
  <2> HIDE DEF rest
  <2>4. DOMAIN backups' = 1 .. m /\ \A i \in 1 .. m : backups'[i] = backups[i]
    BY <2>2, <2>3
  <2> HIDE DEF m
  <2> QED  BY <1>1, <2>1, <2>4
<1>4. ASSUME NEW d \in DOMAIN backups, backups' = RemoveAt(backups, d)
      PROVE  \E q : Thinned(q)
  <2> DEFINE q == [i \in 1 .. Len(backups) - 1 |-> IF i < d THEN i ELSE i + 1]
  <2>1. DOMAIN backups' = 1 .. Len(backups) - 1
        /\ \A i \in DOMAIN backups' : backups'[i] = backups[IF i < d THEN i ELSE i + 1]
    BY <1>0, <1>4, RemoveOwn
  <2>2. \A i \in 1 .. Len(backups) - 1 : q[i] = IF i < d THEN i ELSE i + 1
    OBVIOUS
  <2> HIDE DEF q
  <2>3. \A i \in DOMAIN backups' : q[i] \in DOMAIN backups /\ backups'[i] = backups[q[i]]
    BY <1>0, <2>1, <2>2
  <2>4. \A w \in DOMAIN backups' : \A i \in 1 .. w - 1 :
          i \in DOMAIN backups' /\ q[i] \in 1 .. q[w] - 1
    BY <1>0, <2>1, <2>2
  <2> QED  BY <2>3, <2>4 DEF Thinned
<1> QED  BY <1>2, <1>3, <1>4

\* A job ends that writes no snapshot, or that takes what it wrote with it.
LEMMA JobGone ==
  ASSUME Pool, SavedInv, tangled = FALSE, NEW q, Thinned(q),
         NEW k \in DOMAIN jobs, jobs' = RemoveAt(jobs, k),
         Writes(jobs[k]) => \A i \in DOMAIN backups' : backups'[i].id # jobs[k].note
  PROVE  SavedInv'
<1>0. IsSeq(jobs) /\ Len(jobs) \in Nat /\ DOMAIN jobs = 1 .. Len(jobs)
  BY SeqDomain DEF Pool, JobsOK
<1> DEFINE r == [i \in 1 .. Len(jobs) - 1 |-> IF i < k THEN i ELSE i + 1]
<1>1. DOMAIN jobs' = 1 .. Len(jobs) - 1
      /\ \A i \in DOMAIN jobs' : jobs'[i] = jobs[IF i < k THEN i ELSE i + 1]
  BY <1>0, RemoveOwn
<1>2. \A i \in 1 .. Len(jobs) - 1 : r[i] = IF i < k THEN i ELSE i + 1
  OBVIOUS
<1> HIDE DEF r
<1>3. \A i \in DOMAIN jobs' : r[i] \in DOMAIN jobs /\ jobs'[i] = jobs[r[i]]
  BY <1>0, <1>1, <1>2
<1>4. \A i, j \in DOMAIN jobs' : r[i] = r[j] => i = j
  BY <1>0, <1>1, <1>2
<1>5. \A l \in DOMAIN jobs \ {k} : \E i \in DOMAIN jobs' : jobs'[i] = jobs[l]
  <2>1. ASSUME NEW l \in DOMAIN jobs \ {k} PROVE \E i \in DOMAIN jobs' : jobs'[i] = jobs[l]
    <3>1. CASE l < k
      BY <1>0, <1>1, <2>1, <3>1
    <3>2. CASE ~(l < k)
      <4>1. l - 1 \in DOMAIN jobs' /\ jobs'[l - 1] = jobs[l]
        BY <1>0, <1>1, <2>1, <3>2
      <4> QED  BY <4>1
    <3> QED  BY <3>1, <3>2
  <2> QED  BY <2>1
<1>6. \A l \in DOMAIN jobs : Writes(jobs[l]) =>
           \/ \E i \in DOMAIN jobs' : Writes(jobs'[i]) /\ jobs'[i].note = jobs[l].note
           \/ \A i \in DOMAIN backups' : backups'[i].id # jobs[l].note
  BY <1>5
<1> QED  BY <1>3, <1>4, <1>6, ThinnedStays

\* Every job stays where it is, and what is new saves nothing.
LEMMA JobsStay ==
  ASSUME SavedInv, tangled = FALSE, NEW q, Thinned(q),
         \A k \in DOMAIN jobs : Writes(jobs[k]) => k \in DOMAIN jobs',
         \A k \in DOMAIN jobs' : Saves(jobs'[k]) \/ (k \in DOMAIN jobs /\ Saves(jobs[k])) =>
           /\ k \in DOMAIN jobs
           /\ jobs'[k].want = jobs[k].want /\ jobs'[k].at = jobs[k].at
           /\ jobs'[k].note = jobs[k].note
  PROVE  SavedInv'
<1> DEFINE r == [i \in DOMAIN jobs' |-> i]
<1>1. \A i \in DOMAIN jobs' : r[i] = i
  OBVIOUS
<1> HIDE DEF r
<1>2. \A k \in DOMAIN jobs' : Saves(jobs'[k]) =>
           /\ r[k] \in DOMAIN jobs
           /\ jobs'[k].want = jobs[r[k]].want /\ jobs'[k].at = jobs[r[k]].at
           /\ jobs'[k].note = jobs[r[k]].note
  BY <1>1
<1>3. \A l \in DOMAIN jobs : Writes(jobs[l]) =>
           \E k \in DOMAIN jobs' : Writes(jobs'[k]) /\ jobs'[k].note = jobs[l].note
  BY DEF Writes, Saves
<1>4. \A k, l \in DOMAIN jobs' : Saves(jobs'[k]) /\ Saves(jobs'[l]) /\ r[k] = r[l] => k = l
  BY <1>1
<1>5. \A l \in DOMAIN jobs : Writes(jobs[l]) =>
           \/ \E k \in DOMAIN jobs' : Writes(jobs'[k]) /\ jobs'[k].note = jobs[l].note
           \/ \A i \in DOMAIN backups' : backups'[i].id # jobs[l].note
  BY <1>3
<1> QED  BY <1>2, <1>4, <1>5, ThinnedStays

\* A snapshot is begun: it is on top, with the one job that has its name in hand.
LEMMA BegunStays ==
  ASSUME Pool, DiskOK, SavedInv, tangled = FALSE, NEW k \in DOMAIN jobs, BeginBackup(k)
  PROVE  SavedInv'
<1> DEFINE n == FreshId
           b == [id |-> FreshId, content |-> file.content, whole |-> FALSE]
<1>0. IsSeq(backups) /\ Len(backups) \in Nat /\ DOMAIN backups = 1 .. Len(backups)
  BY SeqDomain DEF DiskOK
<1>1. /\ Goes(k, "copying", n) /\ backups' = <<b>> \o backups
      /\ jobs[k].want.ch[2] = "backup" /\ jobs[k].at = "start"
  BY DEF BeginBackup, At
<1>2. b.id = n /\ b.whole = FALSE
  OBVIOUS
<1>3. n \notin UsedIds
  BY FreshIsNew
<1> HIDE DEF n, b
<1>4. /\ \A i \in DOMAIN backups : backups[i].id # n
      /\ \A l \in DOMAIN jobs : Saves(jobs[l]) => jobs[l].note # n
  BY <1>3 DEF UsedIds, Range, Saves, Writes, Prunes
<1>5. /\ DOMAIN jobs' = DOMAIN jobs /\ \A l \in DOMAIN jobs \ {k} : jobs'[l] = jobs[l]
      /\ jobs'[k].note = n /\ Writes(jobs'[k]) /\ ~Prunes(jobs'[k]) /\ ~Saves(jobs[k])
  BY <1>1, Moved DEF Pool, Writes, Prunes, Saves
<1>6. /\ DOMAIN backups' = 1 .. Len(backups) + 1
      /\ backups'[1] = b
      /\ \A i \in DOMAIN backups' \ {1} : i - 1 \in DOMAIN backups /\ backups'[i] = backups[i - 1]
  <2> DEFINE v == <<b>> \o backups
  <2>1. /\ DOMAIN v = 1 .. Len(backups) + 1
        /\ v[1] = b
        /\ \A i \in DOMAIN v \ {1} : i - 1 \in DOMAIN backups /\ v[i] = backups[i - 1]
    BY <1>0, PutFirst
  <2>2. backups' = v
    BY <1>1
  <2> HIDE DEF v
  <2> QED  BY <2>1, <2>2
<1>7. ASSUME NEW l \in DOMAIN jobs', NEW m \in DOMAIN jobs', Saves(jobs'[l]), Saves(jobs'[m]),
             jobs'[l].note = jobs'[m].note
      PROVE  l = m
  <2>1. CASE l # k /\ m # k
    BY <1>5, <1>7, <2>1 DEF SavedInv
  <2>2. CASE l = k \/ m = k
    BY <1>4, <1>5, <1>7, <2>2
  <2> QED  BY <2>1, <2>2
<1>8. ASSUME NEW l \in DOMAIN jobs', NEW i \in DOMAIN backups', Writes(jobs'[l]),
             backups'[i].id = jobs'[l].note
      PROVE  backups'[i].whole = FALSE
  <2>1. CASE i = 1
    BY <1>2, <1>6, <2>1
  <2>2. CASE i # 1
    <3>1. i - 1 \in DOMAIN backups /\ backups'[i] = backups[i - 1]
      BY <1>6, <2>2
    <3>2. l # k
      BY <1>4, <1>5, <1>8, <3>1
    <3>3. l \in DOMAIN jobs /\ jobs'[l] = jobs[l]
      BY <1>5, <3>2
    <3>4. Writes(jobs[l]) /\ backups[i - 1].id = jobs[l].note
      BY <1>8, <3>1, <3>3
    <3> QED  BY <3>1, <3>3, <3>4 DEF SavedInv
  <2> QED  BY <2>1, <2>2
<1>9. ASSUME NEW l \in DOMAIN jobs', NEW w \in DOMAIN backups', Prunes(jobs'[l]),
             backups'[w].id = jobs'[l].note
      PROVE  backups'[w].whole = TRUE /\ Above(jobs', backups', w)
  <2>1. l # k /\ l \in DOMAIN jobs /\ jobs'[l] = jobs[l] /\ Saves(jobs[l])
    BY <1>5, <1>9 DEF Saves
  <2>2. w # 1
    BY <1>2, <1>4, <1>6, <1>9, <2>1
  <2>3. w - 1 \in DOMAIN backups /\ backups'[w] = backups[w - 1]
    BY <1>6, <2>2
  <2>4. Prunes(jobs[l]) /\ backups[w - 1].id = jobs[l].note
    BY <1>9, <2>1, <2>3
  <2>5. backups[w - 1].whole = TRUE /\ Above(jobs, backups, w - 1)
    BY <2>1, <2>3, <2>4 DEF SavedInv
  <2>6. ASSUME NEW i \in 1 .. w - 1
        PROVE  \/ backups'[i].whole = TRUE
               \/ \E j \in DOMAIN jobs' : Writes(jobs'[j]) /\ jobs'[j].note = backups'[i].id
    <3>1. CASE i = 1
      BY <1>2, <1>5, <1>6, <3>1
    <3>2. CASE i # 1
      <4>1. i \in DOMAIN backups' \ {1} /\ i - 1 \in 1 .. (w - 1) - 1
        BY <1>0, <1>6, <2>6, <3>2
      <4>2. backups'[i] = backups[i - 1]
        BY <1>6, <4>1
      <4>3. \/ backups[i - 1].whole = TRUE
            \/ \E j \in DOMAIN jobs : Writes(jobs[j]) /\ jobs[j].note = backups[i - 1].id
        BY <2>5, <4>1 DEF Above
      <4>4. ASSUME NEW j \in DOMAIN jobs, Writes(jobs[j]), jobs[j].note = backups[i - 1].id
            PROVE  \E m \in DOMAIN jobs' : Writes(jobs'[m]) /\ jobs'[m].note = backups'[i].id
        <5>1. j # k
          BY <1>5, <4>4 DEF Saves
        <5> QED  BY <1>5, <4>2, <4>4, <5>1
      <4> QED  BY <4>2, <4>3, <4>4
    <3> QED  BY <3>1, <3>2
  <2> QED  BY <2>3, <2>5, <2>6 DEF Above
<1> QED  BY <1>7, <1>8, <1>9 DEF SavedInv

\* A snapshot is complete: it is whole and on top.
LEMMA CompletedStays ==
  ASSUME Pool, DiskOK, NamedOnce(backups), SavedInv, tangled = FALSE, file.sound = TRUE,
         NEW k \in DOMAIN jobs, CompleteBackup(k)
  PROVE  SavedInv'
<1>0. IsSeq(backups) /\ Len(backups) \in Nat /\ DOMAIN backups = 1 .. Len(backups)
  BY SeqDomain DEF DiskOK
<1> DEFINE n == jobs[k].note
<1>1. PICK d \in DOMAIN backups :
        /\ backups[d].id = n
        /\ backups' = <<[backups[d] EXCEPT !.whole = file.sound]>> \o RemoveAt(backups, d)
  BY DEF CompleteBackup
<1>2. Goes(k, "pruning", n) /\ Writes(jobs[k])
  BY DEF CompleteBackup, At, Writes
<1> DEFINE b    == [backups[d] EXCEPT !.whole = file.sound]
           rest == RemoveAt(backups, d)
           r(i) == IF i < d THEN i ELSE i + 1
<1>3. b.id = n /\ b.whole = TRUE
  <2>1. backups[d] = [id |-> backups[d].id, content |-> backups[d].content, whole |-> backups[d].whole]
    BY DEF DiskOK, IsBackup
  <2> QED  BY <1>1, <2>1
<1>4. /\ IsSeq(rest) /\ Len(rest) = Len(backups) - 1 /\ DOMAIN rest = 1 .. Len(backups) - 1
      /\ \A i \in DOMAIN rest : rest[i] = backups[r(i)]
  BY <1>0, RemoveOwn
<1>5. backups' = <<b>> \o rest
  BY <1>1
<1> HIDE DEF b, rest
<1>6. /\ DOMAIN backups' = 1 .. Len(backups)
      /\ backups'[1] = b
      /\ \A i \in DOMAIN backups' \ {1} : i - 1 \in DOMAIN rest /\ backups'[i] = rest[i - 1]
  <2> DEFINE v == <<b>> \o rest
  <2>1. /\ DOMAIN v = 1 .. Len(rest) + 1
        /\ v[1] = b
        /\ \A i \in DOMAIN v \ {1} : i - 1 \in DOMAIN rest /\ v[i] = rest[i - 1]
    BY <1>4, PutFirst
  <2>2. backups' = v
    BY <1>5
  <2> HIDE DEF v
  <2>3. Len(rest) + 1 = Len(backups)
    BY <1>0, <1>4
  <2> QED  BY <2>1, <2>2, <2>3
<1>7. \A i \in DOMAIN backups' \ {1} :
        r(i - 1) \in DOMAIN backups \ {d} /\ backups'[i] = backups[r(i - 1)]
  <2>1. \A i \in DOMAIN rest : r(i) \in DOMAIN backups \ {d}
    BY <1>0, <1>4
  <2> HIDE DEF r
  <2> QED  BY <1>4, <1>6, <2>1
<1>8. \A i, w \in DOMAIN backups' \ {1} : i < w => r(i - 1) \in 1 .. r(w - 1) - 1
  BY <1>0, <1>6
<1> HIDE DEF r
<1>9. \A i \in DOMAIN backups' \ {1} : backups'[i].id # n
  BY <1>1, <1>7 DEF NamedOnce
<1>10. /\ DOMAIN jobs' = DOMAIN jobs /\ \A l \in DOMAIN jobs \ {k} : jobs'[l] = jobs[l]
       /\ jobs'[k].note = n /\ ~Writes(jobs'[k]) /\ Saves(jobs[k])
  BY <1>2, Moved DEF Pool, Writes, Saves
<1>11. \A l \in DOMAIN jobs \ {k} : Saves(jobs[l]) => jobs[l].note # n
  BY <1>10 DEF SavedInv
<1> HIDE DEF n
<1>12. ASSUME NEW l \in DOMAIN jobs', NEW m \in DOMAIN jobs', Saves(jobs'[l]), Saves(jobs'[m]),
              jobs'[l].note = jobs'[m].note
       PROVE  l = m
  <2>1. CASE l # k /\ m # k
    BY <1>10, <1>12, <2>1 DEF SavedInv
  <2>2. CASE l = k \/ m = k
    BY <1>10, <1>11, <1>12, <2>2
  <2> QED  BY <2>1, <2>2
<1>13. ASSUME NEW l \in DOMAIN jobs', NEW i \in DOMAIN backups', Writes(jobs'[l]),
              backups'[i].id = jobs'[l].note
       PROVE  backups'[i].whole = FALSE
  <2>1. l # k /\ l \in DOMAIN jobs /\ jobs'[l] = jobs[l] /\ Saves(jobs[l])
    BY <1>10, <1>13 DEF Saves
  <2>2. i # 1
    BY <1>3, <1>6, <1>11, <1>13, <2>1
  <2>3. r(i - 1) \in DOMAIN backups /\ backups'[i] = backups[r(i - 1)]
    BY <1>7, <2>2
  <2> QED  BY <1>13, <2>1, <2>3 DEF SavedInv
<1>14. ASSUME NEW l \in DOMAIN jobs', NEW w \in DOMAIN backups', Prunes(jobs'[l]),
              backups'[w].id = jobs'[l].note
       PROVE  backups'[w].whole = TRUE /\ Above(jobs', backups', w)
  <2>1. CASE w = 1
    <3>1. \A i \in 1 .. w - 1 : FALSE
      BY <2>1
    <3> QED  BY <1>3, <1>6, <2>1, <3>1 DEF Above
  <2>2. CASE w # 1
    <3>1. l # k
      BY <1>9, <1>10, <1>14, <2>2
    <3>2. l \in DOMAIN jobs /\ jobs'[l] = jobs[l] /\ Prunes(jobs[l])
      BY <1>10, <1>14, <3>1
    <3> DEFINE o == r(w - 1)
    <3>3. o \in DOMAIN backups /\ backups'[w] = backups[o]
      BY <1>7, <2>2
    <3>4. backups[o].whole = TRUE /\ Above(jobs, backups, o)
      BY <1>14, <3>2, <3>3 DEF SavedInv
    <3>5. ASSUME NEW i \in 1 .. w - 1
          PROVE  \/ backups'[i].whole = TRUE
                 \/ \E j \in DOMAIN jobs' : Writes(jobs'[j]) /\ jobs'[j].note = backups'[i].id
      <4>1. CASE i = 1
        BY <1>3, <1>6, <4>1
      <4>2. CASE i # 1
        <5>1. i \in DOMAIN backups' \ {1} /\ w \in DOMAIN backups' \ {1} /\ i < w
          BY <1>0, <1>6, <2>2, <3>5, <4>2
        <5>2. r(i - 1) \in 1 .. o - 1 /\ backups'[i] = backups[r(i - 1)]
          BY <1>7, <1>8, <5>1
        <5>3. \/ backups'[i].whole = TRUE
              \/ \E j \in DOMAIN jobs : Writes(jobs[j]) /\ jobs[j].note = backups'[i].id
          BY <3>4, <5>2 DEF Above
        <5>4. ASSUME NEW j \in DOMAIN jobs, Writes(jobs[j]), jobs[j].note = backups'[i].id
              PROVE  \E m \in DOMAIN jobs' : Writes(jobs'[m]) /\ jobs'[m].note = backups'[i].id
          <6>1. j # k
            BY <1>9, <5>1, <5>4 DEF n
          <6> QED  BY <1>10, <5>4, <6>1
        <5> QED  BY <5>3, <5>4
      <4> QED  BY <4>1, <4>2
    <3> QED  BY <3>3, <3>4, <3>5 DEF Above
  <2> QED  BY <2>1, <2>2
<1> QED  BY <1>12, <1>13, <1>14 DEF SavedInv

\* No job saves anything at the start.
LEMMA SavedHolds == DesktopInit => SavedInv
<1> SUFFICES ASSUME DesktopInit PROVE SavedInv
  OBVIOUS
<1>1. DOMAIN jobs = {}
  BY NoneSeq DEF DesktopInit, WindowInit, MInit, Init
<1> QED  BY <1>1 DEF SavedInv

\* A job takes a step.
LEMMA WorkSaves ==
  ASSUME Pool, DiskOK, WholeInv, SavedInv, tangled = FALSE,
         NEW k \in DOMAIN jobs, Work(k) \/ UpdateWork(k)
  PROVE  SavedInv'
<1>0. NamedOnce(backups) /\ file.sound = TRUE
  BY DEF WholeInv
<1>1. CASE BeginBackup(k)
  BY <1>1, BegunStays
<1>2. CASE CompleteBackup(k)
  BY <1>0, <1>2, CompletedStays
<1>3. CASE FailBackup(k)
  <2>1. jobs' = RemoveAt(jobs, k)
    BY <1>3 DEF FailBackup, Ends
  <2>2. ASSUME NEW d \in DOMAIN backups, backups[d].id = jobs[k].note, backups' = RemoveAt(backups, d)
        PROVE  SavedInv'
    <3>1. PICK q : Thinned(q)
      BY <2>2, Thinning
    <3>2. IsSeq(backups) /\ Len(backups) \in Nat /\ DOMAIN backups = 1 .. Len(backups)
      BY SeqDomain DEF DiskOK
    <3>3. DOMAIN backups' = 1 .. Len(backups) - 1
          /\ \A i \in DOMAIN backups' : backups'[i] = backups[IF i < d THEN i ELSE i + 1]
      BY <2>2, <3>2, RemoveOwn
    <3>4. \A i \in DOMAIN backups' : (IF i < d THEN i ELSE i + 1) \in DOMAIN backups \ {d}
      BY <3>2, <3>3
    <3>5. \A i \in DOMAIN backups' : \E j \in DOMAIN backups \ {d} : backups'[i] = backups[j]
      BY <3>3, <3>4
    <3>6. \A i \in DOMAIN backups' : backups'[i].id # jobs[k].note
      BY <1>0, <2>2, <3>5 DEF NamedOnce
    <3> QED  BY <2>1, <3>1, <3>6, JobGone
  <2>3. CASE backups' = backups /\ \A i \in DOMAIN backups : backups[i].id # jobs[k].note
    <3>1. PICK q : Thinned(q)
      BY <2>3, Thinning
    <3> QED  BY <2>1, <2>3, <3>1, JobGone
  <2> QED  BY <1>3, <2>2, <2>3 DEF FailBackup
<1>4. CASE PruneBackups(k)
  <2>1. jobs' = RemoveAt(jobs, k) /\ jobs[k].at = "pruning" /\ backups' = Newest(backups, Retention)
    BY <1>4 DEF PruneBackups, Ends, At, Pruned
  <2>2. PICK q : Thinned(q)
    BY <2>1, Thinning
  <2>3. ~Writes(jobs[k])
    BY <2>1 DEF Writes
  <2> QED  BY <2>1, <2>2, <2>3, JobGone
<1>5. CASE ~(BeginBackup(k) \/ CompleteBackup(k) \/ FailBackup(k) \/ PruneBackups(k))
  <2>1. backups' = backups /\ jobs[k].want.ch[2] # "backup"
    BY <1>5 DEF Work, UpdateWork, RunCheck, VerifyBackup, BuildCandidate, VerifyPrevious, CloseForSwap,
                BeginKeeping, FinishKeeping, BeginCopy, Replace, FailReplace, OpenAfterSwap,
                FinishCheck, FetchPackage, CloseForInstall, OpenInstalled, onDisk, At, Checks, Swaps,
                Replacing
  <2>2. PICK q : Thinned(q)
    BY <2>1, Thinning
  <2>3. ~Saves(jobs[k]) /\ ~Writes(jobs[k])
    BY <2>1 DEF Saves, Writes, Prunes
  <2>4. ASSUME NEW place, NEW note, Goes(k, place, note) PROVE SavedInv'
    <3>1. /\ DOMAIN jobs' = DOMAIN jobs /\ \A l \in DOMAIN jobs \ {k} : jobs'[l] = jobs[l]
          /\ jobs'[k].want = jobs[k].want
      BY <2>4, Moved DEF Pool
    <3>2. ~Saves(jobs'[k])
      BY <2>1, <3>1 DEF Saves, Writes, Prunes
    <3> QED  BY <2>2, <2>3, <3>1, <3>2, JobsStay
  <2>5. CASE jobs' = RemoveAt(jobs, k)
    BY <2>2, <2>3, <2>5, JobGone
  <2> QED  BY <2>4, <2>5, Working DEF GoesOn, EndsWith, Ends
<1> QED  BY <1>1, <1>2, <1>3, <1>4, <1>5

\* Every step keeps what the jobs save in order.
LEMMA SavedStays ==
  ASSUME Pool, DiskOK, PageInv, WholeInv, SavedInv, [DesktopNext]_desktop
  PROVE  SavedInv'
<1> SUFFICES ASSUME tangled' = FALSE PROVE SavedInv'
  BY DEF SavedInv
<1>0. tangled = FALSE
  BY Joining
<1>1. ASSUME NEW k \in DOMAIN jobs, Work(k) \/ UpdateWork(k) PROVE SavedInv'
  BY <1>0, <1>1, WorkSaves
<1>2. ASSUME NEW d \in DOMAIN backups, DeleteBackup(d) PROVE SavedInv'
  <2>1. jobs' = jobs /\ backups' = RemoveAt(backups, d)
    BY <1>2 DEF DeleteBackup
  <2>2. PICK q : Thinned(q)
    BY <2>1, Thinning
  <2> QED  BY <1>0, <2>1, <2>2, JobsStay
<1>3. CASE UNCHANGED onDisk
  <2>1. backups' = backups
    BY <1>3 DEF onDisk
  <2>2. PICK q : Thinned(q)
    BY <2>1, Thinning
  <2>3. CASE jobs' = <<>>
    <3>1. DOMAIN jobs' = {}
      BY <2>3, NoneSeq
    <3> QED  BY <3>1 DEF SavedInv
  <2>4. ASSUME NEW k \in DOMAIN jobs, Dropped(k) PROVE SavedInv'
    <3>1. jobs' = RemoveAt(jobs, k) /\ ~Writes(jobs[k])
      BY <2>4 DEF Dropped, Writes
    <3> QED  BY <1>0, <2>2, <3>1, JobGone
  <2>5. CASE Joined
    <3>1. PICK K : Extended(K)
      BY <2>5 DEF Joined
    <3>2. \A i \in DOMAIN jobs : /\ i \in DOMAIN jobs' /\ jobs'[i].want = jobs[i].want
                                  /\ jobs'[i].at = jobs[i].at /\ jobs'[i].note = jobs[i].note
      BY <3>1, SeqDomain DEF Extended, Same, JobsOK, Pool
    <3>3. \A i \in DOMAIN jobs' \ DOMAIN jobs : ~Saves(jobs'[i])
      BY <3>1 DEF Extended, NewJob, Saves, Writes, Prunes
    <3> QED  BY <1>0, <2>2, <3>2, <3>3, JobsStay
  <2> QED  BY <1>1, <2>3, <2>4, <2>5, Joining
<1> QED  BY <1>1, <1>2, <1>3, WindowLeaves

\* While fewer snapshots are being written than are kept, what is kept has a whole one.
LEMMA KeptIsWhole ==
  ASSUME Pool, DiskOK, WholeInv, SavedInv, tangled = FALSE, life # "closed",
         NEW k \in DOMAIN jobs, Prunes(jobs[k]),
         NEW w \in DOMAIN backups, backups[w].id = jobs[k].note,
         Cardinality(Copying) < Retention
  PROVE  \E i \in DOMAIN backups : i <= Retention /\ backups[i].whole = TRUE
<1>0. /\ IsSeq(backups) /\ Len(backups) \in Nat /\ DOMAIN backups = 1 .. Len(backups)
      /\ Retention \in Nat \ {0}
      /\ JobsOK(jobs) /\ Len(jobs) \in Nat /\ DOMAIN jobs = 1 .. Len(jobs)
  BY SeqDomain, MaintenanceAssumption DEF DiskOK, Pool, JobsOK
<1>1. backups[w].whole = TRUE /\ Above(jobs, backups, w)
  BY DEF SavedInv
<1> SUFFICES ASSUME \A i \in DOMAIN backups : i <= Retention => ~(backups[i].whole = TRUE) PROVE FALSE
  OBVIOUS
<1>2. w > Retention
  BY <1>0, <1>1
<1> DEFINE S == 1 .. Retention
           f == [i \in S |-> CHOOSE l \in Copying : jobs[l].note = backups[i].id]
<1>3. \A i \in S : \E l \in Copying : jobs[l].note = backups[i].id
  <2>1. ASSUME NEW i \in S PROVE \E l \in Copying : jobs[l].note = backups[i].id
    <3>1. i \in DOMAIN backups /\ i <= Retention /\ i \in 1 .. w - 1
      BY <1>0, <1>2
    <3>2. PICK l \in DOMAIN jobs : Writes(jobs[l]) /\ jobs[l].note = backups[i].id
      BY <1>1, <3>1 DEF Above
    <3>3. jobs[l].begun
      BY <1>0, <3>2 DEF JobsOK, JobOK, Writes
    <3>4. l \in Copying
      BY <3>2, <3>3 DEF Copying, At, Writes
    <3> QED  BY <3>2, <3>4
  <2> QED  BY <2>1
<1>4. \A i \in S : f[i] \in Copying /\ jobs[f[i]].note = backups[i].id
  BY <1>3
<1>5. f \in [S -> Copying]
  BY <1>3
<1> HIDE DEF f
<1>6. \A i, j \in S : f[i] = f[j] => i = j
  <2>1. ASSUME NEW i \in S, NEW j \in S, f[i] = f[j] PROVE i = j
    <3>1. i \in DOMAIN backups /\ j \in DOMAIN backups
      BY <1>0, <1>2
    <3>2. backups[i].id = backups[j].id
      BY <1>4, <2>1
    <3> QED  BY <3>1, <3>2 DEF WholeInv, NamedOnce
  <2> QED  BY <2>1
<1>7. f \in Injection(S, Copying)
  BY <1>5, <1>6 DEF Injection, IsInjective
<1>8. IsFiniteSet(Copying)
  <2>1. IsFiniteSet(1 .. Len(jobs))
    BY <1>0, FS_Interval
  <2>2. Copying \subseteq 1 .. Len(jobs)
    BY <1>0 DEF Copying
  <2> QED  BY <2>1, <2>2, FS_Subset
<1>9. Cardinality(S) <= Cardinality(Copying)
  BY <1>7, <1>8, FS_Injection
<1>10. Cardinality(S) = Retention /\ Cardinality(Copying) \in Nat
  BY <1>0, <1>8, FS_Interval, FS_CardinalityType
<1> QED  BY <1>0, <1>9, <1>10

\* No step but a deletion takes the last whole snapshot.
LEMMA WholeIsLeft ==
  ASSUME Pool, DiskOK, PageInv, WholeInv, SavedInv, [DesktopNext]_desktop,
         \E b \in Range(backups) : b.whole, ~(\E i \in DOMAIN backups : DeleteBackup(i)),
         ~tangled, ~Bereft, Cardinality(Copying) < Retention
  PROVE  \E b \in Range(backups') : b.whole
<1>0. /\ IsSeq(backups) /\ Len(backups) \in Nat /\ DOMAIN backups = 1 .. Len(backups)
      /\ Retention \in Nat \ {0} /\ tangled = FALSE
  BY SeqDomain, MaintenanceAssumption DEF DiskOK, PageInv
<1>a. ASSUME NEW i \in DOMAIN backups', backups'[i].whole PROVE \E b \in Range(backups') : b.whole
  BY <1>a DEF Range
<1>b. PICK o \in DOMAIN backups : backups[o].whole
  BY DEF Range
<1>1. CASE backups' = backups
  BY <1>1
<1>2. ASSUME NEW k \in DOMAIN jobs, BeginBackup(k) PROVE \E b \in Range(backups') : b.whole
  <2> DEFINE b == [id |-> FreshId, content |-> file.content, whole |-> FALSE]
             v == <<b>> \o backups
  <2>1. backups' = v
    BY <1>2 DEF BeginBackup
  <2> HIDE DEF b
  <2>2. /\ DOMAIN v = 1 .. Len(backups) + 1
        /\ \A i \in DOMAIN v \ {1} : v[i] = backups[i - 1]
    BY <1>0, PutFirst
  <2> HIDE DEF v
  <2>3. o + 1 \in DOMAIN v \ {1} /\ (o + 1) - 1 = o
    BY <1>0, <1>b, <2>2
  <2>4. v[o + 1] = backups[o]
    BY <2>2, <2>3
  <2> QED  BY <1>a, <1>b, <2>1, <2>3, <2>4
<1>3. ASSUME NEW k \in DOMAIN jobs, CompleteBackup(k) PROVE \E b \in Range(backups') : b.whole
  <2>1. PICK d \in DOMAIN backups :
          backups' = <<[backups[d] EXCEPT !.whole = file.sound]>> \o RemoveAt(backups, d)
    BY <1>3 DEF CompleteBackup
  <2> DEFINE b == [backups[d] EXCEPT !.whole = file.sound]
             rest == RemoveAt(backups, d)
             v == <<b>> \o rest
  <2>2. b.whole = TRUE
    <3>1. backups[d] = [id |-> backups[d].id, content |-> backups[d].content, whole |-> backups[d].whole]
      BY DEF DiskOK, IsBackup
    <3>2. file.sound = TRUE
      BY <1>0 DEF WholeInv
    <3> QED  BY <3>1, <3>2
  <2>3. IsSeq(rest)
    BY <1>0, RemoveOwn
  <2>4. backups' = v
    BY <2>1
  <2> HIDE DEF b, rest
  <2>5. DOMAIN v = 1 .. Len(rest) + 1 /\ v[1] = b /\ Len(rest) \in Nat
    BY <2>3, PutFirst, SeqDomain
  <2> HIDE DEF v
  <2>6. 1 \in DOMAIN backups' /\ backups'[1].whole
    BY <2>2, <2>4, <2>5
  <2> QED  BY <1>a, <2>6
<1>4. ASSUME NEW k \in DOMAIN jobs, FailBackup(k) PROVE \E b \in Range(backups') : b.whole
  <2>1. Writes(jobs[k])
    BY <1>4 DEF FailBackup, At, Writes
  <2>2. ASSUME NEW d \in DOMAIN backups, backups[d].id = jobs[k].note, backups' = RemoveAt(backups, d)
        PROVE  \E b \in Range(backups') : b.whole
    <3>1. backups[d].whole = FALSE
      BY <1>0, <2>1, <2>2 DEF SavedInv
    <3>2. o # d
      BY <1>b, <3>1
    <3>3. DOMAIN backups' = 1 .. Len(backups) - 1
          /\ \A i \in DOMAIN backups' : backups'[i] = backups[IF i < d THEN i ELSE i + 1]
      BY <1>0, <2>2, RemoveOwn
    <3>4. CASE o < d
      <4>1. o \in DOMAIN backups' /\ backups'[o] = backups[o]
        BY <1>0, <3>3, <3>4
      <4> QED  BY <1>a, <1>b, <4>1
    <3>5. CASE ~(o < d)
      <4>1. o - 1 \in DOMAIN backups' /\ ~(o - 1 < d) /\ (o - 1) + 1 = o
        BY <1>0, <3>2, <3>3, <3>5
      <4>2. backups'[o - 1] = backups[o]
        BY <3>3, <4>1
      <4> QED  BY <1>a, <1>b, <4>1, <4>2
    <3> QED  BY <3>4, <3>5
  <2> QED  BY <1>1, <1>4, <2>2 DEF FailBackup
<1>5. ASSUME NEW k \in DOMAIN jobs, PruneBackups(k) PROVE \E b \in Range(backups') : b.whole
  <2>1. /\ At(k, "backup", "pruning") /\ Prunes(jobs[k]) /\ life # "closed"
        /\ backups' = Newest(backups, Retention)
    BY <1>5 DEF PruneBackups, At, Prunes, Pruned
  <2>2. PICK w \in DOMAIN backups : backups[w].id = jobs[k].note
    BY <2>1 DEF Bereft, Range
  <2>3. PICK i \in DOMAIN backups : i <= Retention /\ backups[i].whole = TRUE
    BY <1>0, <2>1, <2>2, KeptIsWhole
  <2> DEFINE rest == Newest(backups, Retention)
  <2>4. /\ DOMAIN rest = 1 .. (IF Len(backups) < Retention THEN Len(backups) ELSE Retention)
        /\ \A j \in DOMAIN rest : rest[j] = backups[j]
    BY <1>0, NewestOwn
  <2>5. backups' = rest
    BY <2>1
  <2> HIDE DEF rest
  <2>6. i \in DOMAIN rest
    BY <1>0, <2>3, <2>4
  <2>7. i \in DOMAIN backups' /\ backups'[i].whole
    BY <2>3, <2>4, <2>5, <2>6
  <2> QED  BY <1>a, <2>7
<1>6. ASSUME NEW k \in DOMAIN jobs, Work(k) \/ UpdateWork(k),
             ~(BeginBackup(k) \/ CompleteBackup(k) \/ FailBackup(k) \/ PruneBackups(k))
      PROVE  backups' = backups
  BY <1>6 DEF Work, UpdateWork, RunCheck, VerifyBackup, BuildCandidate, VerifyPrevious, CloseForSwap,
              BeginKeeping, FinishKeeping, BeginCopy, Replace, FailReplace, OpenAfterSwap,
              FinishCheck, FetchPackage, CloseForInstall, OpenInstalled, onDisk
<1>7. CASE UNCHANGED onDisk
  BY <1>1, <1>7 DEF onDisk
<1> QED  BY <1>1, <1>2, <1>3, <1>4, <1>5, <1>6, <1>7, WindowLeaves

\* Retention never costs the last whole snapshot, although it counts the ones that are being
\* written and the ones that a kill left half written: only a deletion can, or as many
\* backups at once as are kept, or a job that prunes after its own snapshot was deleted.
THEOREM SnapshotsSurvive == DesktopSpec => SnapshotSurvives
<1> DEFINE Inv == Pool /\ DiskOK /\ PageInv /\ WholeInv /\ SavedInv
           Kept == (/\ \E b \in Range(backups) : b.whole
                    /\ ~(\E i \in DOMAIN backups : DeleteBackup(i))
                    /\ ~tangled /\ ~Bereft /\ Cardinality(Copying) < Retention)
                     => \E b \in Range(backups') : b.whole
<1>1. DesktopInit => Inv
  BY PoolHolds, DiskHolds, PageHolds, WholeHolds, SavedHolds
<1>2. Inv /\ [DesktopNext]_desktop => Inv'
  BY PoolStays, DiskStays, PageStays, WholeStays, SavedStays
<1>3. Inv /\ [DesktopNext]_desktop => [Kept]_all
  BY WholeIsLeft
<1> QED  BY <1>1, <1>2, <1>3, PTL DEF DesktopSpec, SnapshotSurvives
--------------------------------------------------------------------------------
\* The way out

\* A step of the window, by what it does to the pool.
LEMMA StepsOfPool ==
  ASSUME Pool, [DesktopNext]_desktop
  PROVE  \/ Lookups
         \/ \E K : Extended(K) /\ life = "running" /\ life' = life
         \/ \E k \in DOMAIN jobs : Work(k) \/ UpdateWork(k)
         \/ jobs' = <<>> /\ jobs = <<>> /\ life = "closed" /\ life' = "running"
         \/ jobs' = <<>> /\ life = "running" /\ life' = "closed"
         \/ jobs' = jobs /\ life' = life
<1> DEFINE Asking == \E K : Extended(K) /\ life = "running" /\ life' = life
<1>1. ASSUME MaintenanceActs PROVE Asking
  BY <1>1, UserMaintains DEF MaintenanceActs
<1>2. ASSUME DeliverJob PROVE Asking
  BY <1>2, JobAnswered, JobBegun
<1>3. CASE Kill
  BY <1>3 DEF Kill
<1>4. CASE Restart
  BY <1>4 DEF Restart, Pool
<1>5. ASSUME ReportActs PROVE Asking
  BY <1>5, UserReports
<1>6. CASE DeliverValues
  BY <1>6 DEF DeliverValues
<1>7. CASE Build
  BY <1>7 DEF Build, Acting
<1>8. ASSUME UpdateActs PROVE Asking
  BY <1>8, UserUpdates DEF UpdateActs
<1>9. ASSUME DeliverUpdate PROVE Asking
  BY <1>9, UpdateAnswered
<1>10. CASE UNCHANGED desktop
  BY <1>10 DEF desktop, window, all, vars
<1> QED  BY <1>1, <1>2, <1>3, <1>4, <1>5, <1>6, <1>7, <1>8, <1>9, <1>10
         DEF DesktopNext, WindowNext, Next, ReportActs, MaintenanceActs, UpdateActs

\* Of what the pages do, only the pool goes on when the window has been closed.
LEMMA LookupsOfPool ==
  ASSUME Pool, Lookups
  PROVE  \/ \E k \in DOMAIN jobs : Start(k) \/ Finish(k)
         \/ \E K : Extended(K) /\ life = "running" /\ life' = life
         \/ CloseWindow
         \/ jobs' = <<>> /\ life' = "closed"
<1>1. ASSUME Deliver PROVE \E K : Extended(K) /\ life = "running" /\ life' = life
  <2>1. Handle(Head(inbox)) /\ life' = life /\ life = "running"
    BY <1>1 DEF Deliver
  <2> QED  BY <2>1, Answering
<1>2. CASE Teardown
  BY <1>2 DEF Teardown
<1> QED  BY <1>1, <1>2, UserLooks DEF Lookups
\* Whoever ends leaves the others in their order.
LEMMA OrderLeft ==
  ASSUME Pool, First, life' = life, NEW k \in DOMAIN jobs, jobs' = RemoveAt(jobs, k)
  PROVE  /\ First'
         /\ \A i \in DOMAIN jobs' : \E j \in DOMAIN jobs : jobs'[i] = jobs[j]
         /\ \A i \in DOMAIN jobs' : jobs'[i].begun => i \in DOMAIN jobs /\ jobs[i].begun
<1>1. IsSeq(jobs) /\ Len(jobs) \in Nat /\ DOMAIN jobs = 1 .. Len(jobs)
  BY SeqDomain DEF Pool, JobsOK
<1>2. /\ DOMAIN jobs' = 1 .. Len(jobs) - 1
      /\ \A i \in DOMAIN jobs' : jobs'[i] = jobs[IF i < k THEN i ELSE i + 1]
  BY <1>1, RemoveOwn
<1> DEFINE was(i) == IF i < k THEN i ELSE i + 1
<1>3. \A i \in DOMAIN jobs' : was(i) \in DOMAIN jobs /\ jobs'[i] = jobs[was(i)]
  BY <1>1, <1>2
<1>4. ASSUME NEW i \in DOMAIN jobs', NEW h \in 1 .. i - 1
      PROVE  h \in DOMAIN jobs' /\ was(h) \in 1 .. was(i) - 1
  BY <1>1, <1>2
<1>5. \A i \in DOMAIN jobs' : i \in DOMAIN jobs /\ (i = was(i) \/ i \in 1 .. was(i) - 1)
  BY <1>1, <1>2
<1> HIDE DEF was
<1>6. ASSUME NEW i \in DOMAIN jobs', jobs'[i].begun PROVE jobs[was(i)].begun
  BY <1>3, <1>6, Zenon
<1>7. ASSUME NEW i \in DOMAIN jobs', jobs'[i].begun, NEW h \in 1 .. i - 1 PROVE jobs'[h].begun
  <2>1. jobs[was(h)].begun
    BY <1>3, <1>4, <1>6, <1>7, Zenon DEF First
  <2> QED  BY <1>3, <1>4, <2>1, Zenon
<1>8. ASSUME NEW i \in DOMAIN jobs', jobs'[i].begun PROVE i \in DOMAIN jobs /\ jobs[i].begun
  BY <1>3, <1>5, <1>6, <1>8, Zenon DEF First
<1>9. First'
  BY <1>7 DEF First
<1> QED  BY <1>3, <1>8, <1>9

\* Whoever is asked for, or begins, comes after those that have begun.
LEMMA OrderKept ==
  ASSUME Pool, First, NEW K, Extended(K)
  PROVE  First'
<1>1. /\ Len(jobs) \in Nat /\ DOMAIN jobs = 1 .. Len(jobs)
      /\ Len(jobs') \in Nat /\ DOMAIN jobs' = 1 .. Len(jobs')
  BY SeqDomain DEF Pool, JobsOK, Extended
<1>2. ASSUME NEW k \in DOMAIN jobs', jobs'[k].begun, NEW i \in 1 .. k - 1
      PROVE  jobs'[i].begun
  <2>1. k \in DOMAIN jobs
    BY <1>2, Zenon DEF Extended, NewJob
  <2>2. i \in DOMAIN jobs
    BY <1>1, <2>1
  <2>3. jobs[i].begun
    BY <1>2, <2>1, Zenon DEF Extended, InTurn, First
  <2> QED  BY <2>2, <2>3, Zenon DEF Extended, Same
<1> QED  BY <1>2 DEF First

\* A job that goes on has begun before and after.
LEMMA OrderMoved ==
  ASSUME Pool, First, NEW k \in DOMAIN jobs, NEW place, NEW note, Goes(k, place, note)
  PROVE  /\ First' /\ DOMAIN jobs' = DOMAIN jobs
         /\ \A i \in DOMAIN jobs : /\ jobs'[i].begun = jobs[i].begun
                                   /\ jobs'[i].cancelled = jobs[i].cancelled
<1>1. DOMAIN jobs' = DOMAIN jobs /\ Len(jobs) \in Nat /\ DOMAIN jobs = 1 .. Len(jobs)
  BY Moved, SeqDomain DEF Pool, JobsOK
<1>2. /\ \A i \in DOMAIN jobs \ {k} : jobs'[i] = jobs[i]
      /\ jobs'[k].begun = jobs[k].begun /\ jobs'[k].cancelled = jobs[k].cancelled
  BY Moved DEF Pool
<1>3. \A i \in DOMAIN jobs : /\ jobs'[i].begun = jobs[i].begun
                             /\ jobs'[i].cancelled = jobs[i].cancelled
  BY <1>2, Zenon
<1>4. \A i \in DOMAIN jobs : 1 .. i - 1 \subseteq DOMAIN jobs
  BY <1>1
<1>5. First'
  BY <1>1, <1>3, <1>4, Zenon DEF First
<1> QED  BY <1>1, <1>3, <1>5

\* A worker that starts is begun, or goes without having begun.
LEMMA StartsOrGoes ==
  ASSUME Pool, NEW k \in DOMAIN jobs, Start(k)
  PROVE  /\ life' = life
         /\ \/ jobs' = RemoveAt(jobs, k)
            \/ Extended(LookupKinds) /\ ~jobs[k].cancelled /\ ~jobs[k].begun
<1>1. life' = life /\ ~jobs[k].begun
  BY DEF Start
<1>2. CASE jobs[k].cancelled
  BY <1>1, <1>2 DEF Start
<1>3. CASE ~jobs[k].cancelled
  <2>1. ~Dropped(k) \/ jobs' = RemoveAt(jobs, k)
    BY DEF Dropped
  <2> QED  BY <1>1, <1>3, <2>1, Starts
<1> QED  BY <1>2, <1>3

\* The order of the pool, through every step.
LEMMA FirstStays ==
  ASSUME Pool, First, [DesktopNext]_desktop
  PROVE  First'
<1>a. ASSUME NEW k \in DOMAIN jobs, jobs' = RemoveAt(jobs, k), life' = life PROVE First'
  BY <1>a, OrderLeft
<1>b. ASSUME NEW K, Extended(K) PROVE First'
  BY <1>b, OrderKept
<1>c. ASSUME jobs' = <<>> PROVE First'
  BY <1>c, NoneSeq DEF First
<1>1. ASSUME NEW k \in DOMAIN jobs, Start(k) PROVE First'
  BY <1>1, <1>a, <1>b, StartsOrGoes
<1>2. ASSUME NEW k \in DOMAIN jobs, Finish(k) PROVE First'
  BY <1>2, <1>a DEF Finish
<1>3. ASSUME CloseWindow PROVE First'
  BY <1>3, <1>b, ClosedPool
<1>4. ASSUME NEW k \in DOMAIN jobs, Work(k) \/ UpdateWork(k) PROVE First'
  <2>1. life' = life /\ (GoesOn(k) \/ EndsWith(k))
    BY <1>4, Working
  <2> QED  BY <2>1, <1>a, OrderMoved DEF GoesOn, EndsWith, Ends
<1>5. ASSUME Lookups PROVE First'
  BY <1>1, <1>2, <1>3, <1>5, <1>b, <1>c, LookupsOfPool
<1>6. CASE jobs' = jobs
  BY <1>6 DEF First
<1> QED  BY <1>4, <1>5, <1>6, <1>b, <1>c, StepsOfPool

\* On the way out, nobody begins and nobody is asked for.
LEMMA StoppedStays ==
  ASSUME Pool, First, Stopped, [DesktopNext]_desktop
  PROVE  /\ Stopped'
         /\ life = "draining" =>
              \A k \in DOMAIN jobs' : jobs'[k].begun => k \in DOMAIN jobs /\ jobs[k].begun
<1> DEFINE NoneBegins == \A k \in DOMAIN jobs' : jobs'[k].begun => k \in DOMAIN jobs /\ jobs[k].begun
<1>a. ASSUME life = "running", life' \in {"running", "closed"} PROVE Stopped'
  BY <1>a DEF Stopped
<1>b. ASSUME jobs' = <<>> PROVE Stopped' /\ NoneBegins
  BY <1>b, NoneSeq DEF Stopped
<1>c. ASSUME jobs' = jobs, life' = life PROVE Stopped' /\ NoneBegins
  BY <1>c DEF Stopped
<1>d. ASSUME NEW k \in DOMAIN jobs, jobs' = RemoveAt(jobs, k), life' = life PROVE Stopped' /\ NoneBegins
  <2>1. NoneBegins
    BY <1>d, OrderLeft
  <2>2. ASSUME life = "draining", NEW i \in DOMAIN jobs' PROVE jobs'[i].begun \/ jobs'[i].cancelled
    <3>1. PICK j \in DOMAIN jobs : jobs'[i] = jobs[j]
      BY <1>d, <2>2, OrderLeft
    <3> QED  BY <2>2, <3>1, Zenon DEF Stopped
  <2> QED  BY <1>d, <2>1, <2>2 DEF Stopped
<1>1. ASSUME NEW k \in DOMAIN jobs, Start(k) PROVE Stopped' /\ (life = "draining" => NoneBegins)
  <2>1. CASE life = "draining"
    <3>1. life' = life /\ jobs' = RemoveAt(jobs, k)
      BY <1>1, <2>1, StartsOrGoes DEF Stopped
    <3> QED  BY <3>1, <1>d
  <2>2. CASE life # "draining"
    BY <1>1, <2>2, StartsOrGoes DEF Stopped
  <2> QED  BY <2>1, <2>2
<1>2. ASSUME NEW k \in DOMAIN jobs, Finish(k) PROVE Stopped' /\ NoneBegins
  BY <1>2, <1>d DEF Finish
<1>3. ASSUME CloseWindow PROVE Stopped' /\ life # "draining"
  BY <1>3, ClosedPool DEF CloseWindow, Stopped
<1>4. ASSUME NEW k \in DOMAIN jobs, Work(k) \/ UpdateWork(k) PROVE Stopped' /\ NoneBegins
  <2>1. life' = life /\ (GoesOn(k) \/ EndsWith(k))
    BY <1>4, Working
  <2>2. ASSUME NEW place, NEW note, Goes(k, place, note) PROVE Stopped' /\ NoneBegins
    <3>1. /\ DOMAIN jobs' = DOMAIN jobs
          /\ \A i \in DOMAIN jobs : /\ jobs'[i].begun = jobs[i].begun
                                    /\ jobs'[i].cancelled = jobs[i].cancelled
      BY <2>2, OrderMoved
    <3>2. NoneBegins
      BY <3>1, Zenon
    <3>3. Stopped'
      BY <2>1, <3>1, Zenon DEF Stopped
    <3> QED  BY <3>2, <3>3
  <2> QED  BY <2>1, <2>2, <1>d DEF GoesOn, EndsWith, Ends
<1> HIDE DEF NoneBegins
<1>5. ASSUME Lookups PROVE Stopped' /\ (life = "draining" => NoneBegins)
  BY <1>1, <1>2, <1>3, <1>5, <1>a, <1>b, LookupsOfPool
<1>6. ASSUME Stopped', life = "draining" => NoneBegins
      PROVE  /\ Stopped'
             /\ life = "draining" =>
                  \A k \in DOMAIN jobs' : jobs'[k].begun => k \in DOMAIN jobs /\ jobs[k].begun
  BY <1>6 DEF NoneBegins
<1> QED  BY <1>4, <1>5, <1>6, <1>a, <1>b, <1>c, StepsOfPool

\* Once the window is closed no worker begins: those that run are the first ones on the
\* pool, and none of its places comes to run that did not.
THEOREM NothingBegins == DesktopSpec => ClosingStartsNothing
<1> DEFINE NoneBegins == life = "draining" =>
                     \A k \in DOMAIN jobs' : jobs'[k].begun => k \in DOMAIN jobs /\ jobs[k].begun
           Inv  == Pool /\ DrainInv
<1>1. DesktopInit => Inv
  <2>1. ASSUME DesktopInit PROVE DrainInv
    <3>1. jobs = <<>> /\ life = "running"
      BY <2>1 DEF DesktopInit, WindowInit, MInit, Init
    <3> QED  BY <3>1, NoneSeq DEF DrainInv, First, Stopped
  <2> QED  BY <2>1, PoolHolds
<1>2. Inv /\ [DesktopNext]_desktop => Inv'
  BY PoolStays, FirstStays, StoppedStays DEF DrainInv
<1>3. Inv /\ [DesktopNext]_desktop => [NoneBegins]_vars
  BY StoppedStays DEF DrainInv
<1> QED  BY <1>1, <1>2, <1>3, PTL DEF DesktopSpec, ClosingStartsNothing

--------------------------------------------------------------------------------
\* What the pages show

\* Something is wanted exactly when it is on its way.
LEMMA WantsPending ==
  ASSUME NEW ch
  PROVE  /\ Wants(ch, jobs, inbox) = {} => ~Pending(ch) /\ Sights(ch, jobs, inbox) = {}
         /\ ~Pending(ch) => Wants(ch, jobs, inbox) = {}
         /\ \A r \in Wants(ch, jobs, inbox) : r.ch = ch
<1>1. ~Pending(ch) => Wants(ch, jobs, inbox) = {}
  BY DEF Wants, Pending
<1>2. \A r \in Wants(ch, jobs, inbox) : r.ch = ch
  BY DEF Wants
<1>3. ASSUME Wants(ch, jobs, inbox) = {}
      PROVE  ~Pending(ch) /\ Sights(ch, jobs, inbox) = {}
  <2>1. /\ \A k \in DOMAIN jobs : jobs[k].want.ch # ch
        /\ \A k \in DOMAIN inbox : inbox[k].want.ch # ch
    <3>1. \A k \in DOMAIN jobs : jobs[k].want.ch = ch => jobs[k].want \in Wants(ch, jobs, inbox)
      BY DEF Wants
    <3>2. \A k \in DOMAIN inbox : inbox[k].want.ch = ch => inbox[k].want \in Wants(ch, jobs, inbox)
      BY DEF Wants
    <3> QED  BY <1>3, <3>1, <3>2
  <2> QED  BY <2>1 DEF Pending, Sights
<1> QED  BY <1>1, <1>2, <1>3

\* The pool is extended.
LEMMA ExtendedWants ==
  ASSUME JobsOK(jobs), NEW K, Extended(K), NEW ch, NEW ms
  PROVE  /\ Wants(ch, jobs, ms) \subseteq Wants(ch, jobs', ms)
         /\ ch[2] \notin K => Wants(ch, jobs', ms) \subseteq Wants(ch, jobs, ms)
         /\ Sights(ch, jobs', ms) \subseteq
              (Sights(ch, jobs, ms) \cup {0}) \cup {Seen(r).content : r \in Wants(ch, jobs, ms)}
<1>1. DOMAIN jobs \subseteq DOMAIN jobs'
  BY SeqDomain DEF Extended, JobsOK
<1>2. \A i \in DOMAIN jobs : jobs'[i].want = jobs[i].want
  BY DEF Extended, Same
<1>3. \A i \in DOMAIN jobs' \ DOMAIN jobs :
        (ch[2] \notin K => jobs'[i].want.ch # ch) /\ jobs'[i].saw.content = 0
  BY DEF Extended, NewJob, Unread
<1>4. \A i \in DOMAIN jobs : jobs'[i].saw \in {jobs[i].saw, Seen(jobs[i].want)}
  BY DEF Extended, Same
<1>5. Wants(ch, jobs, ms) \subseteq Wants(ch, jobs', ms)
  <2>1. {jobs[k].want : k \in {i \in DOMAIN jobs : jobs[i].want.ch = ch}}
          \subseteq {jobs'[k].want : k \in {i \in DOMAIN jobs' : jobs'[i].want.ch = ch}}
    BY <1>1, <1>2
  <2> QED  BY <2>1 DEF Wants
<1>6. ASSUME ch[2] \notin K PROVE Wants(ch, jobs', ms) \subseteq Wants(ch, jobs, ms)
  <2>1. {jobs'[k].want : k \in {i \in DOMAIN jobs' : jobs'[i].want.ch = ch}}
          \subseteq {jobs[k].want : k \in {i \in DOMAIN jobs : jobs[i].want.ch = ch}}
    BY <1>1, <1>2, <1>3, <1>6
  <2> QED  BY <2>1 DEF Wants
<1>7. ASSUME NEW i \in DOMAIN jobs', jobs'[i].want.ch = ch
      PROVE  jobs'[i].saw.content \in
               (Sights(ch, jobs, ms) \cup {0}) \cup {Seen(r).content : r \in Wants(ch, jobs, ms)}
  <2>1. CASE i \in DOMAIN jobs
    <3> DEFINE w == jobs[i].want
               s == Seen(w)
    <3>1. w.ch = ch
      BY <1>2, <1>7, <2>1
    <3>2. w \in Wants(ch, jobs, ms) /\ jobs[i].saw.content \in Sights(ch, jobs, ms)
      BY <2>1, <3>1 DEF Wants, Sights
    <3>3. (jobs'[i].saw = jobs[i].saw \/ jobs'[i].saw = s) /\ s = Seen(w)
      BY <1>4, <2>1
    <3> HIDE DEF w, s
    <3> QED  BY <3>2, <3>3
  <2>2. CASE i \notin DOMAIN jobs
    BY <1>3, <2>2
  <2> QED  BY <2>1, <2>2
<1>8. \A s \in Sights(ch, jobs', ms) :
        \/ \E i \in DOMAIN jobs' : jobs'[i].want.ch = ch /\ s = jobs'[i].saw.content
        \/ s \in Sights(ch, jobs, ms)
  BY DEF Sights
<1> QED  BY <1>5, <1>6, <1>7, <1>8

\* Requests are submitted.
LEMMA SubmittedWants ==
  ASSUME Pool, life' = life, NEW K, NEW requests, Asks(requests, K), Submit(requests),
         NEW ch, NEW ms
  PROVE  /\ Wants(ch, jobs', ms) = Wants(ch, jobs, ms) \cup Sought(ch, requests)
         /\ Sights(ch, jobs', ms) \subseteq Sights(ch, jobs, ms) \cup {0}
<1>1. /\ Len(jobs') = Len(jobs) + Len(requests)
      /\ \A i \in DOMAIN jobs : jobs'[i] = jobs[i]
      /\ \A i \in DOMAIN jobs' \ DOMAIN jobs :
           /\ i - Len(jobs) \in DOMAIN requests
           /\ jobs'[i] = Worker(requests[i - Len(jobs)], FALSE)
      /\ JobsOK(jobs')
  BY Submitted DEF Pool, Extended
<1>2. /\ Len(jobs) \in Nat /\ DOMAIN jobs = 1 .. Len(jobs) /\ DOMAIN jobs' = 1 .. Len(jobs')
      /\ Len(requests) \in Nat /\ DOMAIN requests = 1 .. Len(requests)
  BY <1>1, SeqDomain DEF Pool, JobsOK, Asks
<1>3. ASSUME NEW k \in DOMAIN requests
      PROVE  \E i \in DOMAIN jobs' \ DOMAIN jobs : jobs'[i] = Worker(requests[k], FALSE)
  <2> DEFINE i == Len(jobs) + k
  <2>1. i \in DOMAIN jobs' \ DOMAIN jobs /\ i - Len(jobs) = k
    BY <1>1, <1>2
  <2> QED  BY <1>1, <2>1
<1>4. \A r : Worker(r, FALSE).want = r /\ Worker(r, FALSE).saw.content = 0
  BY DEF Worker, Unread
<1>5. \A i \in DOMAIN jobs : i \in DOMAIN jobs' /\ jobs'[i] = jobs[i]
  BY <1>1, <1>2
<1>6. \A i \in DOMAIN jobs' \ DOMAIN jobs :
        /\ \E k \in DOMAIN requests : jobs'[i].want = requests[k]
        /\ jobs'[i].saw.content = 0
  BY <1>1, <1>4, ZenonT(60)
<1>7. \A k \in DOMAIN requests : \E i \in DOMAIN jobs' : jobs'[i].want = requests[k]
  BY <1>3, <1>4
<1>8. {jobs'[k].want : k \in {i \in DOMAIN jobs' : jobs'[i].want.ch = ch}}
        = {jobs[k].want : k \in {i \in DOMAIN jobs : jobs[i].want.ch = ch}} \cup Sought(ch, requests)
  BY <1>5, <1>6, <1>7 DEF Sought
<1>9. Wants(ch, jobs', ms) = Wants(ch, jobs, ms) \cup Sought(ch, requests)
  BY <1>8 DEF Wants
<1>10. {jobs'[k].saw.content : k \in {i \in DOMAIN jobs' : jobs'[i].want.ch = ch}}
         \subseteq {jobs[k].saw.content : k \in {i \in DOMAIN jobs : jobs[i].want.ch = ch}} \cup {0}
  BY <1>5, <1>6
<1> QED  BY <1>9, <1>10 DEF Sights

\* The first message is handled.
LEMMA HandledWants ==
  ASSUME QueueOK(inbox), inbox # <<>>, NEW ms, ms = Tail(inbox), NEW ch, NEW js
  PROVE  /\ Wants(ch, js, ms) \subseteq Wants(ch, js, inbox)
         /\ Sights(ch, js, ms) \subseteq Sights(ch, js, inbox)
         /\ Head(inbox).want.ch # ch => Wants(ch, js, ms) = Wants(ch, js, inbox)
         /\ Head(inbox).want.ch = ch => /\ Head(inbox).want \in Wants(ch, js, inbox)
                                        /\ Head(inbox).saw.content \in Sights(ch, js, inbox)
<1> DEFINE m == Head(inbox)
<1>1. /\ 1 \in DOMAIN inbox /\ m = inbox[1]
      /\ \A i \in DOMAIN ms : i + 1 \in DOMAIN inbox /\ ms[i] = inbox[i + 1]
      /\ \A j \in DOMAIN inbox \ {1} : j - 1 \in DOMAIN ms /\ ms[j - 1] = inbox[j]
  <2>1. IsSeq(inbox)
    BY DEF QueueOK
  <2>2. /\ Len(ms) = Len(inbox) - 1 /\ DOMAIN ms = 1 .. Len(inbox) - 1
        /\ \A i \in DOMAIN ms : ms[i] = inbox[i + 1]
        /\ 1 \in DOMAIN inbox /\ m = inbox[1]
        /\ Len(inbox) \in Nat /\ DOMAIN inbox = 1 .. Len(inbox)
    BY <2>1, TailOwn, SeqDomain
  <2> HIDE DEF m
  <2> QED  BY <2>2
<1> HIDE DEF m
<1>2. Wants(ch, js, ms) \subseteq Wants(ch, js, inbox)
  BY <1>1 DEF Wants
<1>3. Sights(ch, js, ms) \subseteq Sights(ch, js, inbox)
  BY <1>1 DEF Sights
<1>4. ASSUME m.want.ch # ch PROVE Wants(ch, js, inbox) \subseteq Wants(ch, js, ms)
  <2>1. ASSUME NEW j \in DOMAIN inbox, inbox[j].want.ch = ch
        PROVE  \E i \in DOMAIN ms : ms[i].want = inbox[j].want
    BY <1>1, <1>4, <2>1
  <2> QED  BY <2>1 DEF Wants
<1>5. ASSUME m.want.ch = ch
      PROVE  m.want \in Wants(ch, js, inbox) /\ m.saw.content \in Sights(ch, js, inbox)
  BY <1>1, <1>5 DEF Wants, Sights
<1> QED  BY <1>2, <1>3, <1>4, <1>5 DEF m

\* A job goes on.
LEMMA GoesWants ==
  ASSUME JobsOK(jobs), NEW k \in DOMAIN jobs, NEW place, NEW note, Goes(k, place, note), NEW ch, NEW ms
  PROVE  /\ Wants(ch, jobs', ms) = Wants(ch, jobs, ms)
         /\ Sights(ch, jobs', ms) = Sights(ch, jobs, ms)
<1>1. /\ DOMAIN jobs' = DOMAIN jobs
      /\ \A i \in DOMAIN jobs : jobs'[i].want = jobs[i].want /\ jobs'[i].saw = jobs[i].saw
  BY Moved
<1> QED  BY <1>1 DEF Wants, Sights

\* A job leaves the pool, and its answer takes its place, unless nobody here waits for it.
LEMMA LeftWants ==
  ASSUME JobsOK(jobs), QueueOK(inbox), NEW k \in DOMAIN jobs, jobs' = RemoveAt(jobs, k), NEW ch,
         \/ \E m : /\ inbox' = Append(inbox, m)
                   /\ m.want = jobs[k].want
                   /\ m.saw = jobs[k].saw \/ jobs[k].want.ch # ch
         \/ inbox' = inbox /\ jobs[k].want.ch # ch
  PROVE  /\ Wants(ch, jobs', inbox') = Wants(ch, jobs, inbox)
         /\ Sights(ch, jobs', inbox') = Sights(ch, jobs, inbox)
<1>1. /\ \A i \in DOMAIN jobs' : \E j \in DOMAIN jobs \ {k} : jobs'[i] = jobs[j]
      /\ \A j \in DOMAIN jobs \ {k} : \E i \in DOMAIN jobs' : jobs'[i] = jobs[j]
  <2>1. IsSeq(jobs)
    BY DEF JobsOK
  <2>2. /\ Len(jobs) \in Nat /\ DOMAIN jobs = 1 .. Len(jobs) /\ DOMAIN jobs' = 1 .. Len(jobs) - 1
        /\ \A i \in DOMAIN jobs' : jobs'[i] = jobs[IF i < k THEN i ELSE i + 1]
    BY <2>1, RemoveOwn, SeqDomain
  <2>3. ASSUME NEW i \in DOMAIN jobs'
        PROVE  \E j \in DOMAIN jobs \ {k} : jobs'[i] = jobs[j]
    <3>1. (IF i < k THEN i ELSE i + 1) \in DOMAIN jobs \ {k}
      BY <2>2
    <3> QED  BY <2>2, <3>1
  <2>4. ASSUME NEW j \in DOMAIN jobs \ {k}
        PROVE  \E i \in DOMAIN jobs' : jobs'[i] = jobs[j]
    <3> DEFINE i == IF j < k THEN j ELSE j - 1
    <3>1. i \in DOMAIN jobs' /\ (IF i < k THEN i ELSE i + 1) = j
      BY <2>2
    <3> QED  BY <2>2, <3>1
  <2> QED  BY <2>3, <2>4
<1>2. CASE inbox' = inbox /\ jobs[k].want.ch # ch
  <2>1. {jobs'[i].want : i \in {j \in DOMAIN jobs' : jobs'[j].want.ch = ch}}
          = {jobs[i].want : i \in {j \in DOMAIN jobs : jobs[j].want.ch = ch}}
    BY <1>1, <1>2
  <2>2. {jobs'[i].saw.content : i \in {j \in DOMAIN jobs' : jobs'[j].want.ch = ch}}
          = {jobs[i].saw.content : i \in {j \in DOMAIN jobs : jobs[j].want.ch = ch}}
    BY <1>1, <1>2
  <2> QED  BY <1>2, <2>1, <2>2 DEF Wants, Sights
<1>3. ASSUME NEW m, inbox' = Append(inbox, m), m.want = jobs[k].want,
             m.saw = jobs[k].saw \/ jobs[k].want.ch # ch
      PROVE  /\ Wants(ch, jobs', inbox') = Wants(ch, jobs, inbox)
             /\ Sights(ch, jobs', inbox') = Sights(ch, jobs, inbox)
  <2>1. /\ \A i \in DOMAIN inbox : i \in DOMAIN inbox' /\ inbox'[i] = inbox[i]
        /\ \A i \in DOMAIN inbox' \ DOMAIN inbox : inbox'[i] = m
        /\ \E i \in DOMAIN inbox' : inbox'[i] = m
    <3>1. IsSeq(inbox)
      BY DEF QueueOK
    <3>2. Len(inbox) \in Nat /\ DOMAIN inbox = 1 .. Len(inbox)
      BY <3>1, SeqDomain
    <3>3. /\ DOMAIN inbox' = 1 .. Len(inbox) + 1
          /\ \A i \in DOMAIN inbox : inbox'[i] = inbox[i]
          /\ inbox'[Len(inbox) + 1] = m
      BY <1>3, <3>1, AppendOwn
    <3> QED  BY <3>2, <3>3
  <2>2. \A i \in DOMAIN jobs : \/ \E j \in DOMAIN jobs' : jobs'[j] = jobs[i]
                               \/ \E j \in DOMAIN inbox' :
                                    /\ inbox'[j].want = jobs[i].want
                                    /\ inbox'[j].saw = jobs[i].saw \/ jobs[i].want.ch # ch
    BY <1>1, <1>3, <2>1
  <2>3. \A i \in DOMAIN inbox' : \/ \E j \in DOMAIN inbox : inbox'[i] = inbox[j]
                                 \/ \E j \in DOMAIN jobs :
                                      /\ inbox'[i].want = jobs[j].want
                                      /\ inbox'[i].saw = jobs[j].saw \/ jobs[j].want.ch # ch
    BY <1>3, <2>1
  <2>4. \A i \in DOMAIN inbox : \E j \in DOMAIN inbox' : inbox'[j] = inbox[i]
    BY <2>1
  <2>5. \A i \in DOMAIN jobs' : \E j \in DOMAIN jobs : jobs'[i] = jobs[j]
    BY <1>1
  <2>6. Wants(ch, jobs', inbox') \subseteq Wants(ch, jobs, inbox)
    BY <2>3, <2>5 DEF Wants
  <2>7. Wants(ch, jobs, inbox) \subseteq Wants(ch, jobs', inbox')
    BY <2>2, <2>4 DEF Wants
  <2>8. Sights(ch, jobs', inbox') \subseteq Sights(ch, jobs, inbox)
    BY <2>3, <2>5 DEF Sights
  <2>9. Sights(ch, jobs, inbox) \subseteq Sights(ch, jobs', inbox')
    BY <2>2, <2>4 DEF Sights
  <2> QED  BY <2>6, <2>7, <2>8, <2>9
<1> QED  BY <1>2, <1>3

--------------------------------------------------------------------------------
\* How a step reaches the pages

\* What is asked for beside the pages comes to the pool as such.
LEMMA WorkAsked ==
  ASSUME NEW K, K \subseteq WorkKinds, Extended(K), Unheard, UNCHANGED <<visited, pages>>
  PROVE  Elsewhere
BY MoreKinds DEF Elsewhere

\* The pool may be left alone.
LEMMA NothingAsked ==
  ASSUME Pool, jobs' = jobs, life' = life, Unheard, UNCHANGED <<visited, pages>>
  PROVE  Elsewhere
BY LeftAlone, WorkAsked DEF Pool

\* What the user has the maintenance pages do.
LEMMA MaintenanceElsewhere ==
  ASSUME Pool, MaintenanceActs
  PROVE  Elsewhere
<1>1. /\ inbox' = inbox /\ life' = life
      /\ Extended(MaintenanceKinds) \/ ShowAdmin
  BY UserMaintains DEF MaintenanceActs
<1>2. UNCHANGED <<visited, pages>>
  BY DEF MaintenanceActs, StartJob, StartRestore, PaletteCommand, StartRebuild, StartRollback,
         RefreshListStatus, GatherLearning, DeleteBackup, ShowAdmin, pages
<1>3. CASE Extended(MaintenanceKinds)
  BY <1>1, <1>2, <1>3, WorkAsked DEF WorkKinds, Unheard
<1>4. CASE ShowAdmin
  <2>1. "health" \in visited /\ Submit(Measures(~busy["admin"]))
    BY <1>4 DEF ShowAdmin, Acting
  <2>2. \A idle : Asks(Measures(idle), GaugeKinds)
    BY GaugesAsked
  <2>3. Extended(GaugeKinds)
    BY <1>1, <2>1, <2>2, Submitted DEF Pool
  <2> QED  BY <1>1, <1>2, <2>1, <2>3 DEF Elsewhere, Unheard
<1> QED  BY <1>1, <1>3, <1>4

\* The worker threads change nothing that the pages hold, a cache aside.
LEMMA WorkBehind ==
  ASSUME NEW k \in DOMAIN jobs, Start(k) \/ Work(k) \/ UpdateWork(k)
  PROVE  Elsewhere
<1>1. ASSUME Start(k) PROVE UNCHANGED <<visited, pages>>
  BY <1>1 DEF Start, pages
<1>2. ASSUME Work(k) PROVE UNCHANGED Behind
  BY <1>2 DEF Work, RunCheck, BeginBackup, CompleteBackup, FailBackup, PruneBackups, VerifyBackup,
              BuildCandidate, VerifyPrevious, CloseForSwap, BeginKeeping, FinishKeeping, BeginCopy,
              Replace, FailReplace, OpenAfterSwap
<1>3. ASSUME UpdateWork(k) PROVE UNCHANGED Behind
  BY <1>3 DEF UpdateWork, FinishCheck, FetchPackage, CloseForInstall, OpenInstalled
<1>4. UNCHANGED Behind => UNCHANGED <<visited, pages>>
  BY DEF Behind, pages
<1> QED  BY <1>1, <1>2, <1>3, <1>4 DEF Elsewhere

\* What the user does on the report page and on the Updates page.
LEMMA OthersElsewhere ==
  ASSUME Pool, ReportActs \/ UpdateActs
  PROVE  Elsewhere
<1>1. CASE ReportActs
  <2>1. UNCHANGED <<visited, pages>>
    BY <1>1 DEF ReportActs, ShowReports, SetType, SetReportFilter, SaveTemplate, LoadTemplate,
                DeleteTemplate, Unbuilt, pages
  <2>2. Extended({"values"}) /\ inbox' = inbox
    BY <1>1, UserReports
  <2> QED  BY <2>1, <2>2, WorkAsked DEF WorkKinds, Unheard
<1>2. CASE UpdateActs
  <2>1. UNCHANGED <<visited, pages>>
    BY <1>2 DEF UpdateActs, CheckForUpdates, InstallUpdate, BannerAction, CancelInstall, Beside, pages
  <2>2. Extended(UpdateKinds) /\ inbox' = inbox
    BY <1>2, UserUpdates DEF UpdateActs
  <2> QED  BY <2>1, <2>2, WorkAsked DEF WorkKinds, Unheard
<1> QED  BY <1>1, <1>2

\* What the window does with the end of a maintenance job.
LEMMA JobReaches ==
  ASSUME Pool, DeliverJob
  PROVE  Elsewhere \/ Reloads
<1>1. /\ inbox # <<>> /\ inbox' = Tail(inbox) /\ life = "running" /\ life' = life
      /\ JobsOK(jobs) /\ CancelOK
      /\ UNCHANGED <<visited, inst, gauges, palette>>
  BY DEF DeliverJob, Pool
<1> DEFINE m == Head(inbox)
<1>2. \/ OnJobDone(m) \/ OnReplaced(m) \/ OnShrinkRefused(m) \/ OnRestored(m) \/ OnRestoreFailed(m)
  BY DEF DeliverJob
<1>3. MessageOK(m)
  BY <1>1, Handled DEF Pool, QueueOK
<1>4. m.want.ch[2] \in MaintenanceKinds
  BY JobAnswered
<1>5. m.want.ch[2] \notin LookupKinds
  BY <1>4 DEF MaintenanceKinds, Checks, LookupKinds
<1>6. ~Replaced(m) => Unheard
  BY <1>1, <1>5 DEF Unheard
<1> HIDE DEF m
<1>7. CASE OnJobDone(m)
  <2>1. ~Replaced(m)
    BY <1>7 DEF OnJobDone, Replaced, Checks, Swaps, Replacing
  <2>2. UNCHANGED pages
    BY <1>1, <1>7 DEF OnJobDone, pages
  <2>3. CASE jobs' = jobs
    BY <1>1, <1>6, <2>1, <2>2, <2>3, NothingAsked
  <2>4. CASE Submit(<<Request(Health, None, None)>>) /\ "health" \in visited
    <3>1. Asks(<<Request(Health, None, None)>>, GaugeKinds)
      BY AsksOne DEF Request, Health, GaugeKinds
    <3>2. Extended(GaugeKinds)
      BY <1>1, <2>4, <3>1, Submitted
    <3> QED  BY <1>1, <1>6, <2>1, <2>2, <2>4, <3>2 DEF Elsewhere
  <2> QED  BY <1>7, <2>3, <2>4 DEF OnJobDone
<1>8. CASE OnReplaced(m)
  <2>1. m.want.ch[2] \in Replacing
    BY <1>8 DEF OnReplaced, Swaps, Replacing
  <2> DEFINE open == db.open
             idle == ~busy["admin"]
  <2>2. /\ Reload(open, idle)
        /\ lapsed' = Overtaken(Reloaded) \cup (IF open THEN {} ELSE Reloaded)
                        \cup (IF idle THEN {} ELSE {Health})
    BY <1>8 DEF OnReplaced
  <2> HIDE DEF open, idle
  <2>3. /\ Reload(open, idle) /\ Overtaken(Reloaded) \subseteq lapsed'
        /\ (~open => Reloaded \subseteq lapsed') /\ (~idle => Health \in lapsed')
    BY <2>2
  <2> QED  BY <1>1, <2>1, <2>3 DEF Reloads, m
<1>9. CASE OnShrinkRefused(m)
  <2>1. ~Replaced(m)
    BY <1>9 DEF OnShrinkRefused, Replaced
  <2>2. UNCHANGED pages
    BY <1>1, <1>9 DEF OnShrinkRefused, pages
  <2> DEFINE want == Request(Job("database", "rebuild"), "allow_shrink", None)
  <2>3. want.ch[2] \in WorkKinds
    BY DEF Request, Job, WorkKinds, MaintenanceKinds
  <2>4. jobs' = jobs \/ BeginJob(want, Tail(inbox))
    BY <1>9 DEF OnShrinkRefused
  <2> HIDE DEF want
  <2>5. Extended(WorkKinds)
    BY <1>1, <2>3, <2>4, LeftAlone, JobBegun
  <2> QED  BY <1>1, <1>6, <2>1, <2>2, <2>5 DEF Elsewhere
<1>10. CASE OnRestored(m)
  <2>1. m.want.ch[2] \in Replacing
    BY <1>10 DEF OnRestored, Replacing
  <2>2. \/ Reload(TRUE, TRUE) /\ lapsed' = Overtaken(Reloaded)
        \/ UNCHANGED <<jobs, bin, ana>> /\ Reloaded \subseteq lapsed'
    BY <1>10 DEF OnRestored
  <2> QED  BY <1>1, <2>1, <2>2 DEF Reloads, m
<1>11. CASE OnRestoreFailed(m)
  <2>1. ~Replaced(m)
    BY <1>11 DEF OnRestoreFailed, Replaced
  <2>2. UNCHANGED pages /\ jobs' = jobs
    BY <1>1, <1>11 DEF OnRestoreFailed, pages
  <2> QED  BY <1>1, <1>6, <2>1, <2>2, NothingAsked
<1> QED  BY <1>2, <1>7, <1>8, <1>9, <1>10, <1>11

\* What the window does with the end of a check or of an install.
LEMMA UpdateReaches ==
  ASSUME Pool, DeliverUpdate
  PROVE  Elsewhere \/ Reloads
<1>1. /\ inbox # <<>> /\ inbox' = Tail(inbox) /\ life = "running" /\ life' = life
      /\ JobsOK(jobs) /\ CancelOK
      /\ UNCHANGED <<visited, inst, gauges, palette>>
  BY DEF DeliverUpdate, Beside, Pool
<1> DEFINE m == Head(inbox)
<1>2. OnChecked(m) \/ OnCheckFailed(m) \/ OnInstalled(m) \/ OnInstallFailed(m) \/ OnCancelled(m)
  BY DEF DeliverUpdate
<1>3. m.want.ch \in {Check, Install}
  BY UpdateAnswered
<1>4. ~Replaced(m) => Unheard
  BY <1>1, <1>3 DEF Unheard, Check, Install, LookupKinds
<1>a. ASSUME NEW page, NEW requests, NEW queue, Begin(page, requests, queue), Asks(requests, UpdateKinds)
      PROVE  Extended(WorkKinds)
  BY <1>1, <1>a, PageBegins, MoreKinds DEF WorkKinds
<1>b. Asks(<<>>, UpdateKinds)
  BY AsksNone
<1>c. \A page, by : Asks(<<InstallRequest(page)>>, UpdateKinds) /\ Asks(<<CheckRequest(by)>>, UpdateKinds)
  BY InstallAsks, CheckAsks
<1> HIDE DEF m
<1>d. ASSUME ~Replaced(m), UNCHANGED <<bin, ana>>, Extended(WorkKinds)
      PROVE  Elsewhere
  BY <1>1, <1>4, <1>d DEF Elsewhere, pages
<1>5. CASE OnChecked(m)
  <2>1. ~Replaced(m) /\ UNCHANGED <<bin, ana>>
    BY <1>5 DEF OnChecked, Replaced
  <2>2. Extended(WorkKinds)
    BY <1>5, <1>a, <1>b, <1>c DEF OnChecked
  <2> QED  BY <1>d, <2>1, <2>2
<1>6. CASE OnCheckFailed(m)
  <2>1. ~Replaced(m) /\ UNCHANGED <<bin, ana>>
    BY <1>6 DEF OnCheckFailed, Replaced
  <2>2. \E page, requests, queue :
           Begin(page, requests, queue) /\ requests \in {<<>>, <<CheckRequest("user")>>}
    BY <1>6 DEF OnCheckFailed
  <2> QED  BY <1>a, <1>b, <1>c, <1>d, <2>1, <2>2
<1>7. CASE OnInstalled(m)
  <2>1. m.want.ch[2] \in Replacing
    BY <1>7 DEF OnInstalled, Install, Replacing
  <2> DEFINE open == db.open
             idle == ~busy["admin"]
  <2>2. /\ Reload(open, idle)
        /\ lapsed' = Overtaken(Reloaded) \cup (IF open THEN {} ELSE Reloaded)
                        \cup (IF idle THEN {} ELSE {Health})
    BY <1>7 DEF OnInstalled
  <2> HIDE DEF open, idle
  <2>3. /\ Reload(open, idle) /\ Overtaken(Reloaded) \subseteq lapsed'
        /\ (~open => Reloaded \subseteq lapsed') /\ (~idle => Health \in lapsed')
    BY <2>2
  <2> QED  BY <1>1, <2>1, <2>3 DEF Reloads, m
<1>8. CASE OnInstallFailed(m)
  <2>1. ~Replaced(m) /\ UNCHANGED <<bin, ana>>
    BY <1>8 DEF OnInstallFailed, Replaced
  <2>2. Extended(WorkKinds)
    BY <1>8, <1>a, <1>b, <1>c DEF OnInstallFailed
  <2> QED  BY <1>d, <2>1, <2>2
<1>9. CASE OnCancelled(m)
  <2>1. ~Replaced(m) /\ UNCHANGED <<bin, ana>>
    BY <1>9 DEF OnCancelled, Replaced
  <2>2. Extended(WorkKinds)
    BY <1>9, <1>a, <1>b DEF OnCancelled
  <2> QED  BY <1>d, <2>1, <2>2
<1> QED  BY <1>2, <1>5, <1>6, <1>7, <1>8, <1>9

\* A step of the window that stays open is one of these.
LEMMA ShownSteps ==
  ASSUME Pool, life = "running", life' = "running", [DesktopNext]_desktop
  PROVE  /\ lapsed \subseteq lapsed'
         /\ \/ Elsewhere \/ Reloads
            \/ PageActs
            \/ \E k \in DOMAIN jobs : Finish(k)
            \/ Deliver
<1>1. lapsed \subseteq lapsed'
  BY LapsedGrows DEF Restart
<1> DEFINE Goal == \/ Elsewhere \/ Reloads \/ PageActs \/ (\E k \in DOMAIN jobs : Finish(k)) \/ Deliver
<1>2. ASSUME Lookups PROVE Goal
  <2>1. CASE SetRemember \/ ClearHistory
    <3>1. UNCHANGED <<visited, pages>> /\ jobs' = jobs /\ inbox' = inbox /\ life' = life
      BY <2>1 DEF SetRemember, ClearHistory, pages
    <3> QED  BY <3>1, NothingAsked DEF Unheard
  <2>2. CASE CloseWindow \/ Teardown
    BY <2>2 DEF CloseWindow, Teardown
  <2> QED  BY <1>2, <2>1, <2>2, WorkBehind DEF Lookups, PageActs
<1>3. ASSUME MaintenanceActs PROVE Goal
  BY <1>3, MaintenanceElsewhere
<1>4. ASSUME \E k \in DOMAIN jobs : Work(k) \/ UpdateWork(k) PROVE Goal
  BY <1>4, WorkBehind
<1>5. ASSUME DeliverJob PROVE Goal
  BY <1>5, JobReaches
<1>6. ASSUME Kill \/ Restart \/ Build PROVE Goal
  BY <1>6 DEF Kill, Restart, Build
<1>7. ASSUME ReportActs \/ UpdateActs PROVE Goal
  BY <1>7, OthersElsewhere
<1>8. ASSUME DeliverValues PROVE Goal
  <2>1. UNCHANGED <<visited, pages>> /\ jobs' = jobs /\ life' = life
    BY <1>8 DEF DeliverValues, pages
  <2>2. Unheard
    BY <1>8 DEF DeliverValues, Unheard, Values, LookupKinds, Replaced, Replacing
  <2> QED  BY <2>1, <2>2, NothingAsked
<1>9. ASSUME DeliverUpdate PROVE Goal
  BY <1>9, UpdateReaches
<1>10. ASSUME UNCHANGED desktop PROVE Goal
  <2>1. UNCHANGED <<visited, pages>> /\ jobs' = jobs /\ inbox' = inbox /\ life' = life
    BY <1>10 DEF desktop, window, all, vars, pages
  <2> QED  BY <2>1, NothingAsked DEF Unheard
<1> QED  BY <1>1, <1>2, <1>3, <1>4, <1>5, <1>6, <1>7, <1>8, <1>9, <1>10
         DEF DesktopNext, WindowNext, Next, MaintenanceActs, ReportActs, UpdateActs

--------------------------------------------------------------------------------
\* What a page shows, and what it has asked for

\* No two channels are the same.
LEMMA ChannelsApart ==
  /\ BinSearch[1] = "bin" /\ Opinion[1] = "bin" /\ Advanced[1] = "bin" /\ Snapshot[1] = "analytics"
  /\ Suggest[1] = "palette" /\ Health[1] = "admin" /\ Quality[1] = "admin"
  /\ BinSearch[2] = "lookup" /\ Opinion[2] = "reading" /\ Advanced[2] = "advanced"
  /\ Snapshot[2] = "snapshot" /\ Suggest[2] = "suggest"
  /\ Health[2] = "health" /\ Quality[2] = "quality"
  /\ \A p, part : <<p, part>>[1] = p /\ <<p, part>>[2] = part
  /\ \A p \in Browsers : p \in {"bank_lookup", "institutions"}
BY WorkbenchAssumption DEF BinSearch, Opinion, Advanced, Snapshot, Suggest, Health, Quality

\* What belongs together on each channel.
LEMMA BelongsOf ==
  ASSUME NEW b, NEW i, NEW a, NEW t, NEW W
  PROVE  /\ Belongs(BinSearch, b, i, a, t, W) <=> SearchOK(b, W)
         /\ Belongs(Opinion, b, i, a, t, W) <=> OpinionOK(b, W)
         /\ Belongs(Advanced, b, i, a, t, W) <=> AdvancedOK(b, W)
         /\ Belongs(Snapshot, b, i, a, t, W) <=> AnaOK(a, W)
         /\ Belongs(Suggest, b, i, a, t, W) <=> PaletteOK(t, W)
         /\ \A ch \in Gauges : Belongs(ch, b, i, a, t, W)
         /\ \A p \in Browsers : \A part :
              Belongs(<<p, part>>, b, i, a, t, W)
                <=> (part \in Range(PartsOf(p)) => PartOK(i[p], part, W))
<1>1. /\ Belongs(BinSearch, b, i, a, t, W) <=> SearchOK(b, W)
      /\ Belongs(Opinion, b, i, a, t, W) <=> OpinionOK(b, W)
      /\ Belongs(Advanced, b, i, a, t, W) <=> AdvancedOK(b, W)
      /\ Belongs(Snapshot, b, i, a, t, W) <=> AnaOK(a, W)
      /\ Belongs(Suggest, b, i, a, t, W) <=> PaletteOK(t, W)
  BY ChannelsApart DEF Belongs
<1>2. \A ch \in Gauges : Belongs(ch, b, i, a, t, W)
  BY ChannelsApart DEF Belongs, Gauges
<1>3. ASSUME NEW p \in Browsers, NEW part
      PROVE  Belongs(<<p, part>>, b, i, a, t, W)
               <=> (part \in Range(PartsOf(p)) => PartOK(i[p], part, W))
  <2>1. \A q, r : <<p, part>> = <<q, r>> <=> p = q /\ part = r
    OBVIOUS
  <2>2. <<p, part>> \notin {BinSearch, Opinion, Advanced, Snapshot, Suggest}
    BY ChannelsApart
  <2> QED  BY <2>1, <2>2 DEF Belongs
<1> QED  BY <1>1, <1>2, <1>3

\* What is alike, and waits for the same, belongs together as it did.
LEMMA BelongsKept ==
  ASSUME NEW ch, AskedFor(ch), Steady(ch), Alike(ch)
  PROVE  AskedFor(ch)'
<1> DEFINE W == Wants(ch, jobs, inbox)
           V == Wants(ch, jobs', inbox')
<1>1. V \subseteq W /\ (ch # BinSearch => V = W)
  BY DEF Steady
<1>2. Belongs(ch, bin, inst, ana, palette, W)
  BY DEF AskedFor
<1> HIDE DEF V, W
<1>3. ch = BinSearch => SearchOK(bin', V)
  BY <1>1, <1>2 DEF Belongs, Alike, SearchOK
<1>4. ch = Opinion => OpinionOK(bin', V)
  BY <1>1, <1>2 DEF Belongs, Alike, OpinionOK
<1>5. ch = Advanced => AdvancedOK(bin', V)
  <2>1. CASE ch = Advanced
    <3>1. V = W
      BY <1>1, <2>1, ChannelsApart
    <3> QED  BY <1>2, <2>1, <3>1 DEF Belongs, Alike, AdvancedOK
  <2> QED  BY <2>1
<1>6. ASSUME NEW p \in Browsers, NEW part \in Range(PartsOf(p)), ch = <<p, part>>
      PROVE  PartOK(inst'[p], part, V)
  <2>1. V = W
    BY <1>1, <1>6, ChannelsApart
  <2>2. PartOK(inst[p], part, W)
    BY <1>2, <1>6 DEF Belongs
  <2>3. inst'[p].screen = "result" => PartAlike(inst[p], inst'[p], part)
    BY <1>6 DEF Alike
  <2> QED  BY <2>1, <2>2, <2>3 DEF PartOK, PartAlike, Answers
<1>7. ch = Snapshot => AnaOK(ana', V)
  <2>1. CASE ch = Snapshot
    <3>1. V = W
      BY <1>1, <2>1, ChannelsApart
    <3> QED  BY <1>2, <2>1, <3>1 DEF Belongs, Alike, AnaOK
  <2> QED  BY <2>1
<1>8. ch = Suggest => PaletteOK(palette', V)
  <2>1. CASE ch = Suggest
    <3>1. V = W
      BY <1>1, <2>1, ChannelsApart
    <3> QED  BY <1>2, <2>1, <3>1 DEF Belongs, Alike, PaletteOK
  <2> QED  BY <2>1
<1>9. Belongs(ch, bin', inst', ana', palette', V)
  BY <1>3, <1>4, <1>5, <1>6, <1>7, <1>8 DEF Belongs
<1> QED  BY <1>9 DEF AskedFor, V

\* So it is enough to look at what a step touches.
LEMMA OnwardBy ==
  ASSUME PagesOK', NEW T,
         \A ch \in LookupChannels \ lapsed' : ch \notin T => Steady(ch) /\ Alike(ch),
         \A ch \in T : ch \in LookupChannels \ lapsed' /\ AskedFor(ch) => AskedFor(ch)'
  PROVE  Onward
BY BelongsKept DEF Onward

\* What is not asked for by the step is waited for as before.
LEMMA SteadyAside ==
  ASSUME Pool, NEW K, Extended(K), inbox' = inbox, NEW ch, ch[2] \notin K
  PROVE  Steady(ch)
<1>1. JobsOK(jobs)
  BY DEF Pool
<1>2. /\ Wants(ch, jobs, inbox) \subseteq Wants(ch, jobs', inbox)
      /\ Wants(ch, jobs', inbox) \subseteq Wants(ch, jobs, inbox)
  BY <1>1, ExtendedWants, Zenon
<1> QED  BY <1>2 DEF Steady

\* What was not overtaken was not waited for.
LEMMA NotOvertaken ==
  ASSUME NEW chs, Overtaken(chs) \subseteq lapsed', NEW ch \in chs, ch \notin lapsed'
  PROVE  Wants(ch, jobs, inbox) = {}
<1>1. ~Pending(ch)
  BY DEF Overtaken
<1> QED  BY <1>1, WantsPending

\* A single request is what is waited for in the end.
LEMMA SoughtOne ==
  ASSUME NEW r
  PROVE  /\ Sought(r.ch, <<r>>) = {r}
         /\ \A ch : ch # r.ch => Sought(ch, <<r>>) = {}
         /\ \A ch : Sought(ch, <<>>) = {}
<1>1. DOMAIN <<r>> = {1} /\ <<r>>[1] = r
  BY OneSeq
<1>2. DOMAIN <<>> = {}
  BY NoneSeq
<1> QED  BY <1>1, <1>2 DEF Sought

\* One request is submitted.
LEMMA SubmittedOne ==
  ASSUME Pool, life' = life, inbox' = inbox, NEW r, Submit(<<r>>), NEW ch
  PROVE  /\ ch # r.ch => Steady(ch)
         /\ ch = r.ch => Wants(ch, jobs', inbox') = Wants(ch, jobs, inbox) \cup {r}
<1>1. Asks(<<r>>, {r.ch[2]})
  BY AsksOne
<1>2. Wants(ch, jobs', inbox) = Wants(ch, jobs, inbox) \cup Sought(ch, <<r>>)
  BY <1>1, SubmittedWants
<1> QED  BY <1>2, SoughtOne DEF Steady

\* None is.
LEMMA SubmittedNone ==
  ASSUME Pool, life' = life, inbox' = inbox, Submit(<<>>), NEW ch
  PROVE  Steady(ch)
<1>1. Asks(<<>>, {})
  BY AsksNone
<1>2. Wants(ch, jobs', inbox) = Wants(ch, jobs, inbox) \cup Sought(ch, <<>>)
  BY <1>1, SubmittedWants
<1> QED  BY <1>2, SoughtOne DEF Steady

\* The pool is left alone.
LEMMA SteadyAlone == ASSUME jobs' = jobs, inbox' = inbox, NEW ch PROVE Steady(ch)
BY DEF Steady

--------------------------------------------------------------------------------
\* The BIN page

\* What the page has asked for is a BIN, and it shows nothing until that is found.
LEMMA SearchShown ==
  ASSUME Pool, PagesOK, NEW q \in Bins, SearchBin(q)
  PROVE  Onward
<1>1. /\ IsBin(bin') /\ bin'.query = q /\ bin'.reading = None /\ bin'.screen \in {"loading", "error"}
      /\ bin'.criteria = bin.criteria /\ bin'.rows = bin.rows
  BY DEF SearchBin, PagesOK, IsBin
<1>2. UNCHANGED <<inst, ana, gauges, palette>> /\ Overtaken({BinSearch, Opinion}) \subseteq lapsed'
  BY DEF SearchBin
<1>3. PagesOK'
  BY <1>1, <1>2 DEF PagesOK
<1>4. /\ Extended({"lookup"}) /\ inbox' = inbox
      /\ \A i \in DOMAIN jobs' \ DOMAIN jobs : jobs'[i].want = Request(BinSearch, q, None)
  BY SearchPooled
<1>5. q # None
  BY WorkbenchAssumption
<1>6. ASSUME NEW ch \in LookupChannels \ lapsed', ch \notin {BinSearch, Opinion}
      PROVE  Steady(ch) /\ Alike(ch)
  <2>1. ch[2] \notin {"lookup"}
    BY <1>6, ChannelsApart DEF LookupChannels, Gauges, Five
  <2>2. Steady(ch)
    BY <1>4, <2>1, SteadyAside
  <2>3. ASSUME NEW p \in Browsers, NEW part \in Range(PartsOf(p)), ch = <<p, part>>,
               inst'[p].screen = "result"
        PROVE  PartAlike(inst[p], inst'[p], part)
    BY <1>2, <2>3 DEF PartAlike
  <2> QED  BY <1>1, <1>2, <1>6, <2>2, <2>3 DEF Alike
<1>7. ASSUME BinSearch \notin lapsed' PROVE AskedFor(BinSearch)'
  <2> DEFINE V == Wants(BinSearch, jobs', inbox')
  <2>1. Wants(BinSearch, jobs, inbox) = {}
    BY <1>2, <1>7, NotOvertaken
  <2>2. ASSUME NEW r \in V PROVE r.of = q
    <3>1. /\ \A i \in DOMAIN jobs : jobs[i].want.ch # BinSearch
          /\ \A i \in DOMAIN inbox : inbox[i].want.ch # BinSearch
      BY <2>1, WantsPending DEF Pending
    <3>2. DOMAIN jobs \subseteq DOMAIN jobs' /\ \A i \in DOMAIN jobs : jobs'[i].want = jobs[i].want
      BY <1>4, SeqDomain DEF Pool, Extended, JobsOK, Same
    <3>3. \E i \in DOMAIN jobs' : jobs'[i].want.ch = BinSearch /\ r = jobs'[i].want
      BY <1>4, <2>2, <3>1 DEF Wants
    <3> QED  BY <1>4, <3>1, <3>2, <3>3 DEF Request
  <2> HIDE DEF V
  <2>3. SearchOK(bin', V)
    BY <1>1, <1>5, <2>2 DEF SearchOK
  <2> QED  BY <2>3, BelongsOf DEF AskedFor, V
<1>8. ASSUME Opinion \notin lapsed' PROVE AskedFor(Opinion)'
  <2>1. Opinion[2] \notin {"lookup"}
    BY ChannelsApart
  <2>2. Wants(Opinion, jobs, inbox) = {} /\ Steady(Opinion)
    BY <1>2, <1>4, <1>8, <2>1, NotOvertaken, SteadyAside
  <2>3. OpinionOK(bin', Wants(Opinion, jobs', inbox'))
    BY <1>1, <2>2 DEF OpinionOK, Steady
  <2> QED  BY <2>3, BelongsOf DEF AskedFor
<1> QED  BY <1>3, <1>6, <1>7, <1>8, OnwardBy

\* A page that is left alone is alike.
LEMMA InstAlike ==
  ASSUME inst' = inst, NEW p, NEW part, inst'[p].screen = "result"
  PROVE  PartAlike(inst[p], inst'[p], part)
BY DEF PartAlike

\* The page is empty again: a search that runs is not shown when it was overtaken.
LEMMA ClearShown ==
  ASSUME Pool, PagesOK, ClearBin
  PROVE  Onward
<1>1. /\ IsBin(bin') /\ bin'.query = None /\ bin'.reading = None /\ bin'.screen = "idle"
      /\ bin'.criteria = bin.criteria /\ bin'.rows = bin.rows
  BY DEF ClearBin, PagesOK, IsBin
<1>2. /\ UNCHANGED <<inst, ana, gauges, palette>> /\ Overtaken({BinSearch, Opinion}) \subseteq lapsed'
      /\ jobs' = jobs /\ inbox' = inbox
  BY DEF ClearBin
<1>3. PagesOK'
  BY <1>1, <1>2 DEF PagesOK
<1>4. \A ch : Steady(ch)
  BY <1>2, SteadyAlone
<1>5. ASSUME NEW ch \in LookupChannels \ lapsed', ch \notin {BinSearch, Opinion}
      PROVE  Steady(ch) /\ Alike(ch)
  BY <1>1, <1>2, <1>4, <1>5, InstAlike DEF Alike
<1>6. ASSUME BinSearch \notin lapsed' PROVE AskedFor(BinSearch)'
  <2>1. Wants(BinSearch, jobs', inbox') = {}
    BY <1>2, <1>4, <1>6, NotOvertaken DEF Steady
  <2>2. SearchOK(bin', Wants(BinSearch, jobs', inbox'))
    BY <1>1, <2>1 DEF SearchOK
  <2> QED  BY <2>2, BelongsOf DEF AskedFor
<1>7. ASSUME Opinion \notin lapsed' PROVE AskedFor(Opinion)'
  <2>1. Wants(Opinion, jobs', inbox') = {}
    BY <1>2, <1>4, <1>7, NotOvertaken DEF Steady
  <2>2. OpinionOK(bin', Wants(Opinion, jobs', inbox'))
    BY <1>1, <2>1 DEF OpinionOK
  <2> QED  BY <2>2, BelongsOf DEF AskedFor
<1> QED  BY <1>3, <1>5, <1>6, <1>7, OnwardBy

\* A second opinion is asked for on what is on the page.
LEMMA OpinionShown ==
  ASSUME Pool, PagesOK, CheckBinlist
  PROVE  Onward
<1> DEFINE r == Request(Opinion, bin.query, None)
<1>1. /\ IsBin(bin') /\ bin'.query = bin.query /\ bin'.reading = bin.reading
      /\ bin'.screen = bin.screen /\ bin'.card = bin.card
      /\ bin'.criteria = bin.criteria /\ bin'.rows = bin.rows
  BY DEF CheckBinlist, PagesOK, IsBin
<1>2. /\ UNCHANGED <<inst, ana, gauges, palette>> /\ Overtaken({Opinion}) \subseteq lapsed'
      /\ Submit(<<r>>) /\ inbox' = inbox /\ life' = life
  BY DEF CheckBinlist
<1>3. PagesOK'
  BY <1>1, <1>2 DEF PagesOK
<1>4. r.ch = Opinion /\ r.of = bin.query
  BY DEF Request
<1> HIDE DEF r
<1>5. ASSUME NEW ch \in LookupChannels \ lapsed', ch \notin {Opinion}
      PROVE  Steady(ch) /\ Alike(ch)
  <2>1. Steady(ch)
    BY <1>2, <1>4, <1>5, SubmittedOne
  <2> QED  BY <1>1, <1>2, <2>1, InstAlike DEF Alike
<1>6. ASSUME Opinion \notin lapsed', AskedFor(Opinion) PROVE AskedFor(Opinion)'
  <2>1. Wants(Opinion, jobs, inbox) = {}
    BY <1>2, <1>6, NotOvertaken
  <2>2. Wants(Opinion, jobs', inbox') = {r}
    BY <1>2, <1>4, <2>1, SubmittedOne
  <2>3. OpinionOK(bin, Wants(Opinion, jobs, inbox))
    BY <1>6, BelongsOf DEF AskedFor
  <2>4. OpinionOK(bin', Wants(Opinion, jobs', inbox'))
    BY <1>1, <1>4, <2>2, <2>3 DEF OpinionOK
  <2> QED  BY <2>4, BelongsOf DEF AskedFor
<1> QED  BY <1>3, <1>5, <1>6, OnwardBy

\* An advanced search is asked for with the criteria on the page.
LEMMA AdvancedShown ==
  ASSUME Pool, PagesOK, NEW t, RunAdvanced(t)
  PROVE  Onward
<1> DEFINE r == Request(Advanced, t, remember)
<1>1. /\ IsBin(bin') /\ bin'.query = bin.query /\ bin'.reading = bin.reading
      /\ bin'.screen = bin.screen /\ bin'.card = bin.card
      /\ bin'.criteria = t /\ bin'.rows = bin.rows
  BY DEF RunAdvanced, PagesOK, IsBin
<1>2. /\ UNCHANGED <<inst, ana, gauges, palette>> /\ Overtaken({Advanced}) \subseteq lapsed'
      /\ Submit(<<r>>) /\ inbox' = inbox /\ life' = life
  BY DEF RunAdvanced
<1>3. PagesOK'
  BY <1>1, <1>2 DEF PagesOK
<1>4. r.ch = Advanced /\ r.of = t
  BY DEF Request
<1> HIDE DEF r
<1>5. ASSUME NEW ch \in LookupChannels \ lapsed', ch \notin {Advanced}
      PROVE  Steady(ch) /\ Alike(ch)
  <2>1. Steady(ch)
    BY <1>2, <1>4, <1>5, SubmittedOne
  <2> QED  BY <1>1, <1>2, <1>5, <2>1, InstAlike DEF Alike
<1>6. ASSUME Advanced \notin lapsed' PROVE AskedFor(Advanced)'
  <2>1. Wants(Advanced, jobs, inbox) = {}
    BY <1>2, <1>6, NotOvertaken
  <2>2. Wants(Advanced, jobs', inbox') = {r}
    BY <1>2, <1>4, <2>1, SubmittedOne
  <2>3. AdvancedOK(bin', Wants(Advanced, jobs', inbox'))
    BY <1>1, <1>4, <2>2 DEF AdvancedOK
  <2> QED  BY <2>3, BelongsOf DEF AskedFor
<1> QED  BY <1>3, <1>5, <1>6, OnwardBy

--------------------------------------------------------------------------------
\* The pages with an institution view

\* Only one does, and it keeps its fields.
LEMMA InstStays ==
  ASSUME PagesOK, NEW p \in Browsers, Others(p), IsInst(p, inst'[p]),
         UNCHANGED <<bin, ana, gauges, palette>>
  PROVE  PagesOK'
BY DEF Others, PagesOK

\* So the channels of the others show what they did.
LEMMA OthersAlike ==
  ASSUME NEW p \in Browsers, Others(p), UNCHANGED <<bin, ana, gauges, palette>>,
         NEW ch, ch \notin PartChannels(p)
  PROVE  Alike(ch)
<1>1. ASSUME NEW o \in Browsers, NEW part \in Range(PartsOf(o)), ch = <<o, part>>,
             inst'[o].screen = "result"
      PROVE  PartAlike(inst[o], inst'[o], part)
  <2>1. o # p
    BY <1>1 DEF PartChannels
  <2>2. inst'[o] = inst[o]
    BY <2>1 DEF Others
  <2> QED  BY <1>1, <2>2 DEF PartAlike
<1> QED  BY <1>1 DEF Alike

\* So does a channel of the one that changes, when nothing is shown there, or the same.
LEMMA PartIsAlike ==
  ASSUME NEW p \in Browsers, NEW part, UNCHANGED <<bin, ana, gauges, palette>>,
         inst'[p].screen = "result" => PartAlike(inst[p], inst'[p], part)
  PROVE  Alike(<<p, part>>)
<1>1. \A q, r : <<p, part>> = <<q, r>> <=> p = q /\ part = r
  OBVIOUS
<1>2. <<p, part>> \notin {BinSearch, Opinion, Advanced, Snapshot, Suggest}
  BY ChannelsApart
<1> QED  BY <1>1, <1>2 DEF Alike

\* The channels of an institution page.
LEMMA ChannelsOfPage ==
  ASSUME NEW p, NEW ch
  PROVE  ch \in PartChannels(p) <=> \E part \in Range(PartsOf(p)) : ch = <<p, part>>
BY DEF PartChannels

\* An institution is asked for on every part.
LEMMA SelectionSought ==
  ASSUME NEW p, NEW i
  PROVE  /\ \A part \in Range(PartsOf(p)) :
              Sought(<<p, part>>, SelectionRequests(p, i)) = {Request(<<p, part>>, i, None)}
         /\ \A ch : ch \notin PartChannels(p) => Sought(ch, SelectionRequests(p, i)) = {}
<1> DEFINE s == PartsOf(p)
           r == SelectionRequests(p, i)
<1>1. DOMAIN r = DOMAIN s /\ \A k \in DOMAIN s : r[k] = Request(<<p, s[k]>>, i, None)
  BY DEF SelectionRequests
<1>2. \A k \in DOMAIN s : r[k].ch = <<p, s[k]>>
  BY <1>1 DEF Request
<1>3. \A part \in Range(s) : \E k \in DOMAIN s : s[k] = part
  BY DEF Range
<1>4. \A k \in DOMAIN s : s[k] \in Range(s)
  BY DEF Range
<1> HIDE DEF s, r
<1>5. ASSUME NEW part \in Range(s)
      PROVE  Sought(<<p, part>>, r) = {Request(<<p, part>>, i, None)}
  <2>1. \A k \in DOMAIN s : r[k].ch = <<p, part>> <=> s[k] = part
    BY <1>2
  <2>2. \A e \in Sought(<<p, part>>, r) : e = Request(<<p, part>>, i, None)
    BY <1>1, <2>1 DEF Sought
  <2>3. Request(<<p, part>>, i, None) \in Sought(<<p, part>>, r)
    BY <1>1, <1>3, <2>1 DEF Sought
  <2> QED  BY <2>2, <2>3
<1>6. ASSUME NEW ch, ch \notin PartChannels(p)
      PROVE  Sought(ch, r) = {}
  <2>1. \A k \in DOMAIN s : <<p, s[k]>> \in PartChannels(p)
    BY <1>4 DEF PartChannels, s
  <2>2. \A k \in DOMAIN r : r[k].ch # ch
    BY <1>1, <1>2, <1>6, <2>1
  <2> QED  BY <2>2 DEF Sought
<1> QED  BY <1>5, <1>6 DEF s, r

\* What an institution page is once one is selected.
LEMMA SelectedPage ==
  ASSUME NEW p, NEW g, IsInst(p, g), NEW i, NEW ms, NEW h, h = Selected(g, i, ms)
  PROVE  /\ IsInst(p, h) /\ h.screen = "result" /\ h.current = i /\ h.filters = None
         /\ h.shown = g.shown
BY DEF IsInst, Selected

\* An institution is selected: all that is on its page is asked for.
LEMMA SelectionShown ==
  ASSUME Pool, PagesOK, NEW p \in Browsers, NEW i, NEW ms,
         inst' = [inst EXCEPT ![p] = Selected(@, i, ms)],
         Submit(SelectionRequests(p, i)), life' = life,
         UNCHANGED <<bin, ana, gauges, palette>>, Overtaken(PartChannels(p)) \subseteq lapsed',
         \A ch \in LookupChannels : /\ Wants(ch, jobs, inbox') \subseteq Wants(ch, jobs, inbox)
                                    /\ Wants(ch, jobs, inbox) \subseteq Wants(ch, jobs, inbox')
  PROVE  Onward
<1>1. Others(p) /\ inst'[p] = Selected(inst[p], i, ms)
  BY DEF Others, PagesOK
<1>2. /\ IsInst(p, inst'[p]) /\ inst'[p].screen = "result" /\ inst'[p].current = i
      /\ inst'[p].filters = None
  <2>1. IsInst(p, inst[p])
    BY DEF PagesOK
  <2> QED  BY <1>1, <2>1, SelectedPage
<1>3. PagesOK'
  BY <1>1, <1>2, InstStays
<1>4. \A ch : Wants(ch, jobs', inbox') = Wants(ch, jobs, inbox') \cup Sought(ch, SelectionRequests(p, i))
  BY SelectionAsks, SubmittedWants
<1>5. ASSUME NEW ch \in LookupChannels \ lapsed', ch \notin PartChannels(p)
      PROVE  Steady(ch) /\ Alike(ch)
  <2>1. Sought(ch, SelectionRequests(p, i)) = {}
    BY <1>5, SelectionSought
  <2>2. Steady(ch)
    BY <1>4, <1>5, <2>1 DEF Steady
  <2> QED  BY <1>1, <1>5, <2>2, OthersAlike
<1>6. ASSUME NEW ch \in PartChannels(p), ch \in LookupChannels \ lapsed'
      PROVE  AskedFor(ch)'
  <2>1. PICK part \in Range(PartsOf(p)) : ch = <<p, part>>
    BY <1>6, ChannelsOfPage
  <2> DEFINE r == Request(<<p, part>>, i, None)
  <2>2. Wants(ch, jobs, inbox) = {}
    BY <1>6, NotOvertaken
  <2>3. Sought(ch, SelectionRequests(p, i)) = {r}
    BY <2>1, SelectionSought
  <2>4. Wants(ch, jobs', inbox') = {r}
    BY <1>4, <1>6, <2>2, <2>3
  <2>5. r.of = i /\ r.by = None
    BY DEF Request
  <2> HIDE DEF r
  <2>6. PartOK(inst'[p], part, Wants(ch, jobs', inbox'))
    BY <1>2, <2>4, <2>5 DEF PartOK, Answers
  <2> QED  BY <2>1, <2>6, BelongsOf DEF AskedFor
<1> QED  BY <1>3, <1>5, <1>6, OnwardBy

\* An institution is chosen from the list, or shown from elsewhere.
LEMMA ChosenShown ==
  ASSUME Pool, PagesOK, NEW p \in Browsers, NEW i \in Institutions, SelectInstitution(p, i)
  PROVE  Onward
<1> DEFINE ms == inst[p].matches
<1>1. /\ inst' = [inst EXCEPT ![p] = Selected(@, i, ms)]
      /\ Submit(SelectionRequests(p, i)) /\ life' = life /\ inbox' = inbox
      /\ UNCHANGED <<bin, ana, gauges, palette>> /\ Overtaken(PartChannels(p)) \subseteq lapsed'
  BY DEF SelectInstitution
<1> HIDE DEF ms
<1>2. \A ch \in LookupChannels : /\ Wants(ch, jobs, inbox') \subseteq Wants(ch, jobs, inbox)
                                 /\ Wants(ch, jobs, inbox) \subseteq Wants(ch, jobs, inbox')
  BY <1>1
<1> QED  BY <1>1, <1>2, SelectionShown

\* A name is looked up, or the field is cleared: no institution is shown until one is found.
LEMMA NamedShown ==
  ASSUME Pool, PagesOK, NEW p \in Browsers,
         (\E n \in Names : SearchName(p, n)) \/ ClearName(p)
  PROVE  Onward
<1>1. /\ Others(p) /\ IsInst(p, inst'[p]) /\ inst'[p].screen # "result"
  <2>a. IsInst(p, inst[p]) /\ DOMAIN inst = Browsers
    BY DEF PagesOK
  <2>1. ASSUME NEW n \in Names, SearchName(p, n)
        PROVE  Others(p) /\ IsInst(p, inst'[p]) /\ inst'[p].screen # "result"
    <3> DEFINE s == IF db.open THEN "loading" ELSE "error"
    <3>1. inst' = [inst EXCEPT ![p].query = n, ![p].screen = s] /\ s # "result"
      BY <2>1 DEF SearchName
    <3> HIDE DEF s
    <3>2. Others(p) /\ inst'[p] = [inst[p] EXCEPT !.query = n, !.screen = s]
      BY <2>a, <3>1 DEF Others
    <3> DEFINE g == inst[p]
               h == inst'[p]
    <3> HIDE DEF g, h
    <3>3. IsInst(p, h) /\ h.screen = s
      <4>1. IsInst(p, g) /\ h = [g EXCEPT !.query = n, !.screen = s]
        BY <2>a, <3>2 DEF g, h
      <4> QED  BY <4>1 DEF IsInst
    <3> QED  BY <3>1, <3>2, <3>3 DEF h
  <2>2. ASSUME ClearName(p)
        PROVE  Others(p) /\ IsInst(p, inst'[p]) /\ inst'[p].screen # "result"
    <3>1. /\ Others(p)
          /\ inst'[p] = [inst[p] EXCEPT !.query = None, !.matches = {}, !.current = None, !.screen = "idle"]
      BY <2>a, <2>2 DEF Others, ClearName
    <3> DEFINE g == inst[p]
               h == inst'[p]
    <3> HIDE DEF g, h
    <3>2. IsInst(p, h) /\ h.screen = "idle"
      <4>1. /\ IsInst(p, g)
            /\ h = [g EXCEPT !.query = None, !.matches = {}, !.current = None, !.screen = "idle"]
        BY <2>a, <3>1 DEF g, h
      <4> QED  BY <4>1 DEF IsInst
    <3> QED  BY <3>1, <3>2 DEF h
  <2> QED  BY <2>1, <2>2
<1>2. UNCHANGED <<bin, ana, gauges, palette>> /\ inbox' = inbox /\ life' = life
  BY DEF SearchName, ClearName
<1>3. PagesOK'
  BY <1>1, <1>2, InstStays
<1>4. ASSUME NEW ch \in LookupChannels PROVE Steady(ch)
  <2>1. ch[2] # "search"
    BY ChannelsApart DEF LookupChannels, Gauges, Five
  <2>2. CASE ClearName(p)
    BY <1>2, <2>2, SteadyAlone DEF ClearName
  <2>3. ASSUME NEW n \in Names, SearchName(p, n) PROVE Steady(ch)
    <3> DEFINE r == Request(Named(p), n, None)
    <3>1. r.ch # ch
      BY <2>1 DEF Request, Named
    <3>2. Submit(<<r>>) \/ Submit(<<>>)
      BY <2>3 DEF SearchName
    <3> HIDE DEF r
    <3> QED  BY <1>2, <3>1, <3>2, SubmittedOne, SubmittedNone
  <2> QED  BY <2>2, <2>3
<1>5. ASSUME NEW ch \in LookupChannels PROVE Alike(ch)
  <2>1. CASE ch \in PartChannels(p)
    BY <1>1, <1>2, <2>1, PartIsAlike, ChannelsOfPage
  <2>2. CASE ch \notin PartChannels(p)
    BY <1>1, <1>2, <2>2, OthersAlike
  <2> QED  BY <2>1, <2>2
<1> QED  BY <1>3, <1>4, <1>5, OnwardBy

\* The rows are asked for again under another filter.
LEMMA FilterShown ==
  ASSUME Pool, PagesOK, NEW p \in Browsers, NEW f, SetFilter(p, f)
  PROVE  Onward
<1> DEFINE g == inst[p]
           h == inst'[p]
           r == RowsRequest(p, f)
           c == <<p, "rows">>
<1>1. Others(p) /\ h = [g EXCEPT !.bar = f, !.filters = f] /\ IsInst(p, g)
  BY DEF Others, SetFilter, PagesOK
<1>2. /\ Submit(<<r>>) /\ life' = life /\ inbox' = inbox /\ g.screen = "result"
      /\ UNCHANGED <<bin, ana, gauges, palette>> /\ Overtaken({c}) \subseteq lapsed'
  BY DEF SetFilter
<1>3. r.ch = c /\ r.of = g.current /\ r.by = f
  BY DEF RowsRequest, Request
<1> HIDE DEF g, h, r
<1>4. /\ IsInst(p, h) /\ h.screen = g.screen /\ h.current = g.current /\ h.filters = f
      /\ h.shown = g.shown
  BY <1>1 DEF IsInst
<1>5. PagesOK'
  BY <1>1, <1>2, <1>4, InstStays DEF h
<1>6. ASSUME NEW ch \in LookupChannels \ lapsed', ch # c
      PROVE  Steady(ch) /\ Alike(ch)
  <2>1. Steady(ch)
    BY <1>2, <1>3, <1>6, SubmittedOne
  <2>2. ASSUME NEW part \in Range(PartsOf(p)), ch = <<p, part>> PROVE Alike(ch)
    <3>1. part # "rows"
      BY <1>6, <2>2
    <3>2. PartAlike(g, h, part)
      BY <1>2, <1>4, <3>1 DEF PartAlike
    <3> QED  BY <1>2, <2>2, <3>2, PartIsAlike DEF g, h
  <2> QED  BY <1>1, <1>2, <2>1, <2>2, OthersAlike, ChannelsOfPage
<1>7. ASSUME c \notin lapsed' PROVE AskedFor(c)'
  <2>1. Wants(c, jobs, inbox) = {}
    BY <1>2, <1>7, NotOvertaken
  <2>2. Wants(c, jobs', inbox') = {r}
    BY <1>2, <1>3, <2>1, SubmittedOne
  <2>3. PartOK(h, "rows", Wants(c, jobs', inbox'))
    BY <1>3, <1>4, <2>2 DEF PartOK, Answers
  <2> QED  BY <2>3, BelongsOf DEF AskedFor, h
<1> HIDE DEF c
<1>8. /\ \A ch \in {c} : ch \in LookupChannels \ lapsed' /\ AskedFor(ch) => AskedFor(ch)'
      /\ \A ch \in LookupChannels \ lapsed' : ch \notin {c} => Steady(ch) /\ Alike(ch)
  BY <1>6, <1>7
<1> QED  BY <1>5, <1>8, OnwardBy

--------------------------------------------------------------------------------
\* The analytics page and the palette

\* It is asked for as the page is set.
LEMMA LoadAsked ==
  ASSUME Pool, life' = life, inbox' = inbox, NEW page, page.loading \in BOOLEAN,
         Submit(LoadRequests(page))
  PROVE  LoadWaits(page)
<1> DEFINE r == Request(Snapshot, Version, page.filter)
<1>1. r.ch = Snapshot
  BY DEF Request
<1>2. page.loading = TRUE => Submit(<<>>)
  BY DEF LoadRequests
<1>3. page.loading = FALSE => Submit(<<r>>)
  BY DEF LoadRequests
<1> HIDE DEF r
<1>4. CASE page.loading = TRUE
  BY <1>2, <1>4, SubmittedNone DEF LoadWaits
<1>5. CASE page.loading = FALSE
  BY <1>1, <1>3, <1>5, SubmittedOne DEF r, LoadWaits
<1> QED  BY <1>4, <1>5

\* The figures are asked for again, or under another filter.
LEMMA LoadShown ==
  ASSUME Pool, PagesOK, life' = life, inbox' = inbox, NEW f \in Filters \cup {None},
         UNCHANGED <<bin, inst, gauges, palette>>, Overtaken({Snapshot}) \subseteq lapsed',
         NEW page, IsAna(page), page.filter = f, page.loading = ana.loading, page.shown = ana.shown,
         page.content = ana.content, Submit(LoadRequests(page)), ana' = [page EXCEPT !.loading = TRUE]
  PROVE  Onward
<1>1. /\ IsAna(ana') /\ ana'.loading = TRUE /\ ana'.filter = f /\ ana'.shown = ana.shown
      /\ ana'.content = ana.content
  BY DEF IsAna
<1>2. PagesOK'
  BY <1>1 DEF PagesOK
<1>b. page.loading \in BOOLEAN
  BY DEF IsAna
<1>c. LoadWaits(page)
  BY <1>b, LoadAsked
<1>3. /\ \A ch : ch # Snapshot => Steady(ch)
      /\ page.loading = FALSE =>
           Wants(Snapshot, jobs', inbox')
             = Wants(Snapshot, jobs, inbox) \cup {Request(Snapshot, Version, page.filter)}
  BY <1>c DEF LoadWaits
<1>4. ASSUME NEW ch \in LookupChannels \ lapsed', ch \notin {Snapshot}
      PROVE  Steady(ch) /\ Alike(ch)
  <2>1. Steady(ch)
    BY <1>3, <1>4
  <2> QED  BY <1>4, <2>1, InstAlike DEF Alike
<1>5. ASSUME Snapshot \notin lapsed', AskedFor(Snapshot) PROVE AskedFor(Snapshot)'
  <2> DEFINE r == Request(Snapshot, Version, page.filter)
  <2>1. Wants(Snapshot, jobs, inbox) = {}
    BY <1>5, NotOvertaken
  <2>2. AnaOK(ana, {})
    BY <1>5, <2>1, BelongsOf DEF AskedFor
  <2>3. page.loading = FALSE
    BY <1>b, <2>2 DEF AnaOK
  <2>4. Wants(Snapshot, jobs', inbox') = {r}
    BY <1>3, <2>1, <2>3
  <2>5. r.by = f
    BY DEF Request
  <2> HIDE DEF r
  <2>6. AnaOK(ana', Wants(Snapshot, jobs', inbox'))
    BY <1>1, <2>2, <2>4, <2>5 DEF AnaOK
  <2> QED  BY <2>6, BelongsOf DEF AskedFor
<1>6. \A ch \in {Snapshot} : ch \in LookupChannels \ lapsed' /\ AskedFor(ch) => AskedFor(ch)'
  BY <1>5
<1> QED  BY <1>2, <1>4, <1>6, OnwardBy

\* The two ways to ask for them.
LEMMA AnalyticsShown ==
  ASSUME Pool, PagesOK, RefreshAnalytics \/ \E f \in Filters \cup {None} : ScopeAnalytics(f)
  PROVE  Onward
<1>a. IsAna(ana)
  BY DEF PagesOK
<1>1. CASE RefreshAnalytics
  <2> DEFINE f == ana.filter
  <2>1. /\ life' = life /\ inbox' = inbox /\ UNCHANGED <<bin, inst, gauges, palette>>
        /\ Overtaken({Snapshot}) \subseteq lapsed'
        /\ Submit(LoadRequests(ana)) /\ ana' = [ana EXCEPT !.loading = TRUE]
    BY <1>1 DEF RefreshAnalytics
  <2>2. f \in Filters \cup {None}
    BY <1>a DEF IsAna
  <2> QED  BY <1>a, <2>1, <2>2, LoadShown
<1>2. ASSUME NEW f \in Filters \cup {None}, ScopeAnalytics(f) PROVE Onward
  <2>1. PICK page : /\ page = [ana EXCEPT !.filter = f]
                    /\ Submit(LoadRequests(page)) /\ ana' = [page EXCEPT !.loading = TRUE]
    BY <1>2 DEF ScopeAnalytics
  <2>2. /\ IsAna(page) /\ page.filter = f /\ page.loading = ana.loading
        /\ page.shown = ana.shown /\ page.content = ana.content
    BY <1>a, <2>1 DEF IsAna
  <2>3. /\ life' = life /\ inbox' = inbox /\ UNCHANGED <<bin, inst, gauges, palette>>
        /\ Overtaken({Snapshot}) \subseteq lapsed'
    BY <1>2 DEF ScopeAnalytics
  <2> QED  BY <2>1, <2>2, <2>3, LoadShown
<1> QED  BY <1>1, <1>2

\* The palette changes, and what belongs together on it.
LEMMA PaletteBy ==
  ASSUME PagesOK, IsPalette(palette'), UNCHANGED <<bin, inst, ana, gauges>>,
         \A ch \in LookupChannels : ch # Suggest => Steady(ch),
         Suggest \notin lapsed' /\ PaletteOK(palette, Wants(Suggest, jobs, inbox))
           => PaletteOK(palette', Wants(Suggest, jobs', inbox'))
  PROVE  Onward
<1>1. PagesOK'
  BY DEF PagesOK
<1>2. \A ch \in LookupChannels \ lapsed' : ch \notin {Suggest} => Steady(ch) /\ Alike(ch)
  BY InstAlike DEF Alike
<1>3. ASSUME Suggest \notin lapsed', AskedFor(Suggest) PROVE AskedFor(Suggest)'
  <2>1. PaletteOK(palette, Wants(Suggest, jobs, inbox))
    BY <1>3, BelongsOf DEF AskedFor
  <2> QED  BY <1>3, <2>1, BelongsOf DEF AskedFor
<1>4. \A ch \in {Suggest} : ch \in LookupChannels \ lapsed' /\ AskedFor(ch) => AskedFor(ch)'
  BY <1>3
<1> QED  BY <1>1, <1>2, <1>4, OnwardBy

\* What is in the palette's list is of the text in its field, or on its way, or the timer
\* will have it asked for.
LEMMA PaletteShown ==
  ASSUME Pool, PagesOK,
         OpenPalette \/ ClosePalette \/ (\E t \in Texts \cup {None} : TypeText(t)) \/ Debounced
  PROVE  Onward
<1>a. IsPalette(palette)
  BY DEF PagesOK
<1>1. CASE OpenPalette
  <2>1. /\ IsPalette(palette') /\ palette'.text = None /\ palette'.dynamic = None
    BY <1>a, <1>1 DEF OpenPalette, IsPalette
  <2>2. /\ jobs' = jobs /\ inbox' = inbox /\ UNCHANGED <<bin, inst, ana, gauges>>
        /\ Overtaken({Suggest}) \subseteq lapsed'
    BY <1>1 DEF OpenPalette
  <2>3. ASSUME Suggest \notin lapsed' PROVE PaletteOK(palette', Wants(Suggest, jobs', inbox'))
    <3>1. Wants(Suggest, jobs', inbox') = {}
      BY <2>2, <2>3, NotOvertaken
    <3> QED  BY <2>1, <3>1 DEF PaletteOK
  <2> QED  BY <2>1, <2>2, <2>3, SteadyAlone, PaletteBy
<1>2. CASE ClosePalette
  <2>1. /\ IsPalette(palette') /\ palette'.text = palette.text /\ palette'.timer = palette.timer
        /\ palette'.dynamic = palette.dynamic
    BY <1>a, <1>2 DEF ClosePalette, IsPalette
  <2>2. jobs' = jobs /\ inbox' = inbox /\ UNCHANGED <<bin, inst, ana, gauges>>
    BY <1>2 DEF ClosePalette
  <2>3. PaletteOK(palette, Wants(Suggest, jobs, inbox)) => PaletteOK(palette', Wants(Suggest, jobs', inbox'))
    BY <2>1, <2>2 DEF PaletteOK
  <2> QED  BY <2>1, <2>2, <2>3, SteadyAlone, PaletteBy
<1>3. ASSUME NEW t \in Texts \cup {None}, TypeText(t) PROVE Onward
  <2>1. /\ IsPalette(palette') /\ palette'.text = t
        /\ palette'.dynamic = IF t = None THEN None ELSE palette.dynamic
    <3> DEFINE v == palette.timer \/ t # None
               d == IF t = None THEN None ELSE palette.dynamic
    <3>1. palette' = [palette EXCEPT !.text = t, !.timer = v, !.dynamic = d]
      BY <1>3 DEF TypeText
    <3>2. v \in BOOLEAN
      OBVIOUS
    <3> HIDE DEF v, d
    <3>3. IsPalette(palette') /\ palette'.text = t /\ palette'.dynamic = d
      BY <1>a, <3>1, <3>2 DEF IsPalette
    <3> QED  BY <3>3 DEF d
  <2>2. /\ jobs' = jobs /\ inbox' = inbox /\ UNCHANGED <<bin, inst, ana, gauges>>
        /\ Overtaken({Suggest}) \subseteq lapsed'
    BY <1>3 DEF TypeText
  <2>3. t # None => palette'.timer = TRUE
    <3> DEFINE v == palette.timer \/ t # None
               d == IF t = None THEN None ELSE palette.dynamic
    <3>1. palette' = [palette EXCEPT !.text = t, !.timer = v, !.dynamic = d]
      BY <1>3 DEF TypeText
    <3>2. t # None => v = TRUE
      OBVIOUS
    <3> HIDE DEF v, d
    <3>3. palette'.timer = v
      BY <1>a, <3>1 DEF IsPalette
    <3> QED  BY <3>2, <3>3
  <2>4. ASSUME Suggest \notin lapsed' PROVE PaletteOK(palette', Wants(Suggest, jobs', inbox'))
    <3>1. Wants(Suggest, jobs', inbox') = {}
      BY <2>2, <2>4, NotOvertaken
    <3> QED  BY <2>1, <2>3, <3>1 DEF PaletteOK
  <2> QED  BY <2>1, <2>2, <2>4, SteadyAlone, PaletteBy
<1>4. CASE Debounced
  <2> DEFINE r == Request(Suggest, palette.text, None)
  <2>1. /\ IsPalette(palette') /\ palette'.timer = FALSE /\ palette'.text = palette.text
        /\ palette'.dynamic = palette.dynamic
    BY <1>a, <1>4 DEF Debounced, IsPalette
  <2>2. /\ inbox' = inbox /\ life' = life /\ UNCHANGED <<bin, inst, ana, gauges>>
        /\ Overtaken({Suggest}) \subseteq lapsed' /\ (~db.open => Suggest \in lapsed')
        /\ palette.text # None /\ db.open => Submit(<<r>>)
        /\ ~(palette.text # None /\ db.open) => Submit(<<>>)
    BY <1>4 DEF Debounced
  <2>3. r.ch = Suggest /\ r.of = palette.text
    BY DEF Request
  <2> HIDE DEF r
  <2>4. \A ch \in LookupChannels : ch # Suggest => Steady(ch)
    BY <2>2, <2>3, SubmittedOne, SubmittedNone
  <2>5. ASSUME Suggest \notin lapsed', PaletteOK(palette, Wants(Suggest, jobs, inbox))
        PROVE  PaletteOK(palette', Wants(Suggest, jobs', inbox'))
    <3>1. Wants(Suggest, jobs, inbox) = {}
      BY <2>2, <2>5, NotOvertaken
    <3>2. CASE palette.text = None
      <4>1. Steady(Suggest)
        BY <2>2, <3>2, SubmittedNone
      <4>2. Wants(Suggest, jobs', inbox') = {}
        BY <3>1, <4>1 DEF Steady
      <4> QED  BY <2>1, <2>5, <3>2, <4>2 DEF PaletteOK
    <3>3. CASE palette.text # None
      <4>1. Wants(Suggest, jobs', inbox') = {r}
        BY <2>2, <2>3, <2>5, <3>1, <3>3, SubmittedOne
      <4> QED  BY <2>1, <2>3, <3>3, <4>1 DEF PaletteOK
    <3> QED  BY <3>2, <3>3
  <2> QED  BY <2>1, <2>2, <2>4, <2>5, PaletteBy
<1> QED  BY <1>1, <1>2, <1>3, <1>4

\* Whatever the user asks of the pages, what is shown belongs together.
LEMMA PageActsShown == ASSUME Pool, PagesOK, PageActs PROVE Onward
BY SearchShown, ClearShown, OpinionShown, AdvancedShown, NamedShown, ChosenShown, FilterShown,
   AnalyticsShown, PaletteShown DEF PageActs

--------------------------------------------------------------------------------
\* The worker threads, and what happens elsewhere

\* A worker that was cancelled goes unheard.
LEMMA GoneWants ==
  ASSUME JobsOK(jobs), NEW k \in DOMAIN jobs, jobs' = RemoveAt(jobs, k), inbox' = inbox, NEW ch
  PROVE  /\ Wants(ch, jobs', inbox') \subseteq Wants(ch, jobs, inbox)
         /\ Sights(ch, jobs', inbox') \subseteq Sights(ch, jobs, inbox)
<1>1. \A i \in DOMAIN jobs' : \E j \in DOMAIN jobs : jobs'[i] = jobs[j]
  <2>1. IsSeq(jobs)
    BY DEF JobsOK
  <2>2. /\ Len(jobs) \in Nat /\ DOMAIN jobs = 1 .. Len(jobs) /\ DOMAIN jobs' = 1 .. Len(jobs) - 1
        /\ \A i \in DOMAIN jobs' : jobs'[i] = jobs[IF i < k THEN i ELSE i + 1]
    BY <2>1, RemoveOwn, SeqDomain
  <2>3. ASSUME NEW i \in DOMAIN jobs'
        PROVE  (IF i < k THEN i ELSE i + 1) \in DOMAIN jobs
    BY <2>2
  <2> QED  BY <2>2, <2>3
<1>2. Wants(ch, jobs', inbox') \subseteq Wants(ch, jobs, inbox)
  BY <1>1 DEF Wants
<1>3. Sights(ch, jobs', inbox') \subseteq Sights(ch, jobs, inbox)
  BY <1>1 DEF Sights
<1> QED  BY <1>2, <1>3

\* The channels have their kinds.
LEMMA ChannelKinds ==
  ASSUME NEW ch \in LookupChannels
  PROVE  /\ ch[2] \in LookupKinds /\ ch[2] \notin WorkKinds /\ ch # Install
         /\ ch \notin Gauges => ch[2] \notin GaugeKinds
<1>1. ch[2] \in {"lookup", "reading", "advanced", "snapshot", "suggest", "health", "quality",
                 "stats", "options", "portfolio", "rows", "distributions"}
  BY ChannelsApart DEF LookupChannels, Gauges, Five
<1>2. ch \notin Gauges => ch[2] \notin GaugeKinds
  BY ChannelsApart DEF LookupChannels, Gauges, Five, GaugeKinds
<1>3. Install[2] = "install"
  BY DEF Install
<1> QED  BY <1>1, <1>2, <1>3 DEF LookupKinds, WorkKinds, MaintenanceKinds, Checks, UpdateKinds

\* A worker begins, goes on or ends: what is waited for stays.
LEMMA WorkersWants ==
  ASSUME Pool, life = "running", NEW k \in DOMAIN jobs,
         Start(k) \/ Work(k) \/ UpdateWork(k) \/ Finish(k), NEW ch \in LookupChannels
  PROVE  Steady(ch) /\ Looks(ch)
<1>a. JobsOK(jobs) /\ QueueOK(inbox)
  BY DEF Pool
<1>b. ASSUME Wants(ch, jobs', inbox') = Wants(ch, jobs, inbox),
             Sights(ch, jobs', inbox') = Sights(ch, jobs, inbox)
      PROVE  Steady(ch) /\ Looks(ch)
  BY <1>b DEF Steady, Looks
<1>c. ASSUME NEW outcome, jobs' = RemoveAt(jobs, k),
             inbox' = Append(inbox, Answered(jobs[k].want, outcome, jobs[k].saw))
      PROVE  Steady(ch) /\ Looks(ch)
  <2> DEFINE m == Answered(jobs[k].want, outcome, jobs[k].saw)
  <2>1. m.want = jobs[k].want /\ m.saw = jobs[k].saw /\ inbox' = Append(inbox, m)
    BY <1>c DEF Answered
  <2> HIDE DEF m
  <2>2. /\ Wants(ch, jobs', inbox') = Wants(ch, jobs, inbox)
        /\ Sights(ch, jobs', inbox') = Sights(ch, jobs, inbox)
    BY <1>a, <1>c, <2>1, LeftWants
  <2> QED  BY <1>b, <2>2
<1>1. CASE Work(k) \/ UpdateWork(k)
  <2>1. CASE GoesOn(k)
    <3>1. PICK place, note : Goes(k, place, note) /\ inbox' = inbox
      BY <2>1 DEF GoesOn
    <3>2. /\ Wants(ch, jobs', inbox) = Wants(ch, jobs, inbox)
          /\ Sights(ch, jobs', inbox) = Sights(ch, jobs, inbox)
      BY <1>a, <3>1, GoesWants
    <3> QED  BY <1>b, <3>1, <3>2
  <2>2. CASE EndsWith(k)
    <3>1. PICK outcome : Ends(k, outcome)
      BY <2>2 DEF EndsWith
    <3> QED  BY <1>c, <3>1 DEF Ends
  <2> QED  BY <1>1, <2>1, <2>2, Working
<1>2. CASE Finish(k)
  <2>1. PICK outcome : /\ jobs' = RemoveAt(jobs, k)
                       /\ inbox' = Append(inbox, Answered(jobs[k].want, outcome, jobs[k].saw))
    BY <1>2 DEF Finish
  <2> QED  BY <1>c, <2>1
<1>3. CASE Start(k) /\ jobs[k].cancelled
  <2>1. jobs[k].want.ch \in {BinSearch, Install} /\ jobs' = RemoveAt(jobs, k)
    BY <1>3 DEF Pool, CancelOK, Start
  <2>2. CASE inbox' = inbox /\ ch = BinSearch
    <3>1. /\ Wants(ch, jobs', inbox') \subseteq Wants(ch, jobs, inbox)
          /\ Sights(ch, jobs', inbox') \subseteq Sights(ch, jobs, inbox)
      BY <1>a, <2>1, <2>2, GoneWants
    <3> QED  BY <2>2, <3>1 DEF Steady, Looks
  <2>3. CASE inbox' = inbox /\ ch # BinSearch
    <3>1. jobs[k].want.ch # ch
      BY <2>1, <2>3, ChannelKinds
    <3>2. /\ Wants(ch, jobs', inbox') = Wants(ch, jobs, inbox)
          /\ Sights(ch, jobs', inbox') = Sights(ch, jobs, inbox)
      BY <1>a, <2>1, <2>3, <3>1, LeftWants
    <3> QED  BY <1>b, <3>2
  <2>4. CASE inbox' # inbox
    <3> DEFINE m == Answered(jobs[k].want, "cancelled", Unread)
    <3>1. inbox' = Append(inbox, m) /\ Hears(jobs[k].want)
      BY <1>3, <2>4 DEF Start
    <3>2. jobs[k].want.ch # ch
      BY <2>1, <3>1, ChannelsApart, ChannelKinds DEF Hears
    <3>3. m.want = jobs[k].want
      BY DEF Answered
    <3> HIDE DEF m
    <3>4. /\ Wants(ch, jobs', inbox') = Wants(ch, jobs, inbox)
          /\ Sights(ch, jobs', inbox') = Sights(ch, jobs, inbox)
      BY <1>a, <2>1, <3>1, <3>2, <3>3, LeftWants
    <3> QED  BY <1>b, <3>4
  <2> QED  BY <2>2, <2>3, <2>4
<1>4. CASE Start(k) /\ ~jobs[k].cancelled
  <2> DEFINE w == jobs[k].want
             s == Seen(w)
  <2>1. jobs' = [jobs EXCEPT ![k].begun = TRUE, ![k].saw = s] /\ inbox' = inbox
    BY <1>4 DEF Start
  <2> HIDE DEF s
  <2>2. /\ DOMAIN jobs' = DOMAIN jobs /\ \A i \in DOMAIN jobs \ {k} : jobs'[i] = jobs[i]
        /\ jobs'[k].want = w /\ jobs'[k].saw = s
    BY <1>a, <2>1, HasStarted
  <2>3. \A i \in DOMAIN jobs : jobs'[i].want = jobs[i].want
    BY <2>2
  <2>4. Wants(ch, jobs', inbox') = Wants(ch, jobs, inbox)
    BY <2>1, <2>2, <2>3 DEF Wants
  <2>5. ASSUME NEW i \in DOMAIN jobs', jobs'[i].want.ch = ch
        PROVE  jobs'[i].saw.content \in
                 (Sights(ch, jobs, inbox) \cup {0}) \cup {Seen(r).content : r \in Wants(ch, jobs, inbox)}
    <3>1. CASE i = k
      <4>1. w \in Wants(ch, jobs, inbox)
        BY <2>2, <2>5, <3>1 DEF Wants
      <4> QED  BY <2>2, <3>1, <4>1 DEF s
    <3>2. CASE i # k
      BY <2>2, <2>5, <3>2 DEF Sights
    <3> QED  BY <3>1, <3>2
  <2>6. \A x \in Sights(ch, jobs', inbox') :
          \/ \E i \in DOMAIN jobs' : jobs'[i].want.ch = ch /\ x = jobs'[i].saw.content
          \/ x \in Sights(ch, jobs, inbox)
    BY <2>1 DEF Sights
  <2>7. Looks(ch)
    BY <2>5, <2>6 DEF Looks
  <2> QED  BY <2>4, <2>7 DEF Steady
<1> QED  BY <1>1, <1>2, <1>3, <1>4

\* The pool is extended beside the pages, or by what the gauges are asked for.
LEMMA ExtendedElsewhere ==
  ASSUME Pool, NEW K, Extended(K), Unheard, NEW ch \in LookupChannels
  PROVE  /\ Looks(ch)
         /\ ch[2] \notin K => Steady(ch)
         /\ Wants(ch, jobs, inbox) \subseteq Wants(ch, jobs', inbox')
<1>1. JobsOK(jobs) /\ QueueOK(inbox)
  BY DEF Pool
<1>2. /\ Wants(ch, jobs, inbox) \subseteq Wants(ch, jobs', inbox)
      /\ ch[2] \notin K => Wants(ch, jobs', inbox) \subseteq Wants(ch, jobs, inbox)
      /\ Sights(ch, jobs', inbox) \subseteq
           (Sights(ch, jobs, inbox) \cup {0}) \cup {Seen(r).content : r \in Wants(ch, jobs, inbox)}
  BY <1>1, ExtendedWants, Zenon
<1>3. /\ Wants(ch, jobs', inbox') = Wants(ch, jobs', inbox)
      /\ Sights(ch, jobs', inbox') \subseteq Sights(ch, jobs', inbox)
  <2>1. CASE inbox' = inbox
    BY <2>1
  <2>2. CASE /\ inbox # <<>> /\ inbox' = Tail(inbox)
             /\ Head(inbox).want.ch[2] \notin LookupKinds
    <3>1. Head(inbox).want.ch # ch
      BY <2>2, ChannelKinds
    <3> QED  BY <1>1, <2>2, <3>1, HandledWants
  <2> QED  BY <2>1, <2>2 DEF Unheard
<1> QED  BY <1>2, <1>3 DEF Looks, Steady

\* Beside the pages, only the gauges may be asked for.
LEMMA ElsewhereWants ==
  ASSUME Pool, life = "running", Elsewhere, NEW ch \in LookupChannels
  PROVE  /\ Looks(ch)
         /\ Steady(ch) \/ (/\ ch \in Gauges /\ "health" \in visited
                           /\ Wants(ch, jobs, inbox) \subseteq Wants(ch, jobs', inbox'))
<1>1. CASE Extended(WorkKinds) /\ Unheard
  BY <1>1, ExtendedElsewhere, ChannelKinds
<1>2. CASE Extended(GaugeKinds) /\ "health" \in visited /\ Unheard
  BY <1>2, ExtendedElsewhere, ChannelKinds
<1>3. CASE \E k \in DOMAIN jobs : Start(k) \/ Work(k) \/ UpdateWork(k)
  BY <1>3, WorkersWants
<1> QED  BY <1>1, <1>2, <1>3 DEF Elsewhere

\* So what is shown on the pages stays.
LEMMA ElsewhereShown ==
  ASSUME Pool, PagesOK, life = "running", Elsewhere
  PROVE  Onward
<1>1. UNCHANGED <<bin, inst, ana, gauges, palette>>
  BY DEF Elsewhere, pages
<1>2. PagesOK'
  BY <1>1 DEF PagesOK
<1>3. \A ch \in LookupChannels \ lapsed' : ch \notin Gauges => Steady(ch) /\ Alike(ch)
  BY <1>1, ElsewhereWants, InstAlike DEF Alike
<1>4. \A ch \in Gauges : AskedFor(ch)'
  BY BelongsOf DEF AskedFor
<1> QED  BY <1>2, <1>3, <1>4, OnwardBy

\* An answer comes, and the figures are kept in the cache.
LEMMA FinishShown ==
  ASSUME Pool, PagesOK, life = "running", NEW k \in DOMAIN jobs, Finish(k)
  PROVE  Onward
<1>1. UNCHANGED <<bin, inst, gauges, palette>>
  BY DEF Finish
<1>2. IsAna(ana') /\ ana'.loading = ana.loading /\ ana'.filter = ana.filter
      /\ ana'.shown = ana.shown /\ ana'.content = ana.content
  <2>1. IsAna(ana)
    BY DEF PagesOK
  <2>2. CASE ana' = ana
    BY <2>1, <2>2
  <2>3. CASE ana' # ana
    <3> DEFINE e == [label |-> jobs[k].want.of, content |-> jobs[k].saw.content]
               f == jobs[k].want.by
    <3>1. ana' = [ana EXCEPT !.cache[f] = e]
      BY <2>3 DEF Finish
    <3> HIDE DEF e, f
    <3> DEFINE c == [ana.cache EXCEPT ![f] = e]
    <3>2. ana' = [ana EXCEPT !.cache = c] /\ DOMAIN c = DOMAIN ana.cache
      BY <3>1
    <3> HIDE DEF c
    <3> QED  BY <2>1, <3>2 DEF IsAna
  <2> QED  BY <2>2, <2>3
<1>3. PagesOK'
  BY <1>1, <1>2 DEF PagesOK
<1>4. \A ch \in LookupChannels \ lapsed' : ch \notin {} => Steady(ch) /\ Alike(ch)
  BY <1>1, <1>2, WorkersWants, InstAlike DEF Alike
<1> QED  BY <1>3, <1>4, OnwardBy

--------------------------------------------------------------------------------
\* The pages are told of a new database

\* What two lists of requests ask for.
LEMMA SoughtBoth ==
  ASSUME NEW s, IsSeq(s), NEW t, IsSeq(t), NEW ch
  PROVE  Sought(ch, s \o t) = Sought(ch, s) \cup Sought(ch, t)
<1> DEFINE u == s \o t
<1>1. /\ DOMAIN u = 1 .. Len(s) + Len(t)
      /\ \A i \in DOMAIN s : u[i] = s[i]
      /\ \A i \in DOMAIN u \ DOMAIN s : i - Len(s) \in DOMAIN t /\ u[i] = t[i - Len(s)]
  BY ConcatOwn
<1>2. Len(s) \in Nat /\ DOMAIN s = 1 .. Len(s) /\ Len(t) \in Nat /\ DOMAIN t = 1 .. Len(t)
  BY SeqDomain
<1> HIDE DEF u
<1>3. ASSUME NEW j \in DOMAIN t PROVE \E i \in DOMAIN u : u[i] = t[j]
  <2> DEFINE i == Len(s) + j
  <2>1. i \in DOMAIN u \ DOMAIN s /\ i - Len(s) = j
    BY <1>1, <1>2
  <2> HIDE DEF i
  <2> QED  BY <1>1, <2>1
<1>4. \A i \in DOMAIN s : i \in DOMAIN u
  BY <1>1, <1>2
<1>5. Sought(ch, u) \subseteq Sought(ch, s) \cup Sought(ch, t)
  BY <1>1 DEF Sought
<1>6. Sought(ch, s) \subseteq Sought(ch, u)
  BY <1>1, <1>4 DEF Sought
<1>7. Sought(ch, t) \subseteq Sought(ch, u)
  BY <1>3 DEF Sought
<1> QED  BY <1>5, <1>6, <1>7 DEF u

\* What the administration page measures.
LEMMA SoughtMeasures ==
  ASSUME NEW idle
  PROVE  /\ \A ch \in LookupChannels \ Gauges : Sought(ch, Measures(idle)) = {}
         /\ "health" \notin visited => \A ch : Sought(ch, Measures(idle)) = {}
         /\ "health" \in visited =>
              /\ Sought(Quality, Measures(idle)) # {}
              /\ idle => Sought(Health, Measures(idle)) # {}
<1>1. \A ch \in LookupChannels \ Gauges : Sought(ch, Measures(idle)) = {}
  BY GaugesAsked, ChannelKinds DEF Asks, Sought
<1>2. CASE "health" \notin visited
  BY <1>1, <1>2, SoughtOne DEF Measures
<1>3. CASE "health" \in visited
  <2> DEFINE q == Request(Quality, None, None)
             h == Request(Health, None, None)
             s == IF idle THEN <<h>> ELSE <<>>
  <2>1. Measures(idle) = s \o <<q>> /\ q.ch = Quality /\ h.ch = Health
    BY <1>3 DEF Measures, Request
  <2>2. IsSeq(<<q>>) /\ IsSeq(<<h>>) /\ IsSeq(<<>>)
    BY OneSeq, NoneSeq
  <2> HIDE DEF q, h
  <2>3. IsSeq(s) /\ (idle => s = <<h>>)
    BY <2>2
  <2> HIDE DEF s
  <2>4. Sought(Quality, <<q>>) = {q} /\ Sought(Health, <<h>>) = {h}
    BY <2>1, SoughtOne
  <2>5. \A ch : Sought(ch, Measures(idle)) = Sought(ch, s) \cup Sought(ch, <<q>>)
    BY <2>1, <2>2, <2>3, SoughtBoth
  <2> QED  BY <1>1, <1>3, <2>3, <2>4, <2>5
<1> QED  BY <1>2, <1>3

\* What the analytics page loads.
LEMMA SoughtLoad ==
  ASSUME NEW page
  PROVE  /\ IsSeq(LoadRequests(page))
         /\ \A ch : ch # Snapshot => Sought(ch, LoadRequests(page)) = {}
         /\ page.loading = FALSE =>
              Sought(Snapshot, LoadRequests(page)) = {Request(Snapshot, Version, page.filter)}
<1> DEFINE r == Request(Snapshot, Version, page.filter)
<1>1. r.ch = Snapshot
  BY DEF Request
<1>2. LoadRequests(page) = <<>> \/ LoadRequests(page) = <<r>>
  BY DEF LoadRequests
<1>3. page.loading = FALSE => LoadRequests(page) = <<r>>
  BY DEF LoadRequests
<1> HIDE DEF r
<1>4. IsSeq(<<>>) /\ IsSeq(<<r>>)
  BY OneSeq, NoneSeq
<1> QED  BY <1>1, <1>2, <1>3, <1>4, SoughtOne DEF r

\* Whoever reloads waits for it.
LEMMA ReloadAsked ==
  ASSUME Pool, life' = life, inbox # <<>>, inbox' = Tail(inbox), Head(inbox).want.ch[2] \in Replacing,
         NEW open, NEW idle, Reload(open, idle)
  PROVE  ReloadWaits(open, idle)
<1> DEFINE load == LoadRequests(ana)
           measures == Measures(idle)
           requests == IF open THEN load \o measures ELSE <<>>
<1>1. Asks(requests, LookupKinds)
  BY LoadAsks, MeasuresAsk, AsksBoth, AsksNone
<1>2. Submit(requests)
  BY DEF Reload
<1>3. IsSeq(load) /\ IsSeq(measures)
  BY SoughtLoad, GaugesAsked DEF Asks
<1>4. /\ open => requests = load \o measures
      /\ ~open => requests = <<>>
  OBVIOUS
<1>5. QueueOK(inbox)
  BY DEF Pool
<1> HIDE DEF requests
<1>6. ASSUME NEW ch \in LookupChannels
      PROVE  /\ Wants(ch, jobs', inbox') = Wants(ch, jobs, inbox) \cup Sought(ch, requests)
             /\ Sights(ch, jobs', inbox') \subseteq Sights(ch, jobs, inbox) \cup {0}
  <2>1. /\ Wants(ch, jobs', inbox') = Wants(ch, jobs, inbox') \cup Sought(ch, requests)
        /\ Sights(ch, jobs', inbox') \subseteq Sights(ch, jobs, inbox') \cup {0}
    BY <1>1, <1>2, SubmittedWants
  <2>2. Head(inbox).want.ch # ch
    BY ChannelKinds DEF Replacing, LookupKinds
  <2>3. /\ Wants(ch, jobs, inbox') = Wants(ch, jobs, inbox)
        /\ Sights(ch, jobs, inbox') \subseteq Sights(ch, jobs, inbox)
    BY <1>5, <2>2, HandledWants
  <2> QED  BY <2>1, <2>3
<1> HIDE DEF load, measures
<1>7. ASSUME NEW ch
      PROVE  /\ open => Sought(ch, requests) = Sought(ch, load) \cup Sought(ch, measures)
             /\ ~open => Sought(ch, requests) = {}
  <2>1. Sought(ch, load \o measures) = Sought(ch, load) \cup Sought(ch, measures)
    BY <1>3, SoughtBoth
  <2>2. Sought(ch, <<>>) = {}
    BY SoughtOne
  <2> QED  BY <1>4, <2>1, <2>2
<1>8. /\ \A ch : ch # Snapshot => Sought(ch, load) = {}
      /\ ana.loading = FALSE => Sought(Snapshot, load) = {Request(Snapshot, Version, ana.filter)}
  BY SoughtLoad DEF load
<1>9. /\ \A ch \in LookupChannels \ Gauges : Sought(ch, measures) = {}
      /\ "health" \notin visited => \A ch : Sought(ch, measures) = {}
      /\ "health" \in visited => /\ Sought(Quality, measures) # {}
                                 /\ idle => Sought(Health, measures) # {}
  BY SoughtMeasures DEF measures
<1>10. /\ Snapshot \in LookupChannels \ Gauges /\ Gauges \subseteq LookupChannels
       /\ Snapshot \notin Gauges /\ Health \in Gauges /\ Quality \in Gauges
       /\ Reloaded = {Snapshot} \cup Gauges
  BY ChannelsApart DEF LookupChannels, Gauges, Reloaded
<1>11. \A ch \in LookupChannels : ch \notin Reloaded => Steady(ch)
  BY <1>6, <1>7, <1>8, <1>9, <1>10 DEF Steady
<1>12. ASSUME open, ana.loading = FALSE
       PROVE  Wants(Snapshot, jobs', inbox')
                = Wants(Snapshot, jobs, inbox) \cup {Request(Snapshot, Version, ana.filter)}
  BY <1>6, <1>7, <1>8, <1>9, <1>10, <1>12
<1>13. ASSUME "health" \notin visited, NEW ch \in Gauges
       PROVE  Wants(ch, jobs', inbox') = Wants(ch, jobs, inbox)
  BY <1>6, <1>7, <1>8, <1>9, <1>10, <1>13, ZenonT(60)
<1>14. ASSUME "health" \in visited, open
       PROVE  /\ Wants(Quality, jobs', inbox') # {}
              /\ idle => Wants(Health, jobs', inbox') # {}
  BY <1>6, <1>7, <1>9, <1>10, <1>14
<1> QED  BY <1>6, <1>11, <1>12, <1>13, <1>14 DEF ReloadWaits

\* What is shown is what was, until what is asked for again has come.
LEMMA ReloadsShown ==
  ASSUME Pool, PagesOK, life' = life, Reloads
  PROVE  Onward
<1>1. /\ inbox # <<>> /\ inbox' = Tail(inbox) /\ Head(inbox).want.ch[2] \in Replacing
      /\ UNCHANGED <<inst, gauges, palette>>
  BY DEF Reloads
<1>2. /\ Gauges \subseteq LookupChannels /\ Reloaded = {Snapshot} \cup Gauges
  BY DEF LookupChannels, Reloaded
<1>3. \A ch \in Gauges : AskedFor(ch)'
  BY BelongsOf DEF AskedFor
<1>4. CASE UNCHANGED <<jobs, bin, ana>> /\ Reloaded \subseteq lapsed'
  <2>1. PagesOK'
    BY <1>1, <1>4 DEF PagesOK
  <2>2. ASSUME NEW ch \in LookupChannels PROVE Steady(ch)
    <3>1. Head(inbox).want.ch # ch
      BY <1>1, ChannelKinds DEF Replacing, LookupKinds
    <3>2. Wants(ch, jobs, inbox') = Wants(ch, jobs, inbox)
      BY <1>1, <3>1, HandledWants DEF Pool
    <3> QED  BY <1>4, <3>2 DEF Steady
  <2>3. \A ch \in LookupChannels \ lapsed' : ch \notin {} => Steady(ch) /\ Alike(ch)
    BY <1>1, <1>4, <2>2, InstAlike DEF Alike
  <2> QED  BY <2>1, <2>3, OnwardBy
<1>5. ASSUME NEW open, NEW idle, Reload(open, idle), Overtaken(Reloaded) \subseteq lapsed',
             ~open => Reloaded \subseteq lapsed'
      PROVE  Onward
  <2>1. /\ IsBin(bin') /\ bin'.query = bin.query /\ bin'.reading = bin.reading
        /\ bin'.screen = bin.screen /\ bin'.card = bin.card
        /\ bin'.criteria = bin.criteria /\ bin'.rows = bin.rows
    BY <1>5 DEF Reload, PagesOK, IsBin
  <2>2. /\ IsAna(ana') /\ ana'.filter = ana.filter /\ ana'.shown = ana.shown
        /\ ana'.content = ana.content
    <3> DEFINE v == ana.loading \/ open
               c == NoCache
    <3>1. ana' = [ana EXCEPT !.cache = c, !.loading = v]
      BY <1>5 DEF Reload
    <3>2. v \in BOOLEAN /\ DOMAIN c = Filters \cup {None}
      BY DEF NoCache
    <3> HIDE DEF v, c
    <3> QED  BY <3>1, <3>2 DEF PagesOK, IsAna
  <2>3. PagesOK'
    BY <1>1, <2>1, <2>2 DEF PagesOK
  <2>4. ReloadWaits(open, idle)
    BY <1>1, <1>5, ReloadAsked
  <2>5. \A ch \in LookupChannels : ch \notin Reloaded => Steady(ch) /\ Alike(ch)
    BY <1>1, <1>2, <2>1, <2>4, InstAlike DEF Alike, ReloadWaits
  <2>6. ASSUME Snapshot \notin lapsed', AskedFor(Snapshot) PROVE AskedFor(Snapshot)'
    <3> DEFINE r == Request(Snapshot, Version, ana.filter)
    <3>1. Wants(Snapshot, jobs, inbox) = {} /\ open
      BY <1>2, <1>5, <2>6, NotOvertaken
    <3>2. AnaOK(ana, {})
      BY <2>6, <3>1, BelongsOf DEF AskedFor
    <3>3. ana.loading = FALSE
      BY <3>2 DEF AnaOK, PagesOK, IsAna
    <3>4. Wants(Snapshot, jobs', inbox') = {r}
      BY <2>4, <3>1, <3>3 DEF ReloadWaits
    <3>5. r.by = ana.filter
      BY DEF Request
    <3> HIDE DEF r
    <3>6. AnaOK(ana', Wants(Snapshot, jobs', inbox'))
      BY <2>2, <3>2, <3>4, <3>5 DEF AnaOK
    <3> QED  BY <3>6, BelongsOf DEF AskedFor
  <2>7. \A ch \in Reloaded : ch \in LookupChannels \ lapsed' /\ AskedFor(ch) => AskedFor(ch)'
    BY <1>2, <1>3, <2>6
  <2>8. \A ch \in LookupChannels \ lapsed' : ch \notin Reloaded => Steady(ch) /\ Alike(ch)
    BY <2>5
  <2> QED  BY <2>3, <2>7, <2>8, OnwardBy
<1> QED  BY <1>4, <1>5 DEF Reloads

--------------------------------------------------------------------------------
\* Answers

\* It is the answer to something that was waited for, and nothing else is waited for.
LEMMA AnswerWants ==
  ASSUME Pool, NEW m, m = Head(inbox), inbox # <<>>, inbox' = Tail(inbox), Extended({}),
         NEW ch \in LookupChannels
  PROVE  /\ Looks(ch)
         /\ Wants(ch, jobs', inbox') \subseteq Wants(ch, jobs, inbox)
         /\ m.want.ch # ch => Steady(ch)
         /\ m.want.ch = ch => /\ m.want \in Wants(ch, jobs, inbox)
                              /\ m.saw.content \in Sights(ch, jobs, inbox)
<1>1. JobsOK(jobs) /\ QueueOK(inbox)
  BY DEF Pool
<1>2. /\ Wants(ch, jobs, inbox) \subseteq Wants(ch, jobs', inbox)
      /\ Wants(ch, jobs', inbox) \subseteq Wants(ch, jobs, inbox)
      /\ Sights(ch, jobs', inbox) \subseteq
           (Sights(ch, jobs, inbox) \cup {0}) \cup {Seen(r).content : r \in Wants(ch, jobs, inbox)}
  <2>1. ch[2] \notin {}
    OBVIOUS
  <2> QED  BY <1>1, <2>1, ExtendedWants, Zenon
<1>3. /\ Wants(ch, jobs', inbox') \subseteq Wants(ch, jobs', inbox)
      /\ Sights(ch, jobs', inbox') \subseteq Sights(ch, jobs', inbox)
      /\ m.want.ch # ch => Wants(ch, jobs', inbox') = Wants(ch, jobs', inbox)
  BY <1>1, HandledWants
<1>4. m.want.ch = ch => /\ m.want \in Wants(ch, jobs, inbox)
                        /\ m.saw.content \in Sights(ch, jobs, inbox)
  BY <1>1, HandledWants
<1>5. Looks(ch)
  BY <1>2, <1>3 DEF Looks
<1>6. m.want.ch # ch => Steady(ch)
  BY <1>2, <1>3 DEF Steady
<1> QED  BY <1>2, <1>3, <1>4, <1>5, <1>6

\* So only what it is shown in is to be looked at.
LEMMA AnswerBy ==
  ASSUME NEW m, Handling(m), Extended({}), PagesOK', NEW c \in LookupChannels, m.want.ch = c,
         \A ch \in LookupChannels : ch # c => Alike(ch),
         ASSUME c \notin lapsed', AskedFor(c), m.want \in Wants(c, jobs, inbox),
                Wants(c, jobs', inbox') \subseteq Wants(c, jobs, inbox)
         PROVE  AskedFor(c)'
  PROVE  Onward
<1>1. /\ Pool /\ inbox # <<>> /\ inbox' = Tail(inbox) /\ m = Head(inbox)
  BY DEF Handling
<1>2. \A ch \in LookupChannels \ lapsed' : ch \notin {c} => Steady(ch) /\ Alike(ch)
  BY <1>1, AnswerWants
<1>3. /\ m.want \in Wants(c, jobs, inbox)
      /\ Wants(c, jobs', inbox') \subseteq Wants(c, jobs, inbox)
  BY <1>1, AnswerWants
<1>4. \A ch \in {c} : ch \in LookupChannels \ lapsed' /\ AskedFor(ch) => AskedFor(ch)'
  BY <1>3
<1> QED  BY <1>2, <1>4, OnwardBy

\* The pool is left alone by it, but by the BIN page.
LEMMA HandlingLeaves ==
  ASSUME NEW m, Handling(m), jobs' = jobs
  PROVE  Extended({})
BY LeftAlone DEF Handling, Pool

\* The BIN page shows the card of what it searches.
LEMMA BinResultShown ==
  ASSUME NEW m, Handling(m), OnBinResult(m)
  PROVE  Onward
<1> DEFINE s == ResultScreen(m.outcome)
           d == IF m.outcome = "found" THEN m.want.of ELSE bin.card
           W == Wants(BinSearch, jobs, inbox)
           V == Wants(BinSearch, jobs', inbox')
<1>1. /\ m.want.ch = BinSearch /\ BinSearch \in LookupChannels
      /\ bin' = [bin EXCEPT !.screen = s, !.card = d]
      /\ UNCHANGED <<inst, ana, gauges, palette>>
  BY DEF OnBinResult, LookupChannels
<1>2. /\ s = "result" => d = m.want.of
  BY DEF ResultScreen
<1> HIDE DEF s, d, V, W
<1>3. /\ IsBin(bin') /\ bin'.screen = s /\ bin'.card = d /\ bin'.query = bin.query
      /\ bin'.reading = bin.reading /\ bin'.criteria = bin.criteria /\ bin'.rows = bin.rows
  BY <1>1 DEF Handling, PagesOK, IsBin
<1>4. PagesOK'
  BY <1>1, <1>3 DEF Handling, PagesOK
<1>5. Extended({})
  BY ReleasedPool DEF Handling
<1>6. \A ch \in LookupChannels : ch # BinSearch => Alike(ch)
  BY <1>1, <1>3, InstAlike DEF Alike
<1>7. ASSUME AskedFor(BinSearch), m.want \in W, V \subseteq W
      PROVE  AskedFor(BinSearch)'
  <2>1. SearchOK(bin, W)
    BY <1>7, BelongsOf DEF AskedFor, W
  <2>2. SearchOK(bin', V)
    BY <1>2, <1>3, <1>7, <2>1 DEF SearchOK
  <2> QED  BY <2>2, BelongsOf DEF AskedFor, V
<1> QED  BY <1>1, <1>4, <1>5, <1>6, <1>7, AnswerBy DEF V, W

\* The second opinion is on what is on the page.
LEMMA ReadingShown ==
  ASSUME NEW m, Handling(m), OnExternalReading(m)
  PROVE  Onward
<1> DEFINE d == IF m.outcome = "found" THEN m.want.of ELSE None
           W == Wants(Opinion, jobs, inbox)
           V == Wants(Opinion, jobs', inbox')
<1>1. /\ m.want.ch = Opinion /\ Opinion \in LookupChannels
      /\ bin' = [bin EXCEPT !.asking = FALSE, !.reading = d]
      /\ UNCHANGED <<inst, ana, gauges, palette>> /\ jobs' = jobs
  BY DEF OnExternalReading, LookupChannels
<1>2. d \in {None, m.want.of}
  OBVIOUS
<1> HIDE DEF d, V, W
<1>3. /\ IsBin(bin') /\ bin'.screen = bin.screen /\ bin'.card = bin.card /\ bin'.query = bin.query
      /\ bin'.reading = d /\ bin'.criteria = bin.criteria /\ bin'.rows = bin.rows
  BY <1>1 DEF Handling, PagesOK, IsBin
<1>4. PagesOK'
  BY <1>1, <1>3 DEF Handling, PagesOK
<1>5. Extended({})
  BY <1>1, HandlingLeaves
<1>6. \A ch \in LookupChannels : ch # Opinion => Alike(ch)
  BY <1>1, <1>3, InstAlike DEF Alike
<1>7. ASSUME AskedFor(Opinion), m.want \in W, V \subseteq W
      PROVE  AskedFor(Opinion)'
  <2>1. OpinionOK(bin, W)
    BY <1>7, BelongsOf DEF AskedFor, W
  <2>2. OpinionOK(bin', V)
    BY <1>2, <1>3, <1>7, <2>1 DEF OpinionOK
  <2> QED  BY <2>2, BelongsOf DEF AskedFor, V
<1> QED  BY <1>1, <1>4, <1>5, <1>6, <1>7, AnswerBy DEF V, W

\* The rows are those of the criteria.
LEMMA AdvancedResultShown ==
  ASSUME NEW m, Handling(m), OnAdvancedResult(m)
  PROVE  Onward
<1> DEFINE d == IF m.outcome = "found" THEN m.want.of ELSE bin.rows
           W == Wants(Advanced, jobs, inbox)
           V == Wants(Advanced, jobs', inbox')
<1>1. /\ m.want.ch = Advanced /\ Advanced \in LookupChannels
      /\ bin' = [bin EXCEPT !.rows = d]
      /\ UNCHANGED <<inst, ana, gauges, palette>> /\ jobs' = jobs
  BY DEF OnAdvancedResult, LookupChannels
<1>2. m.outcome = "found" => d = m.want.of
  OBVIOUS
<1> HIDE DEF d, V, W
<1>3. /\ IsBin(bin') /\ bin'.screen = bin.screen /\ bin'.card = bin.card /\ bin'.query = bin.query
      /\ bin'.reading = bin.reading /\ bin'.criteria = bin.criteria /\ bin'.rows = d
  BY <1>1 DEF Handling, PagesOK, IsBin
<1>4. PagesOK'
  BY <1>1, <1>3 DEF Handling, PagesOK
<1>5. Extended({})
  BY <1>1, HandlingLeaves
<1>6. \A ch \in LookupChannels : ch # Advanced => Alike(ch)
  BY <1>1, <1>3, InstAlike DEF Alike
<1>7. Advanced \notin lapsed' => m.outcome = "found"
  BY <1>1, ChannelsApart DEF Handling, Replied, Missing
<1>8. ASSUME Advanced \notin lapsed', AskedFor(Advanced), m.want \in W, V \subseteq W
      PROVE  AskedFor(Advanced)'
  <2>1. AdvancedOK(bin, W)
    BY <1>8, BelongsOf DEF AskedFor, W
  <2>2. AdvancedOK(bin', V)
    BY <1>2, <1>3, <1>7, <1>8, <2>1 DEF AdvancedOK
  <2> QED  BY <2>2, BelongsOf DEF AskedFor, V
<1> QED  BY <1>1, <1>4, <1>5, <1>6, <1>8, AnswerBy DEF V, W

\* The figures are those of the filter.
LEMMA SnapshotShown ==
  ASSUME NEW m, Handling(m), OnSnapshot(m)
  PROVE  Onward
<1> DEFINE n == m.saw.content
           W == Wants(Snapshot, jobs, inbox)
           V == Wants(Snapshot, jobs', inbox')
<1>1. /\ m.want.ch = Snapshot /\ Snapshot \in LookupChannels
      /\ ana' = [ana EXCEPT !.loading = FALSE, !.shown = m.want, !.content = n]
      /\ UNCHANGED <<bin, inst, gauges, palette>> /\ jobs' = jobs
  BY DEF OnSnapshot, LookupChannels
<1>2. Snapshot \notin lapsed' => n # 0
  BY <1>1 DEF Handling, Missing
<1> HIDE DEF n, V, W
<1>3. /\ IsAna(ana') /\ ana'.loading = FALSE /\ ana'.filter = ana.filter /\ ana'.shown = m.want
      /\ ana'.content = n
  BY <1>1 DEF Handling, PagesOK, IsAna
<1>4. PagesOK'
  BY <1>1, <1>3 DEF Handling, PagesOK
<1>5. Extended({})
  BY <1>1, HandlingLeaves
<1>6. \A ch \in LookupChannels : ch # Snapshot => Alike(ch)
  BY <1>1, <1>3, InstAlike DEF Alike
<1>7. ASSUME Snapshot \notin lapsed', AskedFor(Snapshot), m.want \in W, V \subseteq W
      PROVE  AskedFor(Snapshot)'
  <2>1. AnaOK(ana, W)
    BY <1>7, BelongsOf DEF AskedFor, W
  <2>2. AnaOK(ana', V)
    BY <1>2, <1>3, <1>7, <2>1 DEF AnaOK
  <2> QED  BY <2>2, BelongsOf DEF AskedFor, V
<1> QED  BY <1>1, <1>4, <1>5, <1>6, <1>7, AnswerBy DEF V, W

\* The suggestions are those of the text.
LEMMA SuggestionsShown ==
  ASSUME NEW m, Handling(m), OnSuggestions(m)
  PROVE  Onward
<1> DEFINE d == IF m.outcome = "found" THEN m.want.of ELSE palette.dynamic
           W == Wants(Suggest, jobs, inbox)
           V == Wants(Suggest, jobs', inbox')
<1>1. /\ m.want.ch = Suggest /\ Suggest \in LookupChannels
      /\ palette' = [palette EXCEPT !.dynamic = d]
      /\ UNCHANGED <<bin, inst, ana, gauges>> /\ jobs' = jobs
  BY DEF OnSuggestions, LookupChannels
<1>2. m.outcome = "found" => d = m.want.of
  OBVIOUS
<1> HIDE DEF d, V, W
<1>3. /\ IsPalette(palette') /\ palette'.text = palette.text /\ palette'.timer = palette.timer
      /\ palette'.dynamic = d
  BY <1>1 DEF Handling, PagesOK, IsPalette
<1>4. PagesOK'
  BY <1>1, <1>3 DEF Handling, PagesOK
<1>5. Extended({})
  BY <1>1, HandlingLeaves
<1>6. \A ch \in LookupChannels : ch # Suggest => Alike(ch)
  BY <1>1, InstAlike DEF Alike
<1>7. Suggest \notin lapsed' => m.outcome = "found"
  BY <1>1, ChannelsApart DEF Handling, Replied, Missing
<1>8. ASSUME Suggest \notin lapsed', AskedFor(Suggest), m.want \in W, V \subseteq W
      PROVE  AskedFor(Suggest)'
  <2>1. PaletteOK(palette, W)
    BY <1>8, BelongsOf DEF AskedFor, W
  <2>2. PaletteOK(palette', V)
    BY <1>2, <1>3, <1>7, <1>8, <2>1 DEF PaletteOK
  <2> QED  BY <2>2, BelongsOf DEF AskedFor, V
<1> QED  BY <1>1, <1>4, <1>5, <1>6, <1>8, AnswerBy DEF V, W

\* A gauge shows what it may.
LEMMA GaugeShown ==
  ASSUME NEW m, Handling(m), OnGauge(m)
  PROVE  Onward
<1>1. /\ m.want.ch \in Gauges /\ Gauges \subseteq LookupChannels
      /\ DOMAIN gauges' = DOMAIN gauges
      /\ UNCHANGED <<bin, inst, ana, palette>> /\ jobs' = jobs
  BY DEF OnGauge, LookupChannels
<1>2. PagesOK'
  BY <1>1 DEF Handling, PagesOK
<1>3. Extended({})
  BY <1>1, HandlingLeaves
<1>4. \A ch \in LookupChannels : Alike(ch)
  BY <1>1, InstAlike DEF Alike
<1>5. \A ch \in Gauges : AskedFor(ch)'
  BY BelongsOf DEF AskedFor
<1> QED  BY <1>1, <1>2, <1>3, <1>4, <1>5, AnswerBy

\* An answer to a name selects the best match and asks for all that is shown of it, or
\* nothing is shown.
LEMMA MatchesShown ==
  ASSUME NEW m, Handling(m), NEW p \in Browsers, OnMatches(p, m),
         Overtaken(PartChannels(p)) \subseteq lapsed'
  PROVE  Onward
<1>1. /\ m.want.ch = Named(p) /\ UNCHANGED <<bin, ana, gauges, palette>>
      /\ Pool /\ PagesOK /\ inbox # <<>> /\ inbox' = Tail(inbox) /\ m = Head(inbox) /\ life' = life
  BY DEF OnMatches, Handling
<1>2. ASSUME NEW ch \in LookupChannels
      PROVE  Wants(ch, jobs, inbox') = Wants(ch, jobs, inbox)
  <2>1. ch[2] # "search" /\ m.want.ch[2] = "search"
    BY <1>1, ChannelKinds, ChannelsApart DEF LookupChannels, Gauges, Five, Named
  <2>2. m.want.ch # ch
    BY <2>1
  <2> QED  BY <1>1, <2>2, HandledWants DEF Pool
<1>3. CASE m.outcome = "found"
  <2> DEFINE i == Head(MatchesOf[m.want.of])
             ms == Range(MatchesOf[m.want.of])
  <2>1. /\ inst' = [inst EXCEPT ![p] = Selected(@, i, ms)]
        /\ Submit(SelectionRequests(p, i))
    BY <1>3 DEF OnMatches
  <2> HIDE DEF i, ms
  <2>2. \A ch \in LookupChannels : /\ Wants(ch, jobs, inbox') \subseteq Wants(ch, jobs, inbox)
                                   /\ Wants(ch, jobs, inbox) \subseteq Wants(ch, jobs, inbox')
    BY <1>2
  <2> QED  BY <1>1, <2>1, <2>2, SelectionShown
<1>4. CASE m.outcome # "found"
  <2> DEFINE s == ResultScreen(m.outcome)
             g == inst[p]
             h == inst'[p]
  <2>1. inst' = [inst EXCEPT ![p].screen = s] /\ jobs' = jobs
    BY <1>4 DEF OnMatches
  <2>2. s # "result"
    BY <1>4 DEF ResultScreen
  <2> HIDE DEF s
  <2>3. Others(p) /\ h = [g EXCEPT !.screen = s] /\ IsInst(p, g)
    BY <1>1, <2>1 DEF Others, PagesOK
  <2> HIDE DEF g, h
  <2>4. IsInst(p, h) /\ h.screen # "result"
    BY <2>2, <2>3 DEF IsInst
  <2>5. PagesOK'
    BY <1>1, <2>3, <2>4, InstStays DEF h
  <2>6. ASSUME NEW ch \in LookupChannels PROVE Steady(ch) /\ Alike(ch)
    <3>1. Steady(ch)
      BY <1>2, <2>1 DEF Steady
    <3>2. CASE ch \in PartChannels(p)
      BY <1>1, <2>4, <3>1, <3>2, PartIsAlike, ChannelsOfPage DEF h
    <3>3. CASE ch \notin PartChannels(p)
      BY <1>1, <2>3, <3>1, <3>3, OthersAlike
    <3> QED  BY <3>2, <3>3
  <2> QED  BY <2>5, <2>6, OnwardBy
<1> QED  BY <1>3, <1>4

\* An answer to one part of an institution's page is of that institution, as it is filtered.
LEMMA PartArrives ==
  ASSUME NEW m, Handling(m), jobs' = jobs, UNCHANGED <<bin, ana, gauges, palette>>,
         NEW p \in Browsers, NEW part \in Five, m.want.ch = <<p, part>>, Others(p),
         IsInst(p, inst'[p]), inst'[p].screen = inst[p].screen,
         inst'[p].current = inst[p].current, inst'[p].filters = inst[p].filters,
         inst'[p].shown = [inst[p].shown EXCEPT ![part] = m.want]
  PROVE  Onward
<1> DEFINE c == <<p, part>>
           g == inst[p]
           h == inst'[p]
           W == Wants(c, jobs, inbox)
           V == Wants(c, jobs', inbox')
<1>1. PagesOK /\ IsInst(p, g)
  BY DEF Handling, PagesOK
<1>2. PagesOK'
  BY <1>1, InstStays
<1>3. Extended({})
  BY HandlingLeaves
<1>4. c \in LookupChannels /\ m.want.ch = c
  BY DEF LookupChannels
<1>5. ASSUME NEW ch \in LookupChannels, ch # c PROVE Alike(ch)
  <2>1. CASE ch \notin PartChannels(p)
    BY <2>1, OthersAlike
  <2>2. ASSUME NEW q \in Range(PartsOf(p)), ch = <<p, q>> PROVE Alike(ch)
    <3>1. q # part
      BY <1>5, <2>2
    <3>2. h.shown[q] = g.shown[q]
      BY <3>1
    <3>3. h.screen = "result" => PartAlike(g, h, q)
      BY <3>2 DEF PartAlike
    <3> QED  BY <2>2, <3>3, PartIsAlike
  <2> QED  BY <2>1, <2>2, ChannelsOfPage
<1>6. ASSUME AskedFor(c), m.want \in W, V \subseteq W PROVE AskedFor(c)'
  <2>1. part \in Range(PartsOf(p)) => PartOK(g, part, W)
    BY <1>6, BelongsOf DEF AskedFor
  <2>2. part \in Range(PartsOf(p)) => h.shown[part] = m.want
    BY <1>1 DEF IsInst
  <2> HIDE DEF g, h, V, W
  <2>3. part \in Range(PartsOf(p)) => PartOK(h, part, V)
    BY <1>6, <2>1, <2>2 DEF PartOK, Answers, g, h
  <2> QED  BY <2>3, BelongsOf DEF AskedFor, V, h
<1> HIDE DEF c
<1> QED  BY <1>2, <1>3, <1>4, <1>5, <1>6, AnswerBy DEF V, W

\* The answer to the filters that can be chosen, and to each of the other parts.
LEMMA PartsShown ==
  ASSUME NEW m, Handling(m), NEW p \in Browsers,
         OnOptions(p, m) \/ OnPart(p, m) \/ OnPartFailed(p, m)
  PROVE  Onward
<1>1. /\ PagesOK /\ jobs' = jobs /\ UNCHANGED <<bin, ana, gauges, palette>>
      /\ DOMAIN inst = Browsers /\ IsInst(p, inst[p]) /\ Range(PartsOf(p)) \subseteq Five
  BY PartsAreFive DEF OnOptions, OnPart, OnPartFailed, Handling, PagesOK
<1> DEFINE g == inst[p]
           h == inst'[p]
<1>2. CASE OnOptions(p, m)
  <2>1. /\ m.want.ch = <<p, "options">> /\ Others(p)
        /\ \E b : h = [g EXCEPT !.shown["options"] = m.want, !.bar = b]
    BY <1>1, <1>2 DEF Others, OnOptions
  <2> HIDE DEF g, h
  <2>2. IsInst(p, g)
    BY <1>1 DEF g
  <2>3. /\ IsInst(p, h) /\ h.screen = g.screen /\ h.current = g.current /\ h.filters = g.filters
        /\ h.shown = [g.shown EXCEPT !["options"] = m.want]
    BY <2>1, <2>2 DEF IsInst
  <2>4. "options" \in Five
    BY DEF Five
  <2> QED  BY <1>1, <2>1, <2>3, <2>4, PartArrives DEF g, h
<1>3. CASE OnPart(p, m)
  <2>1. PICK part \in Five : /\ m.want.ch = <<p, part>>
                             /\ inst' = [inst EXCEPT ![p].shown[part] = m.want]
    BY <1>1, <1>3 DEF OnPart
  <2>2. Others(p) /\ h = [g EXCEPT !.shown[part] = m.want]
    BY <1>1, <2>1 DEF Others
  <2> HIDE DEF g, h
  <2>3. IsInst(p, g)
    BY <1>1 DEF g
  <2>4. /\ IsInst(p, h) /\ h.screen = g.screen /\ h.current = g.current /\ h.filters = g.filters
        /\ h.shown = [g.shown EXCEPT ![part] = m.want]
    BY <2>2, <2>3 DEF IsInst
  <2> QED  BY <1>1, <2>1, <2>2, <2>4, PartArrives DEF g, h
<1>4. CASE OnPartFailed(p, m)
  <2> DEFINE s == IF m.want.ch = <<p, "rows">> THEN "error" ELSE g.screen
  <2>1. /\ m.want.ch \in PartChannels(p) /\ m.outcome # "found"
        /\ inst' = [inst EXCEPT ![p].screen = s]
    BY <1>4 DEF OnPartFailed
  <2>2. s \in {"error", g.screen}
    OBVIOUS
  <2> HIDE DEF s
  <2>3. Others(p) /\ h = [g EXCEPT !.screen = s]
    BY <1>1, <2>1 DEF Others
  <2>4. PICK part \in Five : m.want.ch = <<p, part>>
    BY <1>1, <2>1, ChannelsOfPage
  <2>5. m.want.ch \in LookupChannels \ {BinSearch, Opinion}
    BY <2>4, ChannelsApart DEF LookupChannels
  <2>6. m.want.ch \in lapsed'
    BY <2>1, <2>5 DEF Handling, Replied, Missing
  <2> HIDE DEF g, h
  <2>7. /\ IsInst(p, h) /\ h.screen = s /\ h.current = g.current /\ h.filters = g.filters
        /\ h.shown = g.shown
    BY <1>1, <2>3 DEF IsInst, g
  <2>8. PagesOK'
    BY <1>1, <2>3, <2>7, InstStays DEF h
  <2>9. Extended({})
    BY <1>1, HandlingLeaves
  <2>10. ASSUME NEW ch \in LookupChannels PROVE Alike(ch)
    <3>1. CASE ch \notin PartChannels(p)
      BY <1>1, <2>3, <3>1, OthersAlike
    <3>2. ASSUME NEW q \in Range(PartsOf(p)), ch = <<p, q>> PROVE Alike(ch)
      <4>1. h.screen = "result" => PartAlike(g, h, q)
        BY <2>2, <2>7 DEF PartAlike
      <4> QED  BY <1>1, <3>2, <4>1, PartIsAlike DEF g, h
    <3> QED  BY <3>1, <3>2, ChannelsOfPage
  <2> QED  BY <2>5, <2>6, <2>8, <2>9, <2>10, AnswerBy
<1> QED  BY <1>2, <1>3, <1>4

\* Whatever is answered, what is shown belongs together.
LEMMA DeliverShown ==
  ASSUME Pool, PagesOK, Replies, Deliver
  PROVE  Onward
<1> DEFINE m == Head(inbox)
<1>1. /\ life = "running" /\ life' = life /\ inbox # <<>> /\ inbox' = Tail(inbox) /\ Handle(m)
      /\ Overtaken(Disturbed(m)) \subseteq lapsed' /\ (Missing(m) => m.want.ch \in lapsed')
  BY DEF Deliver
<1>2. Replied(m)
  <2>1. 1 \in DOMAIN inbox /\ m = inbox[1]
    BY <1>1, Handled DEF Pool
  <2> HIDE DEF m
  <2> QED  BY <2>1 DEF Replies
<1>3. Handling(m)
  BY <1>1, <1>2 DEF Handling
<1> HIDE DEF m
<1>4. ASSUME NEW p \in Browsers, OnMatches(p, m)
      PROVE  Overtaken(PartChannels(p)) \subseteq lapsed'
  <2>1. PartChannels(p) \subseteq Disturbed(m)
    BY <1>4 DEF Disturbed, OnMatches
  <2> QED  BY <1>1, <2>1 DEF Overtaken
<1> QED  BY <1>1, <1>3, <1>4, BinResultShown, ReadingShown, AdvancedResultShown, SnapshotShown,
            SuggestionsShown, GaugeShown, MatchesShown, PartsShown DEF Handle

\* What a lookup answers.
LEMMA OutcomeReplies ==
  ASSUME NEW want, NEW saw, NEW outcome \in Outcomes(want, saw)
  PROVE  Replied(Answered(want, outcome, saw))
<1> DEFINE m == Answered(want, outcome, saw)
<1>1. m.want = want /\ m.outcome = outcome
  BY DEF Answered
<1> HIDE DEF m
<1>2. ASSUME want.ch \in LookupChannels \ {BinSearch, Opinion} PROVE outcome \in {"found", "failed"}
  <2>1. want.ch[2] # "search"
    BY <1>2, ChannelsApart DEF LookupChannels, Gauges, Five
  <2> QED  BY <1>2, <2>1 DEF Outcomes
<1> QED  BY <1>1, <1>2 DEF Replied, m

\* The answers that are on their way stay such.
LEMMA RepliesStay ==
  ASSUME Pool, Replies, life = "running", life' = "running", [DesktopNext]_desktop
  PROVE  Replies'
<1>a. JobsOK(jobs) /\ QueueOK(inbox)
  BY DEF Pool
<1>1. ASSUME inbox' = inbox \/ (inbox # <<>> /\ inbox' = Tail(inbox)) PROVE Replies'
  <2>1. \A i \in DOMAIN inbox' : \E j \in DOMAIN inbox : inbox'[i] = inbox[j]
    BY <1>a, <1>1, Handled
  <2> QED  BY <2>1 DEF Replies
<1>2. ASSUME NEW m, Replied(m), inbox' = Append(inbox, m) PROVE Replies'
  <2>1. /\ Len(inbox) \in Nat /\ DOMAIN inbox = 1 .. Len(inbox)
        /\ DOMAIN inbox' = 1 .. Len(inbox) + 1
        /\ \A i \in DOMAIN inbox : inbox'[i] = inbox[i]
        /\ inbox'[Len(inbox) + 1] = m
    BY <1>a, <1>2, SeqDomain, AppendOwn DEF QueueOK
  <2>2. \A i \in DOMAIN inbox' : i \in DOMAIN inbox \/ i = Len(inbox) + 1
    BY <2>1
  <2> QED  BY <1>2, <2>1, <2>2 DEF Replies
<1>b. ASSUME NEW want, want.ch[2] \notin LookupKinds, NEW outcome, NEW saw
      PROVE  Replied(Answered(want, outcome, saw))
  BY <1>b, ChannelKinds DEF Replied, Answered
<1>3. ASSUME NEW k \in DOMAIN jobs, Start(k) PROVE Replies'
  <2>1. Hears(jobs[k].want) => jobs[k].want.ch[2] \notin LookupKinds
    BY DEF Hears, LookupKinds
  <2>2. \/ inbox' = inbox
        \/ /\ inbox' = Append(inbox, Answered(jobs[k].want, "cancelled", Unread))
           /\ Hears(jobs[k].want)
    BY <1>3 DEF Start
  <2> QED  BY <1>1, <1>2, <1>b, <2>1, <2>2
<1>4. ASSUME NEW k \in DOMAIN jobs, Work(k) \/ UpdateWork(k) PROVE Replies'
  <2>1. CASE GoesOn(k)
    BY <1>1, <2>1 DEF GoesOn
  <2>2. CASE EndsWith(k)
    <3>1. PICK outcome : Ends(k, outcome) /\ jobs[k].want.ch[2] \in JobOrUpdate
      BY <2>2 DEF EndsWith
    <3>2. jobs[k].want.ch[2] \notin LookupKinds
      BY <3>1 DEF JobOrUpdate, Checks, Replacing, LookupKinds
    <3> QED  BY <1>2, <1>b, <3>1, <3>2 DEF Ends
  <2> QED  BY <1>4, <2>1, <2>2, Working
<1>5. ASSUME NEW k \in DOMAIN jobs, Finish(k) PROVE Replies'
  BY <1>2, <1>5, OutcomeReplies DEF Finish
<1>6. ASSUME Elsewhere PROVE Replies'
  BY <1>1, <1>3, <1>4, <1>6 DEF Elsewhere, Unheard
<1>7. ASSUME Reloads PROVE Replies'
  BY <1>1, <1>7 DEF Reloads
<1>8. ASSUME PageActs PROVE Replies'
  <2>1. inbox' = inbox
    BY <1>8, UserLooks DEF PageActs
  <2> QED  BY <1>1, <2>1
<1>9. ASSUME Deliver PROVE Replies'
  BY <1>1, <1>9 DEF Deliver
<1> QED  BY <1>5, <1>6, <1>7, <1>8, <1>9, ShownSteps

--------------------------------------------------------------------------------
\* What is shown belongs together, at every step

\* Empty pages show nothing that was not asked for.
LEMMA EmptyShown == Blank => PagesOK /\ Replies /\ \A ch \in LookupChannels : AskedFor(ch)
<1> SUFFICES ASSUME Blank PROVE PagesOK /\ Replies /\ \A ch \in LookupChannels : AskedFor(ch)
  OBVIOUS
<1> USE DEF Blank
<1>1. \A ch : Wants(ch, jobs, inbox) = {}
  BY NoneSeq DEF Wants
<1>2. IsBin(bin) /\ SearchOK(bin, {}) /\ OpinionOK(bin, {}) /\ AdvancedOK(bin, {})
  BY DEF IsBin, SearchOK, OpinionOK, AdvancedOK, NoBin
<1>3. IsAna(ana) /\ AnaOK(ana, {})
  BY DEF IsAna, AnaOK, NoAna, NoCache
<1>4. IsPalette(palette) /\ PaletteOK(palette, {})
  BY DEF IsPalette, PaletteOK, NoPalette
<1>5. \A p \in Browsers : IsInst(p, inst[p]) /\ inst[p].screen = "idle"
  BY DEF IsInst, NoInst
<1>6. PagesOK /\ Replies
  BY <1>2, <1>3, <1>4, <1>5, NoneSeq DEF PagesOK, Replies
<1>7. \A p \in Browsers : \A part : PartOK(inst[p], part, {})
  BY <1>5 DEF PartOK
<1>8. \A ch \in LookupChannels : AskedFor(ch)
  BY <1>1, <1>2, <1>3, <1>4, <1>7 DEF AskedFor, Belongs
<1> QED  BY <1>6, <1>8

\* So it is when the program is started.
LEMMA ShownHolds == DesktopInit => ShownInv
BY EmptyShown DEF Blank, DesktopInit, WindowInit, MInit, Init, ShownInv

\* A step that opens the window opens it on empty pages.
LEMMA OpensEmpty ==
  ASSUME Pool, [DesktopNext]_desktop, life # "running", life' = "running"
  PROVE  /\ Restart /\ jobs' = <<>> /\ inbox' = <<>>
<1>1. ASSUME Lookups PROVE FALSE
  BY <1>1, LookupsOfPool DEF Start, Finish, CloseWindow
<1>2. ~MaintenanceActs
  BY UserMaintains DEF MaintenanceActs
<1>3. ~DeliverJob /\ ~Kill /\ ~DeliverValues
  BY DEF DeliverJob, Kill, DeliverValues
<1>4. ~ReportActs
  BY UserReports
<1>5. ~Build
  BY DEF Build, Acting
<1>6. ~UpdateActs
  BY UserUpdates DEF UpdateActs
<1>7. ~DeliverUpdate
  BY UpdateAnswered
<1>8. ~(UNCHANGED desktop)
  BY DEF desktop, window, all, vars
<1>9. ~(\E k \in DOMAIN jobs : Work(k) \/ UpdateWork(k))
  BY Working
<1>10. Restart
  BY <1>1, <1>2, <1>3, <1>4, <1>5, <1>6, <1>7, <1>8, <1>9
     DEF DesktopNext, WindowNext, Next, ReportActs, MaintenanceActs, UpdateActs
<1> QED  BY <1>10 DEF Restart, Pool

\* Every step keeps it.
LEMMA ShownStays ==
  ASSUME Pool, ShownInv, [DesktopNext]_desktop
  PROVE  ShownInv'
<1>1. CASE life' # "running"
  BY <1>1 DEF ShownInv
<1>2. CASE life = "running" /\ life' = "running"
  <2>1. PagesOK /\ Replies /\ \A ch \in LookupChannels \ lapsed : AskedFor(ch)
    BY <1>2 DEF ShownInv
  <2>2. Onward /\ lapsed \subseteq lapsed'
    BY <1>2, <2>1, ShownSteps, ElsewhereShown, ReloadsShown, PageActsShown, FinishShown, DeliverShown
  <2>3. Replies'
    BY <1>2, <2>1, RepliesStay
  <2> QED  BY <2>1, <2>2, <2>3 DEF ShownInv, Onward
<1>3. CASE life # "running" /\ life' = "running"
  <2>1. Restart /\ jobs' = <<>> /\ inbox' = <<>>
    BY <1>3, OpensEmpty
  <2>2. /\ bin' = NoBin /\ inst' = [p \in Browsers |-> NoInst(p)]
        /\ ana' = NoAna /\ gauges' = [ch \in Gauges |-> 0] /\ palette' = NoPalette
    BY <2>1 DEF Restart
  <2>3. Blank'
    BY <2>1, <2>2 DEF Blank
  <2>4. (PagesOK /\ Replies /\ \A ch \in LookupChannels : AskedFor(ch))'
    BY <2>3, EmptyShown, PTL
  <2> QED  BY <2>4 DEF ShownInv
<1> QED  BY <1>1, <1>2, <1>3

--------------------------------------------------------------------------------
\* What is measured is what is installed

\* An opening that is owed is something to be told of.
LEMMA OwedIsNotice == Reopening => Notice
BY DEF Reopening, Notice, Replaced, Replacing

\* What the pages are told of a new database for is looked up.
LEMMA ReloadedChannels ==
  /\ Reloaded \subseteq LookupChannels /\ BinSearch \notin Reloaded
  /\ Gauges \subseteq Reloaded /\ Snapshot \in Reloaded /\ Snapshot \notin Gauges
  /\ \A ch \in Reloaded : ch = Snapshot \/ ch \in Gauges
BY ChannelsApart DEF LookupChannels, Reloaded, Gauges

\* The file has the content that it had, or an opening is owed.
LEMMA FileKept ==
  ASSUME Pool, DiskOK, [DesktopNext]_desktop
  PROVE  file'.content = file.content \/ Reopening'
<1>1. ASSUME NEW k \in DOMAIN jobs, Work(k) PROVE file'.content = file.content \/ Reopening'
  <2>1. CASE Replace(k)
    BY <2>1, ReplacedReopens
  <2>2. CASE FailReplace(k)
    <3>1. file' = Written(file, jobs[k].want)
      BY <2>2 DEF FailReplace
    <3> QED  BY <3>1, WrittenIsFile DEF DiskOK
  <2>3. CASE ~Replace(k) /\ ~FailReplace(k)
    BY <1>1, <2>3 DEF Work, RunCheck, BeginBackup, CompleteBackup, FailBackup, PruneBackups, VerifyBackup,
                      BuildCandidate, VerifyPrevious, CloseForSwap, BeginKeeping, FinishKeeping, BeginCopy,
                      OpenAfterSwap, onDisk
  <2> QED  BY <2>1, <2>2, <2>3
<1>2. ASSUME NEW k \in DOMAIN jobs, UpdateWork(k) PROVE file' = file
  BY <1>2 DEF UpdateWork, FinishCheck, FetchPackage, CloseForInstall, OpenInstalled, onDisk
<1>3. ASSUME NEW i \in DOMAIN backups, DeleteBackup(i) PROVE file' = file
  BY <1>3 DEF DeleteBackup
<1> QED  BY <1>1, <1>2, <1>3, WindowLeaves DEF onDisk

\* What there is to tell stays while the pool is extended and other answers are handled.
LEMMA NoticeStays ==
  ASSUME Pool, Notice, NEW K, Extended(K),
         \/ inbox' = inbox
         \/ inbox # <<>> /\ inbox' = Tail(inbox) /\ ~Replaced(Head(inbox))
  PROVE  Notice'
<1>a. JobsOK(jobs) /\ QueueOK(inbox)
  BY DEF Pool
<1>1. ASSUME NEW k \in DOMAIN jobs, jobs[k].at = "open" PROVE Notice'
  <2>1. k \in DOMAIN jobs' /\ jobs'[k].at = "open"
    BY <1>1, <1>a, SeqDomain DEF Extended, Same, JobsOK
  <2> QED  BY <2>1 DEF Notice
<1>2. ASSUME NEW k \in DOMAIN inbox, Replaced(inbox[k])
      PROVE  Notice'
  <2>1. CASE inbox' = inbox
    BY <1>2, <2>1 DEF Notice
  <2>2. CASE inbox # <<>> /\ inbox' = Tail(inbox) /\ ~Replaced(Head(inbox))
    <3>1. \A j \in DOMAIN inbox \ {1} : j - 1 \in DOMAIN inbox' /\ inbox'[j - 1] = inbox[j]
      BY <1>a, <2>2, Handled
    <3>2. k # 1
      <4>1. Head(inbox) = inbox[1]
        BY <1>a, <2>2, Handled
      <4> QED  BY <1>2, <2>2, <4>1
    <3> QED  BY <1>2, <3>1, <3>2 DEF Notice
  <2> QED  BY <2>1, <2>2
<1> QED  BY <1>1, <1>2 DEF Notice

\* Nor is it lost when a job goes on or ends that has nothing to open.
LEMMA NoticeLeft ==
  ASSUME Pool, Notice, NEW k \in DOMAIN jobs, jobs[k].at # "open", life' = life,
         GoesOn(k) \/ EndsWith(k) \/ Dropped(k)
  PROVE  Notice'
<1>a. JobsOK(jobs) /\ QueueOK(inbox) /\ CancelOK
  BY DEF Pool
<1>1. ASSUME NEW place, NEW note, Goes(k, place, note), inbox' = inbox PROVE Notice'
  <2>1. DOMAIN jobs' = DOMAIN jobs /\ \A i \in DOMAIN jobs \ {k} : jobs'[i] = jobs[i]
    BY <1>1, <1>a, Moved
  <2> QED  BY <1>1, <2>1 DEF Notice
<1>2. ASSUME NEW m, MessageOK(m), jobs' = RemoveAt(jobs, k), inbox' = inbox \/ inbox' = Append(inbox, m)
      PROVE  Notice'
  <2>1. \A j \in DOMAIN jobs \ {k} : \E i \in DOMAIN jobs' : jobs'[i] = jobs[j]
    BY <1>2, <1>a, Gone
  <2>2. \A i \in DOMAIN inbox : i \in DOMAIN inbox' /\ inbox'[i] = inbox[i]
    BY <1>2, <1>a, Heard
  <2>3. ASSUME NEW j \in DOMAIN jobs, jobs[j].at = "open" PROVE Notice'
    <3>1. j # k
      BY <2>3
    <3> QED  BY <2>1, <2>3, <3>1 DEF Notice
  <2> QED  BY <2>2, <2>3 DEF Notice
<1>3. CASE GoesOn(k)
  BY <1>1, <1>3 DEF GoesOn
<1>4. CASE EndsWith(k)
  <2>1. PICK outcome : Ends(k, outcome) /\ (outcome = "shrinks" => jobs[k].want.ch[2] = "rebuild")
    BY <1>4 DEF EndsWith
  <2>2. MessageOK(Answered(jobs[k].want, outcome, jobs[k].saw))
    BY <2>1 DEF MessageOK, Answered
  <2> QED  BY <1>2, <2>1, <2>2 DEF Ends
<1>5. CASE Dropped(k)
  <2>1. \A outcome, saw : outcome # "shrinks" => MessageOK(Answered(jobs[k].want, outcome, saw))
    BY DEF MessageOK, Answered
  <2>2. MessageOK(Answered(jobs[k].want, "found", Unread))
    BY <2>1
  <2> QED  BY <1>2, <1>5, <2>1, <2>2 DEF Dropped
<1> QED  BY <1>3, <1>4, <1>5

\* A job that has opened the new file says that it has.
LEMMA OpenedIsTold ==
  ASSUME Pool, NEW k \in DOMAIN jobs, jobs[k].at = "open", Work(k) \/ UpdateWork(k)
  PROVE  Notice'
<1>a. QueueOK(inbox)
  BY DEF Pool
<1>1. jobs[k].want.ch[2] \in Replacing /\ Ends(k, "found")
  <2>1. ASSUME NEW kind, NEW place, At(k, kind, place) PROVE place = "open"
    BY <2>1 DEF At
  <2>2. CASE UpdateWork(k)
    BY <2>1, <2>2 DEF UpdateWork, FinishCheck, FetchPackage, CloseForInstall, OpenInstalled, At, Replacing
  <2>3. CASE Work(k)
    BY <2>1, <2>3 DEF Work, RunCheck, BeginBackup, CompleteBackup, FailBackup, PruneBackups, VerifyBackup,
                      BuildCandidate, VerifyPrevious, CloseForSwap, BeginKeeping, FinishKeeping, BeginCopy,
                      Replace, FailReplace, OpenAfterSwap, At, Swaps, Replacing
  <2> QED  BY <2>2, <2>3
<1> DEFINE m == Answered(jobs[k].want, "found", jobs[k].saw)
<1>2. inbox' = Append(inbox, m) /\ MessageOK(m) /\ Replaced(m)
  BY <1>1 DEF Ends, MessageOK, Answered, Replaced
<1> HIDE DEF m
<1>3. Len(inbox) + 1 \in DOMAIN inbox' /\ inbox'[Len(inbox) + 1] = m
  BY <1>a, <1>2, Heard
<1> QED  BY <1>2, <1>3 DEF Notice

\* The pages are told of it, or there is still something to tell.
LEMMA NoticeKept ==
  ASSUME Pool, life = "running", life' = "running", Notice,
         Elsewhere \/ PageActs \/ Deliver \/ \E k \in DOMAIN jobs : Finish(k)
  PROVE  Notice'
<1>1. ASSUME NEW K, Extended(K), Unheard PROVE Notice'
  BY <1>1, NoticeStays DEF Unheard
<1>2. ASSUME NEW k \in DOMAIN jobs, Start(k) \/ Finish(k) PROVE Notice'
  <2>1. CASE Dropped(k)
    <3>1. jobs[k].at # "open"
      BY <2>1 DEF Dropped
    <3> QED  BY <2>1, <3>1, NoticeLeft
  <2>2. CASE ~Dropped(k)
    <3>1. Extended(LookupKinds) /\ inbox' = inbox
      BY <1>2, <2>2, Starts, Finishes
    <3> QED  BY <3>1, NoticeStays
  <2> QED  BY <2>1, <2>2
<1>3. ASSUME NEW k \in DOMAIN jobs, Work(k) \/ UpdateWork(k) PROVE Notice'
  BY <1>3, Working, OpenedIsTold, NoticeLeft
<1>4. CASE Elsewhere
  BY <1>1, <1>2, <1>3, <1>4 DEF Elsewhere
<1>5. CASE PageActs
  <2>1. Extended(PageKinds) /\ inbox' = inbox
    BY <1>5, UserLooks DEF PageActs
  <2> QED  BY <2>1, NoticeStays
<1>6. CASE Deliver
  <2>1. Extended(LookupKinds) /\ Head(inbox).want.ch[2] \in LookupKinds
    BY <1>6, Answering DEF Deliver
  <2>2. ~Replaced(Head(inbox))
    BY <2>1 DEF Replaced, Replacing, LookupKinds
  <2> QED  BY <1>6, <2>1, <2>2, NoticeStays DEF Deliver
<1> QED  BY <1>2, <1>4, <1>5, <1>6

\* What a worker sees now is what is installed, or nothing, or what the cache holds of either.
LEMMA SeesCurrent ==
  ASSUME Pool, OpenInv, ~Notice, PagesOK, NEW ch \in Reloaded, AskedFor(ch), ch = Snapshot => CacheOK,
         NEW r \in Wants(ch, jobs, inbox)
  PROVE  Seen(r).content \in Current
<1>1. CASE CachedFor(r)
  <2>1. r.ch = ch
    BY WantsPending
  <2>2. ch = Snapshot
    BY <1>1, <2>1 DEF CachedFor
  <2>3. AnaOK(ana, Wants(ch, jobs, inbox))
    BY <2>2, BelongsOf DEF AskedFor
  <2>4. r.by \in DOMAIN ana.cache
    BY <2>3 DEF AnaOK, PagesOK, IsAna
  <2>5. Seen(r).content = ana.cache[r.by].content
    BY <1>1 DEF Seen
  <2> QED  BY <2>2, <2>4, <2>5 DEF CacheOK
<1>2. CASE ~CachedFor(r)
  <2>1. Seen(r).content = IF db.open THEN db.content ELSE 0
    BY <1>2 DEF Seen
  <2>2. db.open => db.content = file.content
    BY OwedIsNotice DEF OpenInv
  <2> QED  BY <2>1, <2>2 DEF Current
<1> QED  BY <1>1, <1>2

\* So what is held stays what is installed.
LEMMA CarriedFresh ==
  ASSUME Pool, OpenInv, ~Notice, PagesOK, file'.content = file.content, lapsed \subseteq lapsed',
         \A ch \in LookupChannels \ lapsed : AskedFor(ch), Snapshot \notin lapsed => CacheOK,
         \A ch \in Reloaded \ lapsed : Fresh(ch), Carries
  PROVE  /\ Snapshot \notin lapsed' => CacheOK'
         /\ \A ch \in Reloaded \ lapsed' : Fresh(ch)'
<1>1. Current' = Current
  BY DEF Current
<1>2. ASSUME Snapshot \notin lapsed' PROVE CacheOK'
  <2>1. Sights(Snapshot, jobs, inbox) \subseteq Current /\ CacheOK
    BY <1>2, ReloadedChannels DEF Fresh
  <2>2. \A f \in DOMAIN ana'.cache : ana'.cache[f].content \in Current
    BY <2>1 DEF Carries, CacheCarried, CacheOK
  <2> QED  BY <1>1, <2>2 DEF CacheOK
<1>3. ASSUME NEW ch \in Reloaded \ lapsed' PROVE Fresh(ch)'
  <2>1. AskedFor(ch) /\ Fresh(ch) /\ Carried(ch) /\ (ch = Snapshot => CacheOK)
    BY <1>3, ReloadedChannels DEF Carries
  <2>2. \A r \in Wants(ch, jobs, inbox) : Seen(r).content \in Current
    BY <2>1, SeesCurrent
  <2>3. Sights(ch, jobs', inbox') \subseteq Current
    <3>1. {Seen(r).content : r \in Wants(ch, jobs, inbox)} \subseteq Current
      BY <2>2
    <3>2. Sights(ch, jobs, inbox) \subseteq Current /\ 0 \in Current
      BY <2>1 DEF Fresh, Current
    <3> QED  BY <2>1, <3>1, <3>2 DEF Carried, Looks
  <2>4. Wants(ch, jobs', inbox') = {} => Held(ch)' \in Current
    BY <2>1 DEF Carried, Fresh
  <2> QED  BY <1>1, <2>3, <2>4 DEF Fresh
<1> QED  BY <1>2, <1>3

\* Beside the pages nothing that they hold changes.
LEMMA ElsewhereCarries ==
  ASSUME Pool, life = "running", Elsewhere
  PROVE  Carries
<1>1. UNCHANGED <<visited, ana, gauges>>
  BY DEF Elsewhere, pages
<1>2. ASSUME NEW ch \in Reloaded PROVE Carried(ch)
  <2>1. Looks(ch) /\ Wants(ch, jobs, inbox) \subseteq Wants(ch, jobs', inbox')
    BY ElsewhereWants, ReloadedChannels DEF Steady
  <2>2. Held(ch)' = Held(ch)
    BY <1>1 DEF Held
  <2> QED  BY <2>1, <2>2 DEF Carried
<1>3. GaugesLeft
  BY <1>1, ElsewhereWants, ReloadedChannels DEF Steady, GaugesLeft, NoGauges
<1> QED  BY <1>1, <1>2, <1>3 DEF Carries, CacheCarried

\* What a page asks for leaves what the others hold, and its own.
LEMMA PageActsCarry ==
  ASSUME Pool, PagesOK, PageActs
  PROVE  Carries
<1>1. Extended(PageKinds) /\ inbox' = inbox
  BY UserLooks DEF PageActs
<1>2. UNCHANGED <<visited, gauges>>
  BY DEF PageActs, SearchBin, ClearBin, CheckBinlist, RunAdvanced, SearchName, ClearName, SelectInstitution,
         SetFilter, RefreshAnalytics, ScopeAnalytics, OpenPalette, ClosePalette, TypeText, Debounced
<1>3. ana'.content = ana.content /\ ana'.cache = ana.cache
  <2>1. IsAna(ana)
    BY DEF PagesOK
  <2>2. CASE RefreshAnalytics \/ \E f \in Filters \cup {None} : ScopeAnalytics(f)
    BY <2>1, <2>2, ZenonT(60) DEF RefreshAnalytics, ScopeAnalytics, IsAna
  <2>3. CASE ~(RefreshAnalytics \/ \E f \in Filters \cup {None} : ScopeAnalytics(f))
    <3>1. ana' = ana
      BY <2>3 DEF PageActs, SearchBin, ClearBin, CheckBinlist, RunAdvanced, SearchName, ClearName,
                  SelectInstitution, SetFilter, OpenPalette, ClosePalette, TypeText, Debounced
    <3> QED  BY <3>1
  <2> QED  BY <2>2, <2>3
<1>4. ASSUME NEW ch
      PROVE  /\ Looks(ch) /\ Wants(ch, jobs, inbox) \subseteq Wants(ch, jobs', inbox')
             /\ ch[2] \notin PageKinds => Wants(ch, jobs', inbox') \subseteq Wants(ch, jobs, inbox)
  <2>1. JobsOK(jobs)
    BY DEF Pool
  <2>2. /\ Wants(ch, jobs, inbox) \subseteq Wants(ch, jobs', inbox)
        /\ ch[2] \notin PageKinds => Wants(ch, jobs', inbox) \subseteq Wants(ch, jobs, inbox)
        /\ Sights(ch, jobs', inbox) \subseteq
             (Sights(ch, jobs, inbox) \cup {0}) \cup {Seen(r).content : r \in Wants(ch, jobs, inbox)}
    BY <1>1, <2>1, ExtendedWants, Zenon
  <2> QED  BY <1>1, <2>2 DEF Looks
<1>5. ASSUME NEW ch \in Reloaded PROVE Carried(ch)
  <2>1. Held(ch)' = Held(ch)
    BY <1>2, <1>3 DEF Held
  <2> QED  BY <1>4, <2>1 DEF Carried
<1>6. \A ch \in Gauges : ch[2] \notin PageKinds
  BY ChannelsApart DEF Gauges, PageKinds
<1>7. GaugesLeft
  BY <1>2, <1>4, <1>6 DEF GaugesLeft, NoGauges
<1> QED  BY <1>2, <1>3, <1>5, <1>7 DEF Carries, CacheCarried

\* A worker that ends puts what it saw in the cache.
LEMMA FinishCarries ==
  ASSUME Pool, PagesOK, life = "running", NEW k \in DOMAIN jobs, Finish(k)
  PROVE  Carries
<1>1. UNCHANGED <<visited, gauges>>
  BY DEF Finish
<1>2. ana'.content = ana.content /\ CacheCarried
  <2>1. IsAna(ana)
    BY DEF PagesOK
  <2>2. CASE ana' = ana
    BY <2>2 DEF CacheCarried
  <2>3. CASE ana' # ana
    <3> DEFINE e == [label |-> jobs[k].want.of, content |-> jobs[k].saw.content]
               f == jobs[k].want.by
    <3>1. ana' = [ana EXCEPT !.cache[f] = e] /\ jobs[k].want.ch = Snapshot
      BY <2>3 DEF Finish
    <3>2. e.content \in Sights(Snapshot, jobs, inbox)
      BY <3>1 DEF Sights
    <3> HIDE DEF e, f
    <3> DEFINE c == [ana.cache EXCEPT ![f] = e]
    <3>3. ana' = [ana EXCEPT !.cache = c]
      BY <3>1
    <3>4. \A g \in DOMAIN c : g \in DOMAIN ana.cache /\ c[g] \in {ana.cache[g], e}
      OBVIOUS
    <3> HIDE DEF c
    <3>5. ana'.cache = c /\ ana'.content = ana.content
      BY <2>1, <3>3 DEF IsAna
    <3> QED  BY <3>2, <3>4, <3>5 DEF CacheCarried
  <2> QED  BY <2>2, <2>3
<1>3. ASSUME NEW ch \in Reloaded PROVE Carried(ch) /\ Wants(ch, jobs', inbox') \subseteq Wants(ch, jobs, inbox)
  <2>1. Held(ch)' = Held(ch)
    BY <1>1, <1>2 DEF Held
  <2>2. Steady(ch) /\ Looks(ch) /\ ch # BinSearch
    BY WorkersWants, ReloadedChannels
  <2> QED  BY <2>1, <2>2 DEF Carried, Steady
<1>4. GaugesLeft
  BY <1>1, <1>3, ReloadedChannels DEF GaugesLeft, NoGauges
<1> QED  BY <1>1, <1>2, <1>3, <1>4 DEF Carries

\* What is handled is held by the page that shows it, and no other holds it.
LEMMA AnswerHeld ==
  ASSUME PagesOK, NEW m, Handle(m)
  PROVE  /\ visited' = visited /\ ana'.cache = ana.cache
         /\ \A ch \in Reloaded : Held(ch)' = IF m.want.ch = ch THEN m.saw.content ELSE Held(ch)
<1> DEFINE Goal == /\ visited' = visited /\ ana'.cache = ana.cache
                   /\ \A ch \in Reloaded : Held(ch)' = IF m.want.ch = ch THEN m.saw.content ELSE Held(ch)
<1>1. IsAna(ana) /\ DOMAIN gauges = Gauges
  BY DEF PagesOK
<1>2. ASSUME UNCHANGED <<visited, ana, gauges>>, m.want.ch \notin Reloaded PROVE Goal
  BY <1>2 DEF Held
<1>3. \A ch \in Reloaded : ch[2] \in {"snapshot", "health", "quality"}
  BY ChannelsApart DEF Reloaded, Gauges
<1>4. ASSUME OnSnapshot(m) PROVE Goal
  <2>1. /\ m.want.ch = Snapshot /\ UNCHANGED <<visited, gauges>>
        /\ ana' = [ana EXCEPT !.loading = FALSE, !.shown = m.want, !.content = m.saw.content]
    BY <1>4 DEF OnSnapshot
  <2> DEFINE w == m.want
             c == m.saw.content
  <2>2. ana' = [ana EXCEPT !.loading = FALSE, !.shown = w, !.content = c]
    BY <2>1
  <2> HIDE DEF w, c
  <2>3. ana'.content = c /\ ana'.cache = ana.cache
    BY <1>1, <2>2 DEF IsAna
  <2>4. ana'.content = m.saw.content
    BY <2>3 DEF c
  <2> QED  BY <2>1, <2>3, <2>4, ReloadedChannels DEF Held
<1>5. ASSUME OnGauge(m) PROVE Goal
  <2>1. /\ m.want.ch \in Gauges /\ UNCHANGED <<visited, ana>>
        /\ gauges' = [gauges EXCEPT ![m.want.ch] = m.saw.content]
    BY <1>5 DEF OnGauge
  <2>2. \A ch \in Gauges : gauges'[ch] = IF m.want.ch = ch THEN m.saw.content ELSE gauges[ch]
    BY <1>1, <2>1
  <2> QED  BY <2>1, <2>2, ReloadedChannels DEF Held
<1>6. ASSUME OnBinResult(m) \/ OnExternalReading(m) \/ OnAdvancedResult(m) \/ OnSuggestions(m) PROVE Goal
  <2>1. m.want.ch \notin Reloaded
    BY <1>3, <1>6, ChannelsApart DEF OnBinResult, OnExternalReading, OnAdvancedResult, OnSuggestions
  <2> QED  BY <1>2, <1>6, <2>1 DEF OnBinResult, OnExternalReading, OnAdvancedResult, OnSuggestions
<1>7. ASSUME NEW p \in Browsers, OnMatches(p, m) PROVE Goal
  <2>1. m.want.ch \notin Reloaded
    BY <1>3, <1>7 DEF OnMatches, Named
  <2> QED  BY <1>2, <1>7, <2>1 DEF OnMatches
<1>8. ASSUME NEW p \in Browsers, OnOptions(p, m) \/ OnPart(p, m) \/ OnPartFailed(p, m) PROVE Goal
  <2>1. \E part \in Five : m.want.ch = <<p, part>>
    BY <1>8, PartsAreFive DEF OnOptions, OnPart, OnPartFailed, PartChannels, Five
  <2>2. m.want.ch \notin Reloaded
    BY <1>3, <2>1 DEF Five
  <2> QED  BY <1>2, <1>8, <2>2 DEF OnOptions, OnPart, OnPartFailed
<1> QED  BY <1>4, <1>5, <1>6, <1>7, <1>8 DEF Handle

\* So an answer that is handled brings what a worker saw.
LEMMA DeliverCarries ==
  ASSUME Pool, PagesOK, Deliver
  PROVE  Carries
<1> DEFINE m == Head(inbox)
<1>1. inbox # <<>> /\ inbox' = Tail(inbox) /\ Handle(m) /\ life' = life
  BY DEF Deliver
<1>2. Extended(PageKinds) /\ JobsOK(jobs) /\ QueueOK(inbox)
  BY <1>1, Answering DEF Pool
<1>3. /\ visited' = visited /\ ana'.cache = ana.cache
      /\ \A ch \in Reloaded : Held(ch)' = IF m.want.ch = ch THEN m.saw.content ELSE Held(ch)
  <2> HIDE DEF m
  <2> QED  BY <1>1, AnswerHeld
<1>4. ASSUME NEW ch
      PROVE  /\ Looks(ch)
             /\ m.want.ch # ch => Wants(ch, jobs, inbox) \subseteq Wants(ch, jobs', inbox')
             /\ ch[2] \notin PageKinds => Wants(ch, jobs', inbox') \subseteq Wants(ch, jobs, inbox)
             /\ m.want.ch = ch => /\ m.want \in Wants(ch, jobs, inbox)
                                  /\ m.saw.content \in Sights(ch, jobs, inbox)
  <2>1. /\ Wants(ch, jobs, inbox) \subseteq Wants(ch, jobs', inbox)
        /\ ch[2] \notin PageKinds => Wants(ch, jobs', inbox) \subseteq Wants(ch, jobs, inbox)
        /\ Sights(ch, jobs', inbox) \subseteq
             (Sights(ch, jobs, inbox) \cup {0}) \cup {Seen(r).content : r \in Wants(ch, jobs, inbox)}
    BY <1>2, ExtendedWants, Zenon
  <2>2. /\ Wants(ch, jobs', inbox') \subseteq Wants(ch, jobs', inbox)
        /\ Sights(ch, jobs', inbox') \subseteq Sights(ch, jobs', inbox)
        /\ m.want.ch # ch => Wants(ch, jobs', inbox') = Wants(ch, jobs', inbox)
    BY <1>1, <1>2, HandledWants
  <2>3. m.want.ch = ch => /\ m.want \in Wants(ch, jobs, inbox)
                          /\ m.saw.content \in Sights(ch, jobs, inbox)
    BY <1>1, <1>2, HandledWants
  <2>4. Looks(ch)
    BY <2>1, <2>2 DEF Looks
  <2> HIDE DEF m
  <2> QED  BY <2>1, <2>2, <2>3, <2>4
<1> HIDE DEF m
<1>5. \A ch \in Reloaded : Carried(ch)
  BY <1>3, <1>4 DEF Carried
<1>6. \A ch \in Gauges : ch[2] \notin PageKinds
  BY ChannelsApart DEF Gauges, PageKinds
<1>7. ASSUME "health" \notin visited, NoGauges, NEW ch \in Gauges
      PROVE  gauges'[ch] = gauges[ch] /\ Wants(ch, jobs', inbox') = {}
  <2>1. Wants(ch, jobs, inbox) = {} /\ m.want.ch # ch
    BY <1>4, <1>7 DEF NoGauges
  <2>2. Held(ch)' = Held(ch) /\ ch # Snapshot
    BY <1>3, <2>1, ReloadedChannels
  <2> QED  BY <1>4, <1>6, <2>1, <2>2 DEF Held
<1>8. GaugesLeft
  BY <1>7 DEF GaugesLeft
<1> QED  BY <1>3, <1>5, <1>8 DEF Carries, CacheCarried

\* The pages that are told of a new database hold nothing of the last one, or have asked again.
LEMMA ReloadsFresh ==
  ASSUME Pool, PagesOK, life' = life, Reloads, lapsed \subseteq lapsed',
         Snapshot \notin lapsed => AskedFor(Snapshot), "health" \notin visited => NoGauges
  PROVE  /\ "health" \notin visited' => NoGauges'
         /\ Snapshot \notin lapsed' => CacheOK'
         /\ \A ch \in Reloaded \ lapsed' : Fresh(ch)'
<1>1. /\ inbox # <<>> /\ inbox' = Tail(inbox) /\ Head(inbox).want.ch[2] \in Replacing
      /\ UNCHANGED <<visited, gauges>>
  BY DEF Reloads
<1>2. CASE UNCHANGED <<jobs, bin, ana>> /\ Reloaded \subseteq lapsed'
  <2>1. \A ch \in Gauges : Wants(ch, jobs', inbox') \subseteq Wants(ch, jobs, inbox)
    BY <1>1, <1>2, HandledWants DEF Pool
  <2>2. "health" \notin visited' => NoGauges'
    BY <1>1, <2>1 DEF NoGauges
  <2> QED  BY <1>2, <2>2, ReloadedChannels
<1>3. ASSUME NEW open, NEW idle, Reload(open, idle), Overtaken(Reloaded) \subseteq lapsed',
             ~open => Reloaded \subseteq lapsed', ~idle => Health \in lapsed'
      PROVE  /\ "health" \notin visited' => NoGauges'
             /\ Snapshot \notin lapsed' => CacheOK'
             /\ \A ch \in Reloaded \ lapsed' : Fresh(ch)'
  <2>1. ReloadWaits(open, idle)
    BY <1>1, <1>3, ReloadAsked
  <2>2. "health" \notin visited' => NoGauges'
    BY <1>1, <2>1 DEF ReloadWaits, NoGauges
  <2>3. CacheOK'
    <3>1. ana' = [ana EXCEPT !.cache = NoCache, !.loading = @ \/ open]
      BY <1>3 DEF Reload
    <3> DEFINE l == ana.loading \/ open
    <3>2. ana' = [ana EXCEPT !.cache = NoCache, !.loading = l] /\ IsAna(ana)
      BY <3>1 DEF PagesOK
    <3> HIDE DEF l
    <3>3. ana'.cache = NoCache
      BY <3>2 DEF IsAna
    <3> QED  BY <3>3 DEF CacheOK, NoCache, Current
  <2>4. ASSUME NEW ch \in Reloaded \ lapsed' PROVE Fresh(ch)'
    <3>1. Wants(ch, jobs, inbox) = {}
      BY <1>3, <2>4, NotOvertaken
    <3>2. Sights(ch, jobs', inbox') \subseteq {0}
      BY <2>1, <2>4, <3>1, WantsPending, ReloadedChannels DEF ReloadWaits
    <3>3. open
      BY <1>3, <2>4
    <3>4. CASE ch = Snapshot
      <4>1. AnaOK(ana, {})
        BY <2>4, <3>1, <3>4, BelongsOf DEF AskedFor
      <4>2. ana.loading = FALSE
        BY <4>1 DEF AnaOK, PagesOK, IsAna
      <4>3. Wants(ch, jobs', inbox') # {}
        BY <2>1, <3>3, <3>4, <4>2 DEF ReloadWaits
      <4> QED  BY <3>2, <4>3 DEF Fresh, Current
    <3>5. CASE ch \in Gauges /\ "health" \in visited
      <4>1. Wants(ch, jobs', inbox') # {}
        BY <1>3, <2>1, <2>4, <3>3, <3>5 DEF ReloadWaits, Gauges
      <4> QED  BY <3>2, <4>1 DEF Fresh, Current
    <3>6. CASE ch \in Gauges /\ "health" \notin visited
      <4>1. Held(ch)' = 0
        BY <1>1, <3>6, ReloadedChannels DEF Held, NoGauges
      <4> QED  BY <3>2, <4>1 DEF Fresh, Current
    <3> QED  BY <2>4, <3>4, <3>5, <3>6, ReloadedChannels
  <2> QED  BY <2>2, <2>3, <2>4
<1> QED  BY <1>2, <1>3 DEF Reloads

\* Pages that hold nothing are fresh.
LEMMA EmptyFresh == Blank => NoGauges /\ CacheOK /\ \A ch \in Reloaded : Fresh(ch)
<1> SUFFICES ASSUME Blank PROVE NoGauges /\ CacheOK /\ \A ch \in Reloaded : Fresh(ch)
  OBVIOUS
<1> USE DEF Blank
<1>1. \A ch : Wants(ch, jobs, inbox) = {} /\ Sights(ch, jobs, inbox) = {}
  BY NoneSeq DEF Wants, Sights
<1>2. CacheOK
  BY DEF CacheOK, NoAna, NoCache, Current
<1>3. \A ch \in Gauges : gauges[ch] = 0
  OBVIOUS
<1>4. \A ch \in Reloaded : Held(ch) = 0
  BY <1>3, ReloadedChannels DEF Held, NoAna
<1> QED  BY <1>1, <1>2, <1>3, <1>4 DEF NoGauges, Fresh, Current

\* So it is when the program is started.
LEMMA FreshHolds == DesktopInit => FreshInv
BY EmptyFresh DEF Blank, DesktopInit, WindowInit, MInit, Init, FreshInv

\* Every step keeps what is held fresh, or leaves something to be told.
LEMMA FreshStays ==
  ASSUME Pool, DiskOK, OpenInv, ShownInv, FreshInv, [DesktopNext]_desktop
  PROVE  FreshInv'
<1>1. CASE life' # "running"
  BY <1>1 DEF FreshInv
<1>2. CASE life = "running" /\ life' = "running"
  <2>1. PagesOK /\ \A ch \in LookupChannels \ lapsed : AskedFor(ch)
    BY <1>2 DEF ShownInv
  <2>2. lapsed \subseteq lapsed'
    BY <1>2, ShownSteps
  <2>3. CASE Reloads
    <3>1. Snapshot \notin lapsed => AskedFor(Snapshot)
      BY <2>1, ReloadedChannels
    <3>2. "health" \notin visited => NoGauges
      BY <1>2 DEF FreshInv
    <3> QED  BY <1>2, <2>1, <2>2, <2>3, <3>1, <3>2, ReloadsFresh DEF FreshInv
  <2>4. CASE Elsewhere \/ PageActs \/ Deliver \/ \E k \in DOMAIN jobs : Finish(k)
    <3>1. Carries
      BY <1>2, <2>1, <2>4, ElsewhereCarries, PageActsCarry, DeliverCarries, FinishCarries
    <3>2. "health" \notin visited' => NoGauges'
      BY <1>2, <3>1 DEF FreshInv, Carries, GaugesLeft, NoGauges
    <3>3. ASSUME ~Notice'
          PROVE  /\ Snapshot \notin lapsed' => CacheOK'
                 /\ \A ch \in Reloaded \ lapsed' : Fresh(ch)'
      <4>1. ~Notice
        BY <1>2, <2>4, <3>3, NoticeKept
      <4>2. ~Reopening'
        BY <3>3 DEF Reopening, Notice, Replaced, Replacing
      <4>3. file'.content = file.content
        BY <4>2, FileKept
      <4>4. /\ Snapshot \notin lapsed => CacheOK
            /\ \A ch \in Reloaded \ lapsed : Fresh(ch)
        BY <1>2, <4>1 DEF FreshInv
      <4> QED  BY <2>1, <2>2, <3>1, <4>1, <4>3, <4>4, CarriedFresh
    <3> QED  BY <3>2, <3>3 DEF FreshInv
  <2> QED  BY <1>2, <2>3, <2>4, ShownSteps
<1>3. CASE life # "running" /\ life' = "running"
  <2>1. Restart /\ jobs' = <<>> /\ inbox' = <<>>
    BY <1>3, OpensEmpty
  <2>2. /\ bin' = NoBin /\ inst' = [p \in Browsers |-> NoInst(p)]
        /\ ana' = NoAna /\ gauges' = [ch \in Gauges |-> 0] /\ palette' = NoPalette
    BY <2>1 DEF Restart
  <2>3. Blank'
    BY <2>1, <2>2 DEF Blank
  <2>4. (NoGauges /\ CacheOK /\ \A ch \in Reloaded : Fresh(ch))'
    BY <2>3, EmptyFresh, PTL
  <2> QED  BY <2>4 DEF FreshInv
<1> QED  BY <1>1, <1>2, <1>3

\* While no job of a maintenance page is under way there is nothing left to tell.
LEMMA NothingToTell ==
  ASSUME Pool, ~Maintained
  PROVE  ~Notice
<1>1. Replacing \subseteq JobKinds
  BY JobKindsAssumption
<1>2. ASSUME NEW k \in DOMAIN jobs, jobs[k].at = "open" PROVE FALSE
  <2>1. jobs[k].want.ch[2] \in Replacing
    BY <1>2 DEF Pool, JobsOK, JobOK, Swaps, Replacing
  <2> QED  BY <1>1, <2>1 DEF Maintained
<1>3. ASSUME NEW k \in DOMAIN inbox, Replaced(inbox[k]) PROVE FALSE
  BY <1>1, <1>3 DEF Replaced, Maintained
<1> QED  BY <1>2, <1>3 DEF Notice

\* What is on the screen belongs together: what a page shows once nothing is on its way on a
\* channel is the answer to what it last asked there, for the institution, the filter and the
\* database that it names, however the answers, the reloads and the jobs that replace the
\* database interleave, unless an answer was overtaken or failed to come.
THEOREM ShowsWhatWasAsked == DesktopSpec => []ShownTogether
<1> DEFINE Inv == Pool /\ DiskOK /\ OpenInv /\ ShownInv /\ FreshInv
<1>1. DesktopInit => Inv
  <2>1. DesktopInit => OpenInv
    BY DEF DesktopInit, WindowInit, MInit, Init, OpenInv
  <2> QED  BY <2>1, PoolHolds, DiskHolds, ShownHolds, FreshHolds
<1>2. Inv /\ [DesktopNext]_desktop => Inv'
  BY PoolStays, DiskStays, OpenStays, ShownStays, FreshStays
<1>3. ASSUME Inv PROVE ShownTogether
  <2>1. ASSUME NEW ch \in LookupChannels, Quiet(ch)
        PROVE  /\ PagesOK /\ AskedFor(ch) /\ Wants(ch, jobs, inbox) = {}
               /\ Belongs(ch, bin, inst, ana, palette, {})
    BY <1>3, <2>1, WantsPending DEF Quiet, ShownInv, AskedFor
  <2>2. {BinSearch, Opinion, Advanced, Snapshot, Suggest} \subseteq LookupChannels
    BY DEF LookupChannels
  <2>3. Quiet(BinSearch) => SearchOK(bin, {})
    BY <2>1, <2>2, BelongsOf
  <2>4. Quiet(Opinion) => OpinionOK(bin, {})
    BY <2>1, <2>2, BelongsOf
  <2>5. Quiet(Advanced) => AdvancedOK(bin, {})
    BY <2>1, <2>2, BelongsOf
  <2>6. Quiet(Snapshot) => AnaOK(ana, {})
    BY <2>1, <2>2, BelongsOf
  <2>7. Quiet(Suggest) => PaletteOK(palette, {}) /\ palette.timer \in BOOLEAN
    BY <2>1, <2>2, BelongsOf DEF PagesOK, IsPalette
  <2>8. ASSUME NEW p \in Browsers, NEW part \in Range(PartsOf(p)), Quiet(<<p, part>>)
        PROVE  PartOK(inst[p], part, {})
    <3>1. <<p, part>> \in LookupChannels
      BY <2>8, PartsAreFive DEF LookupChannels
    <3> QED  BY <2>1, <2>8, <3>1, BelongsOf
  <2>9. ASSUME NEW ch \in Reloaded, Quiet(ch), db.open, ~Maintained, Held(ch) # 0
        PROVE  Held(ch) = db.content
    <3>1. ~Notice
      BY <1>3, <2>9, NothingToTell
    <3>2. Fresh(ch) /\ Wants(ch, jobs, inbox) = {}
      BY <1>3, <2>9, <3>1, WantsPending DEF Quiet, FreshInv
    <3>3. db.content = file.content
      BY <1>3, <2>9, <3>1, OwedIsNotice DEF OpenInv
    <3> QED  BY <2>9, <3>2, <3>3 DEF Fresh, Current
  <2>10. ASSUME Quiet(Snapshot), ana.shown # Nothing
         PROVE  /\ ana.shown.by = ana.filter
                /\ db.open /\ ~Maintained => ana.content = db.content
    <3>1. ana.shown.by = ana.filter /\ ana.content # 0
      BY <2>6, <2>10 DEF AnaOK
    <3>2. Held(Snapshot) = ana.content
      BY DEF Held
    <3> QED  BY <2>9, <2>10, <3>1, <3>2, ReloadedChannels
  <2>11. ASSUME NEW ch \in Gauges, Quiet(ch), gauges[ch] # 0, db.open, ~Maintained
         PROVE  gauges[ch] = db.content
    <3>1. Held(ch) = gauges[ch] /\ ch \in Reloaded
      BY ReloadedChannels DEF Held
    <3> QED  BY <2>9, <2>11, <3>1
  <2>12. /\ Quiet(BinSearch) /\ bin.screen = "result" => bin.card = bin.query
         /\ Quiet(BinSearch) /\ bin.query = None => bin.screen = "idle"
         /\ Quiet(Opinion) => bin.reading \in {None, bin.query}
         /\ Quiet(Advanced) => bin.rows = bin.criteria
    BY <2>3, <2>4, <2>5 DEF SearchOK, OpinionOK, AdvancedOK
  <2>13. ASSUME NEW p \in Browsers, inst[p].screen = "result",
                NEW part \in Range(PartsOf(p)), Quiet(<<p, part>>)
         PROVE  /\ inst[p].shown[part].of = inst[p].current
                /\ part = "rows" => inst[p].shown[part].by = inst[p].filters
    BY <2>8, <2>13 DEF PartOK, Answers
  <2>14. Quiet(Suggest) /\ palette.open /\ ~palette.timer => palette.dynamic \in {None, palette.text}
    BY <2>7 DEF PaletteOK
  <2> QED  BY <2>10, <2>11, <2>12, <2>13, <2>14 DEF ShownTogether
<1> QED  BY <1>1, <1>2, <1>3, PTL DEF DesktopSpec

================================================================================

--------------------------- MODULE LearnedFactsProofs ---------------------------
(***************************************************************************)
(* Proofs about LearnedFacts, for any subjects, values and sources and a   *)
(* ledger of any length: LedgerSound is an invariant, and DecisionsStand.  *)
(***************************************************************************)
EXTENDS LearnedFacts, SequenceTheorems, WellFoundedInduction, TLAPS

--------------------------------------------------------------------------------
\* The last of the approved facts

\* A set of numbers has a least one.
LEMMA Least ==
  ASSUME NEW T \in SUBSET Nat, T # {}
  PROVE  \E x \in T : \A y \in T : x <= y
<1>1. PICK x \in T : \A y \in T : <<y, x>> \notin OpToRel(<, Nat)
  BY NatLessThanWellFounded, WFMin, Zenon
<1>2. \A y \in T : ~(y < x)
  BY <1>1, Zenon DEF OpToRel
<1> QED  BY <1>2

\* A non-empty set of numbers up to n has a last one.
LEMMA LastIsMember ==
  ASSUME NEW n \in Nat, NEW S \in SUBSET (1 .. n), S # {}
  PROVE  Last(S) \in S
<1> DEFINE T == {k \in 0 .. n : n - k \in S}
<1>1. \A i \in S : i \in 1 .. n /\ n - i \in T
  OBVIOUS
<1>2. T \in SUBSET Nat
  OBVIOUS
<1>3. T # {}
  BY <1>1
<1>4. PICK x \in T : \A y \in T : x <= y
  BY <1>2, <1>3, Least
<1>5. n - x \in S /\ \A j \in S : j <= n - x
  BY <1>1, <1>4
<1> QED  BY <1>5, Zenon DEF Last

--------------------------------------------------------------------------------
\* Types

USE SourceAssumption, AutoAssumption, NoneAssumption, BoundAssumption

\* What a database is made of.
LEMMA DatabaseFields ==
  ASSUME NEW d \in Database
  PROVE  /\ d.held \in [Subjects -> Values \cup {Blank, Gone}]
         /\ d.ledger \in Seq(Fact)
         /\ Len(d.ledger) \in Nat /\ DOMAIN d.ledger = 1 .. Len(d.ledger)
         /\ \A i \in DOMAIN d.ledger : d.ledger[i] \in Fact
         /\ d.claims \in SUBSET [subject : Subjects, source : Sources, value : Values]
BY LenProperties, ElementOfSeq DEF Database

\* Facts after a change of status are facts when someone decided.
LEMMA FactUpdates ==
  ASSUME NEW f \in Fact
  PROVE  /\ f.status = "pending" => [f EXCEPT !.status = "superseded"] \in Fact
         /\ f.status = "approved" => [f EXCEPT !.status = "applied"] \in Fact
         /\ \A status \in {"approved", "rejected"} :
              [f EXCEPT !.status = status, !.by = "user"] \in Fact
<1>1. f.status = "pending" => [f EXCEPT !.status = "superseded"] \in Fact
  BY DEF Fact, Statuses
<1>2. f.status = "approved" => [f EXCEPT !.status = "applied"] \in Fact
  BY DEF Fact, Statuses
<1>3. ASSUME NEW status \in {"approved", "rejected"}
      PROVE  [f EXCEPT !.status = status, !.by = "user"] \in Fact
  <2> DEFINE g == [f EXCEPT !.status = status, !.by = "user"]
  <2>1. f \in [subject : Subjects, source : Sources, value : Values,
               current : Values \cup {Blank}, status : Statuses,
               by : {"nobody", "user", "setting"}]
    BY DEF Fact
  <2>2. g \in [subject : Subjects, source : Sources, value : Values,
               current : Values \cup {Blank}, status : Statuses,
               by : {"nobody", "user", "setting"}]
    BY <2>1 DEF Statuses
  <2>3. g.status = status /\ g.by = "user"
    BY <2>1
  <2> HIDE DEF g
  <2>4. g \in Fact
    BY <2>2, <2>3 DEF Fact
  <2> QED  BY <2>4 DEF g
<1> QED  BY <1>1, <1>2, <1>3

\* A change of status changes neither what a fact says nor who says it.
LEMMA FactKeepsRow ==
  ASSUME NEW f \in Fact, NEW status, NEW g, g = [f EXCEPT !.status = status]
  PROVE  Row(g) = Row(f) /\ g.source = f.source /\ g.by = f.by /\ g.status = status
<1>1. f \in [subject : Subjects, source : Sources, value : Values,
             current : Values \cup {Blank}, status : Statuses,
             by : {"nobody", "user", "setting"}]
  BY DEF Fact
<1> QED  BY <1>1 DEF Row

\* A function on the positions of a ledger whose values are facts is a ledger.
LEMMA Relabelled ==
  ASSUME NEW l \in Seq(Fact), NEW m, m = [i \in DOMAIN l |-> m[i]],
         \A i \in DOMAIN l : m[i] \in Fact
  PROVE  m \in Seq(Fact) /\ Len(m) = Len(l) /\ DOMAIN m = DOMAIN l
<1>1. m \in [1 .. Len(l) -> Fact] /\ Len(l) \in Nat  BY LenProperties
<1>2. m \in Seq(Fact)  BY <1>1, SeqDef
<1>3. Len(m) \in Nat /\ DOMAIN m = 1 .. Len(m)  BY <1>2, LenProperties
<1> QED  BY <1>1, <1>2, <1>3, LenProperties

\* Recording keeps a database one, and a ledger grows by one row at the most.
LEMMA RecordedType ==
  ASSUME NEW d \in Database, NEW p \in Proposal
  PROVE  Recorded(d, p) \in Database /\ Len(Recorded(d, p).ledger) <= Len(d.ledger) + 1
<1> DEFINE m == Overtaken(d.ledger, p)
<1>1. \A i \in DOMAIN d.ledger : m[i] \in Fact
  BY DatabaseFields, FactUpdates DEF Overtaken
<1>2. m = [i \in DOMAIN d.ledger |-> m[i]]  BY DEF Overtaken
<1>3. m \in Seq(Fact) /\ Len(m) = Len(d.ledger)
  <2> HIDE DEF m
  <2> QED  BY <1>1, <1>2, DatabaseFields, Relabelled
<1>4. Raised(p) \in Fact
  BY DEF Raised, Proposal, Fact, Statuses
<1>5. Append(m, Raised(p)) \in Seq(Fact) /\ Len(Append(m, Raised(p))) = Len(m) + 1
  <2> HIDE DEF m
  <2> QED  BY <1>3, <1>4
<1> HIDE DEF m
<1>6. CASE Known(d.ledger, p)
  BY <1>6, DatabaseFields DEF Recorded
<1>7. CASE ~Known(d.ledger, p)
  <2>1. Recorded(d, p) = [d EXCEPT !.ledger = Append(m, Raised(p))]
    BY <1>7 DEF Recorded, m
  <2>2. Recorded(d, p) \in Database  BY <1>5, <2>1 DEF Database
  <2>3. Recorded(d, p).ledger = Append(m, Raised(p))  BY <2>1 DEF Database
  <2> QED  BY <1>3, <1>5, <2>2, <2>3, DatabaseFields
<1> QED  BY <1>6, <1>7

\* Applying what is approved keeps a database one, row by row.
LEMMA AppliedType ==
  ASSUME NEW d \in Database
  PROVE  /\ Applied(d) \in Database
         /\ Len(Applied(d).ledger) = Len(d.ledger)
         /\ DOMAIN Applied(d).ledger = DOMAIN d.ledger
<1> DEFINE m == [i \in DOMAIN d.ledger |->
                   IF d.ledger[i].status = "approved" /\ d.held[d.ledger[i].subject] # Gone
                     THEN [d.ledger[i] EXCEPT !.status = "applied"] ELSE d.ledger[i]]
           h == [s \in Subjects |->
                   IF d.held[s] = Gone \/ Approved(d, s) = {} THEN d.held[s]
                   ELSE d.ledger[Last(Approved(d, s))].value]
           c == d.claims \cup
                  {Row(d.ledger[i]) : i \in {j \in DOMAIN d.ledger :
                     d.ledger[j].status = "approved" /\ d.held[d.ledger[j].subject] # Gone}}
<1>1. Applied(d) = [held |-> h, ledger |-> m, claims |-> c]
  BY DEF Applied
<1>2. \A i \in DOMAIN d.ledger : m[i] \in Fact
  BY DatabaseFields, FactUpdates
<1>3. m = [i \in DOMAIN d.ledger |-> m[i]]
  OBVIOUS
<1>4. m \in Seq(Fact) /\ Len(m) = Len(d.ledger) /\ DOMAIN m = DOMAIN d.ledger
  <2> HIDE DEF m
  <2> QED  BY <1>2, <1>3, DatabaseFields, Relabelled
<1>5. ASSUME NEW s \in Subjects
      PROVE  h[s] \in Values \cup {Blank, Gone}
  <2>1. CASE d.held[s] = Gone \/ Approved(d, s) = {}
    BY <2>1, DatabaseFields
  <2>2. CASE d.held[s] # Gone /\ Approved(d, s) # {}
    <3>1. Approved(d, s) \in SUBSET (1 .. Len(d.ledger))
      BY DatabaseFields DEF Approved
    <3>2. Last(Approved(d, s)) \in DOMAIN d.ledger
      BY <2>2, <3>1, DatabaseFields, LastIsMember
    <3>3. d.ledger[Last(Approved(d, s))].value \in Values
      BY <3>2, DatabaseFields DEF Fact
    <3> QED  BY <2>2, <3>3
  <2> QED  BY <2>1, <2>2
<1>6. h \in [Subjects -> Values \cup {Blank, Gone}]
  <2>1. h = [s \in Subjects |-> h[s]]  OBVIOUS
  <2> HIDE DEF h
  <2> QED  BY <1>5, <2>1
<1>7. c \in SUBSET [subject : Subjects, source : Sources, value : Values]
  <2>1. ASSUME NEW i \in DOMAIN d.ledger
        PROVE  Row(d.ledger[i]) \in [subject : Subjects, source : Sources, value : Values]
    BY DatabaseFields DEF Row, Fact
  <2> QED  BY <2>1, DatabaseFields
<1> HIDE DEF m, h, c
<1> QED  BY <1>1, <1>4, <1>6, <1>7 DEF Database

\* So does a decision.
LEMMA DecidedType ==
  ASSUME NEW d \in Database, NEW ids, NEW status \in {"approved", "rejected"}
  PROVE  /\ Decided(d, ids, status) \in Database
         /\ Len(Decided(d, ids, status).ledger) = Len(d.ledger)
         /\ DOMAIN Decided(d, ids, status).ledger = DOMAIN d.ledger
<1> DEFINE m == [i \in DOMAIN d.ledger |->
                   IF i \in ids /\ d.ledger[i].status \in {"pending", "approved"}
                     THEN [d.ledger[i] EXCEPT !.status = status, !.by = "user"]
                     ELSE d.ledger[i]]
<1>1. Decided(d, ids, status) = [d EXCEPT !.ledger = m]
  BY DEF Decided
<1>2. \A i \in DOMAIN d.ledger : m[i] \in Fact
  BY DatabaseFields, FactUpdates
<1>3. m = [i \in DOMAIN d.ledger |-> m[i]]
  OBVIOUS
<1> HIDE DEF m
<1>4. m \in Seq(Fact) /\ Len(m) = Len(d.ledger) /\ DOMAIN m = DOMAIN d.ledger
  BY <1>2, <1>3, DatabaseFields, Relabelled
<1>5. Decided(d, ids, status) \in Database /\ Decided(d, ids, status).ledger = m
  BY <1>1, <1>4 DEF Database
<1> QED  BY <1>4, <1>5

\* Every variable has its type in every reachable state.
LEMMA TypeStep == TypeOK /\ [Next]_vars => TypeOK'
<1> SUFFICES ASSUME TypeOK, [Next]_vars PROVE TypeOK'
  OBVIOUS
<1> USE DEF TypeOK
<1>1. CASE Gather
  BY <1>1, DatabaseFields DEF Gather, Readings, Proposal
<1>2. CASE Record
  BY <1>2, RecordedType, DatabaseFields DEF Record
<1>3. CASE Forget
  BY <1>3 DEF Forget
<1>4. ASSUME NEW ids \in SUBSET DOMAIN db.ledger, Approve(ids) PROVE TypeOK'
  BY <1>4, DecidedType, AppliedType DEF Approve, Written
<1>5. ASSUME NEW ids \in SUBSET DOMAIN db.ledger, Reject(ids) PROVE TypeOK'
  BY <1>5, DecidedType DEF Reject
<1>6. ASSUME NEW s \in Subjects, NEW value \in Values \cup {Blank}, Edit(s, value)
      PROVE  TypeOK'
  BY <1>6 DEF Edit, Database
<1>7. ASSUME NEW held \in [Subjects -> Values \cup {Blank, Gone}], StartRebuild(held)
      PROVE  TypeOK'
  BY <1>7, EmptySeq DEF StartRebuild, Database
<1>8. CASE Note
  <2>1. staged \in Database /\ staged # Nothing  BY <1>8 DEF Note
  <2>2. PICK s \in Subjects, source \in Local :
          \E p \in Readings(staged, s, source) : staged' = Recorded(staged, p)
    BY <1>8 DEF Note
  <2>3. PICK p \in Readings(staged, s, source) : staged' = Recorded(staged, p)
    BY <2>2
  <2>4. p \in Proposal
    BY <2>1, <2>3, DatabaseFields DEF Readings, Proposal, Sources
  <2> QED  BY <1>8, <2>1, <2>3, <2>4, RecordedType, DatabaseFields DEF Note
<1>9. CASE InstallRebuilt
  BY <1>9, AppliedType DEF InstallRebuilt, Written
<1>10. CASE RebuildFails
  BY <1>10 DEF RebuildFails
<1>11. CASE UNCHANGED vars
  BY <1>11 DEF vars
<1> QED
  BY <1>1, <1>2, <1>3, <1>4, <1>5, <1>6, <1>7, <1>8, <1>9, <1>10, <1>11 DEF Next

--------------------------------------------------------------------------------
\* One ledger

\* RaisedOnce and UnsettledWaits, of one ledger.
Sound(l) ==
  /\ \A i, j \in DOMAIN l : Row(l[i]) = Row(l[j]) => i = j
  /\ \A i \in DOMAIN l :
       (l[i].status \in {"approved", "applied"} /\ l[i].source \notin Local \cup Verified)
         => l[i].by = "user"

\* Recording raises only what is not there, and leaves to a person what must be.
LEMMA RecordedSound ==
  ASSUME NEW d \in Database, Sound(d.ledger), NEW p \in Proposal
  PROVE  Sound(Recorded(d, p).ledger)
<1> DEFINE l == d.ledger
           m == Overtaken(l, p)
           k == Append(m, Raised(p))
<1>1. CASE Known(l, p)
  BY <1>1 DEF Recorded
<1>2. CASE ~Known(l, p)
  <2>1. Recorded(d, p).ledger = k
    BY <1>2 DEF Recorded, Database
  <2>2. \A i \in DOMAIN l : m[i] \in Fact
    BY DatabaseFields, FactUpdates DEF Overtaken
  <2>3. m \in Seq(Fact) /\ Len(m) = Len(l) /\ DOMAIN m = DOMAIN l
    <3>1. m = [i \in DOMAIN l |-> m[i]]  BY DEF Overtaken
    <3> HIDE DEF m
    <3> QED  BY <2>2, <3>1, DatabaseFields, Relabelled
  <2>4. \A i \in DOMAIN l :
          /\ Row(m[i]) = Row(l[i]) /\ m[i].source = l[i].source /\ m[i].by = l[i].by
          /\ m[i].status = l[i].status \/ m[i].status = "superseded"
    <3> SUFFICES ASSUME NEW i \in DOMAIN l
                 PROVE  /\ Row(m[i]) = Row(l[i]) /\ m[i].source = l[i].source /\ m[i].by = l[i].by
                        /\ m[i].status = l[i].status \/ m[i].status = "superseded"
      OBVIOUS
    <3>1. m[i] = l[i] \/ m[i] = [l[i] EXCEPT !.status = "superseded"]
      BY DEF Overtaken
    <3>2. l[i] \in Fact  BY DatabaseFields
    <3> HIDE DEF l, m
    <3> QED  BY <3>1, <3>2, FactKeepsRow
  <2>5. Row(Raised(p)) = Row(p) /\ Raised(p).source = p.source
    BY DEF Raised, Row
  <2>6. Raised(p).status = "approved" => Raised(p).source \in Local \cup Verified
    BY DEF Raised, MayAutoApply
  <2>7. Raised(p).status # "applied"
    BY DEF Raised
  <2>8. Raised(p) \in Fact
    BY DEF Raised, Proposal, Fact, Statuses
  <2>9. /\ DOMAIN k = 1 .. Len(l) + 1 /\ k[Len(l) + 1] = Raised(p)
        /\ \A i \in DOMAIN l : k[i] = m[i]
    <3> HIDE DEF m
    <3> QED  BY <2>3, <2>8, DatabaseFields
  <2> HIDE DEF m, k
  <2>10. \A i \in DOMAIN k : i \in DOMAIN l \/ i = Len(l) + 1
    BY <2>9, DatabaseFields
  <2>11. \A i \in DOMAIN l : Row(k[i]) # Row(k[Len(l) + 1])
    BY <1>2, <2>4, <2>5, <2>9 DEF Known
  <2>12. \A i, j \in DOMAIN k : Row(k[i]) = Row(k[j]) => i = j
    BY <2>4, <2>9, <2>10, <2>11 DEF Sound
  <2>13. \A i \in DOMAIN k :
           (k[i].status \in {"approved", "applied"} /\ k[i].source \notin Local \cup Verified)
             => k[i].by = "user"
    BY <2>4, <2>6, <2>7, <2>9, <2>10 DEF Sound
  <2> QED  BY <2>1, <2>12, <2>13 DEF Sound
<1> QED  BY <1>1, <1>2

\* Applying settles what was approved and no other, and adds no row.
LEMMA AppliedSound ==
  ASSUME NEW d \in Database, Sound(d.ledger)
  PROVE  Sound(Applied(d).ledger)
<1>1. \A i \in DOMAIN d.ledger :
        LET f == d.ledger[i]
            g == Applied(d).ledger[i]
        IN  /\ Row(g) = Row(f) /\ g.source = f.source /\ g.by = f.by
            /\ \/ g.status = f.status
               \/ f.status = "approved" /\ g.status = "applied"
  <2> SUFFICES ASSUME NEW i \in DOMAIN d.ledger
               PROVE  LET f == d.ledger[i]
                          g == Applied(d).ledger[i]
                      IN  /\ Row(g) = Row(f) /\ g.source = f.source /\ g.by = f.by
                          /\ \/ g.status = f.status
                             \/ f.status = "approved" /\ g.status = "applied"
    OBVIOUS
  <2>1. \/ Applied(d).ledger[i] = d.ledger[i]
        \/ /\ d.ledger[i].status = "approved"
           /\ Applied(d).ledger[i] = [d.ledger[i] EXCEPT !.status = "applied"]
    BY DEF Applied
  <2>2. d.ledger[i] \in Fact  BY DatabaseFields
  <2> DEFINE f == d.ledger[i]
             g == Applied(d).ledger[i]
  <2>3. g = f \/ (f.status = "approved" /\ g = [f EXCEPT !.status = "applied"])
    BY <2>1
  <2> HIDE DEF f, g
  <2>4. f \in Fact  BY <2>2 DEF f
  <2>5. /\ Row(g) = Row(f) /\ g.source = f.source /\ g.by = f.by
        /\ \/ g.status = f.status
           \/ f.status = "approved" /\ g.status = "applied"
    BY <2>3, <2>4, FactKeepsRow
  <2> QED  BY <2>5 DEF f, g
<1> QED  BY <1>1, AppliedType DEF Sound

\* A decision is somebody's, and adds no row.
LEMMA DecidedSound ==
  ASSUME NEW d \in Database, Sound(d.ledger), NEW ids,
         NEW status \in {"approved", "rejected"}
  PROVE  Sound(Decided(d, ids, status).ledger)
<1>1. \A i \in DOMAIN d.ledger :
        LET f == d.ledger[i]
            g == Decided(d, ids, status).ledger[i]
        IN  /\ Row(g) = Row(f) /\ g.source = f.source
            /\ g = f \/ g.by = "user"
  <2> SUFFICES ASSUME NEW i \in DOMAIN d.ledger
               PROVE  LET f == d.ledger[i]
                          g == Decided(d, ids, status).ledger[i]
                      IN  /\ Row(g) = Row(f) /\ g.source = f.source
                          /\ g = f \/ g.by = "user"
    OBVIOUS
  <2>1. \/ Decided(d, ids, status).ledger[i] = d.ledger[i]
        \/ Decided(d, ids, status).ledger[i]
             = [d.ledger[i] EXCEPT !.status = status, !.by = "user"]
    BY DEF Decided, Database
  <2>2. d.ledger[i] \in Fact  BY DatabaseFields
  <2> DEFINE f == d.ledger[i]
             g == Decided(d, ids, status).ledger[i]
  <2>3. g = f \/ g = [f EXCEPT !.status = status, !.by = "user"]
    BY <2>1
  <2> HIDE DEF f, g
  <2>4. f \in Fact  BY <2>2 DEF f
  <2>5. Row(g) = Row(f) /\ g.source = f.source /\ (g = f \/ g.by = "user")
    <3>1. f \in [subject : Subjects, source : Sources, value : Values,
                 current : Values \cup {Blank}, status : Statuses,
                 by : {"nobody", "user", "setting"}]
      BY <2>4 DEF Fact
    <3> QED  BY <2>3, <3>1 DEF Row
  <2> QED  BY <2>5 DEF f, g
<1> QED  BY <1>1, DecidedType DEF Sound

--------------------------------------------------------------------------------
\* Values and their claims

\* What is applied has a claim of the value it wrote; every other field keeps
\* its value, and no claim is lost.
LEMMA AppliedClaims ==
  ASSUME NEW d \in Database
  PROVE  /\ \A s \in Written(d) : \E c \in Applied(d).claims :
               c.subject = s /\ c.value = Applied(d).held[s]
         /\ \A s \in Subjects \ Written(d) : Applied(d).held[s] = d.held[s]
         /\ d.claims \subseteq Applied(d).claims
<1>1. ASSUME NEW s \in Written(d)
      PROVE  \E c \in Applied(d).claims : c.subject = s /\ c.value = Applied(d).held[s]
  <2> DEFINE i == Last(Approved(d, s))
  <2>1. s \in Subjects /\ d.held[s] # Gone /\ Approved(d, s) # {}
    BY DEF Written
  <2>2. Approved(d, s) \in SUBSET (1 .. Len(d.ledger)) /\ Len(d.ledger) \in Nat
    BY DatabaseFields DEF Approved
  <2>3. i \in Approved(d, s)
    BY <2>1, <2>2, LastIsMember
  <2>4. i \in DOMAIN d.ledger /\ d.ledger[i].status = "approved" /\ d.ledger[i].subject = s
    BY <2>3 DEF Approved
  <2>5. Applied(d).held[s] = d.ledger[i].value
    BY <2>1 DEF Applied
  <2>6. Row(d.ledger[i]) \in Applied(d).claims
    <3> HIDE DEF i
    <3> QED  BY <2>1, <2>4 DEF Applied
  <2> QED  BY <2>4, <2>5, <2>6 DEF Row
<1>2. \A s \in Subjects \ Written(d) : Applied(d).held[s] = d.held[s]
  BY DEF Applied, Written
<1>3. d.claims \subseteq Applied(d).claims
  BY DEF Applied
<1> QED  BY <1>1, <1>2, <1>3

\* Recording and deciding touch the ledger alone.
LEMMA LedgerAlone ==
  ASSUME NEW d \in Database
  PROVE  /\ \A p \in Proposal : Recorded(d, p).held = d.held /\ Recorded(d, p).claims = d.claims
         /\ \A ids, status : /\ Decided(d, ids, status).held = d.held
                             /\ Decided(d, ids, status).claims = d.claims
BY DEF Recorded, Decided, Database

Inv ==
  /\ TypeOK
  /\ Sound(db.ledger) /\ (staged # Nothing => Sound(staged.ledger))
  /\ Traceable

\* Every pass, decision, edit and rebuild keeps both ledgers sound and every
\* learned value claimed.
LEMMA InvStep == Inv /\ [Next]_vars => Inv'
<1> SUFFICES ASSUME Inv, [Next]_vars PROVE Inv'
  OBVIOUS
<1>0. TypeOK'  BY TypeStep DEF Inv
<1> USE <1>0 DEF Inv, Traceable
<1>1. CASE Gather
  BY <1>1 DEF Gather
<1>2. CASE Record
  <2>1. db \in Database /\ offered \in Proposal  BY <1>2 DEF Record, TypeOK
  <2> QED  BY <1>2, <2>1, RecordedSound, LedgerAlone DEF Record
<1>3. CASE Forget
  BY <1>3 DEF Forget
<1>4. ASSUME NEW ids \in SUBSET DOMAIN db.ledger, Approve(ids) PROVE Inv'
  <2> DEFINE d == Decided(db, ids, "approved")
  <2>1. d \in Database /\ Sound(d.ledger)
    BY DecidedType, DecidedSound DEF TypeOK
  <2>2. d.held = db.held /\ d.claims = db.claims
    BY LedgerAlone DEF TypeOK
  <2>3. db' = Applied(d) /\ learned' = learned \cup Written(d) /\ staged' = staged
    BY <1>4 DEF Approve
  <2> HIDE DEF d
  <2>4. Sound(db'.ledger)  BY <2>1, <2>3, AppliedSound
  <2>5. ASSUME NEW s \in learned'
        PROVE  \E c \in db'.claims : c.subject = s /\ c.value = db'.held[s]
    <3>1. CASE s \in Written(d)
      BY <2>1, <2>3, <3>1, AppliedClaims
    <3>2. CASE s \notin Written(d)
      <4>1. s \in learned /\ s \in Subjects  BY <2>3, <3>2 DEF TypeOK
      <4> QED  BY <2>1, <2>2, <2>3, <3>2, <4>1, AppliedClaims
    <3> QED  BY <3>1, <3>2
  <2> QED  BY <2>3, <2>4, <2>5
<1>5. ASSUME NEW ids \in SUBSET DOMAIN db.ledger, Reject(ids) PROVE Inv'
  <2>1. db \in Database  BY DEF TypeOK
  <2> QED  BY <1>5, <2>1, DecidedSound, LedgerAlone DEF Reject
<1>6. ASSUME NEW s \in Subjects, NEW value \in Values \cup {Blank}, Edit(s, value)
      PROVE  Inv'
  <2>1. /\ db'.ledger = db.ledger /\ db'.claims = db.claims
        /\ \A t \in Subjects : t # s => db'.held[t] = db.held[t]
    BY <1>6 DEF Edit, TypeOK, Database
  <2> QED  BY <1>6, <2>1 DEF Edit, TypeOK
<1>7. ASSUME NEW held \in [Subjects -> Values \cup {Blank, Gone}], StartRebuild(held)
      PROVE  Inv'
  BY <1>7 DEF StartRebuild, Sound
<1>8. CASE Note
  <2>1. staged \in Database /\ staged # Nothing /\ db' = db /\ learned' = learned
    BY <1>8 DEF Note, TypeOK
  <2>2. PICK s \in Subjects, source \in Local :
          \E p \in Readings(staged, s, source) : staged' = Recorded(staged, p)
    BY <1>8 DEF Note
  <2>3. PICK p \in Readings(staged, s, source) : staged' = Recorded(staged, p)
    BY <2>2
  <2>4. p \in Proposal
    BY <2>1, <2>3, DatabaseFields DEF Readings, Proposal, Sources
  <2> QED  BY <2>1, <2>3, <2>4, RecordedSound
<1>9. CASE InstallRebuilt
  <2>1. staged \in Database /\ Sound(staged.ledger) /\ staged' = Nothing
    BY <1>9 DEF InstallRebuilt, TypeOK
  <2>2. CASE AutoApply
    BY <1>9, <2>1, <2>2, AppliedSound, AppliedClaims DEF InstallRebuilt
  <2>3. CASE ~AutoApply
    BY <1>9, <2>1, <2>3 DEF InstallRebuilt
  <2> QED  BY <2>2, <2>3
<1>10. CASE RebuildFails
  BY <1>10 DEF RebuildFails
<1>11. CASE UNCHANGED vars
  BY <1>11 DEF vars
<1> QED
  BY <1>1, <1>2, <1>3, <1>4, <1>5, <1>6, <1>7, <1>8, <1>9, <1>10, <1>11 DEF Next

--------------------------------------------------------------------------------
\* The theorems

\* The invariant is inductive.
LEMMA Invariant == Spec => []Inv
<1>1. Init => Inv
  <2> SUFFICES ASSUME Init PROVE Inv
    OBVIOUS
  <2>1. db \in Database /\ db.ledger = <<>> /\ Len(db.ledger) = 0
    BY EmptySeq DEF Init, Database
  <2> QED  BY <2>1 DEF Init, Inv, TypeOK, Sound, Traceable
<1> QED  BY <1>1, InvStep, PTL DEF Spec

\* Every variable has its type in every reachable state.
THEOREM TypeCorrect == Spec => []TypeOK
<1>1. Inv => TypeOK  BY DEF Inv
<1> QED  BY <1>1, Invariant, PTL

\* However often the passes run, are decided on and are overtaken by edits and
\* rebuilds: no ledger raises a thing twice, what a source of unsettled licence
\* says is approved by a person or not at all, and a value that was learned has
\* a claim that names a source for it.
THEOREM LedgerIsSound == Spec => []LedgerSound
<1>1. Inv => LedgerSound
  BY DEF Inv, LedgerSound, RaisedOnce, UnsettledWaits, Ledgers, Sound
<1> QED  BY <1>1, Invariant, PTL

\* What was rejected, superseded or written in a ledger stays so at every step,
\* whoever records, decides or edits.
THEOREM DecisionsAreKept == Spec => DecisionsStand
<1> DEFINE Kept(i) ==
      (/\ db.ledger[i].status \in {"rejected", "superseded", "applied"}
       /\ Row(db'.ledger[i]) = Row(db.ledger[i])
       /\ rebuilds' = rebuilds /\ staged' = staged)
      => db'.ledger[i].status = db.ledger[i].status
<1>1. Inv /\ [Next]_vars => [\A i \in DOMAIN db.ledger \cap DOMAIN db'.ledger : Kept(i)]_vars
  <2> SUFFICES ASSUME Inv, Next, NEW i \in DOMAIN db.ledger, i \in DOMAIN db'.ledger,
                      db.ledger[i].status \in {"rejected", "superseded", "applied"},
                      staged' = staged
               PROVE  db'.ledger[i].status = db.ledger[i].status
    OBVIOUS
  <2>0. db \in Database /\ db.ledger[i] \in Fact
    BY DatabaseFields DEF Inv, TypeOK
  <2>1. CASE Record
    <3>1. CASE Known(db.ledger, offered)
      BY <2>1, <3>1 DEF Record, Recorded
    <3>2. CASE ~Known(db.ledger, offered)
      <4> DEFINE m == Overtaken(db.ledger, offered)
      <4>1. db'.ledger = Append(m, Raised(offered))
        BY <2>0, <2>1, <3>2 DEF Record, Recorded, Database
      <4>2. \A j \in DOMAIN db.ledger : m[j] \in Fact
        BY <2>0, DatabaseFields, FactUpdates DEF Overtaken
      <4>3. m = [j \in DOMAIN db.ledger |-> m[j]]
        BY DEF Overtaken
      <4>4. m[i] = db.ledger[i]
        BY DEF Overtaken
      <4> HIDE DEF m
      <4>5. m \in Seq(Fact) /\ i \in 1 .. Len(m)
        BY <2>0, <4>2, <4>3, Relabelled, DatabaseFields, ZenonT(60)
      <4> QED  BY <4>1, <4>4, <4>5
    <3> QED  BY <3>1, <3>2
  <2>2. ASSUME NEW ids \in SUBSET DOMAIN db.ledger, NEW status \in {"approved", "rejected"}
        PROVE  Decided(db, ids, status).ledger[i] = db.ledger[i]
    BY <2>0 DEF Decided, Database
  <2>3. ASSUME NEW ids \in SUBSET DOMAIN db.ledger, Approve(ids)
        PROVE  db'.ledger[i].status = db.ledger[i].status
    <3> DEFINE d == Decided(db, ids, "approved")
    <3>1. d \in Database /\ i \in DOMAIN d.ledger /\ d.ledger[i] = db.ledger[i]
      BY <2>0, <2>2, DecidedType
    <3>2. db' = Applied(d)  BY <2>3 DEF Approve
    <3> HIDE DEF d
    <3> QED  BY <3>1, <3>2 DEF Applied
  <2>4. ASSUME NEW ids \in SUBSET DOMAIN db.ledger, Reject(ids)
        PROVE  db'.ledger[i].status = db.ledger[i].status
    BY <2>2, <2>4 DEF Reject
  <2>5. ASSUME NEW s \in Subjects, NEW value \in Values \cup {Blank}, Edit(s, value)
        PROVE  db'.ledger[i].status = db.ledger[i].status
    BY <2>0, <2>5 DEF Edit, Database
  <2>6. ~InstallRebuilt  BY DEF InstallRebuilt
  <2>7. CASE db' = db
    BY <2>7
  <2> QED
    BY <2>1, <2>3, <2>4, <2>5, <2>6, <2>7 DEF Next, Gather, Forget, StartRebuild, Note, RebuildFails
<1>2. [][\A i \in DOMAIN db.ledger \cap DOMAIN db'.ledger : Kept(i)]_vars => DecisionsStand
  BY DEF DecisionsStand
<1> HIDE DEF Kept
<1> QED  BY <1>1, <1>2, Invariant, PTL DEF Spec
================================================================================

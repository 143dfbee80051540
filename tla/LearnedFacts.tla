------------------------------- MODULE LearnedFacts -------------------------------
(***************************************************************************)
(* LearningService: what a source says about a field of the database is    *)
(* first a proposal in a ledger, and is written only once it has been      *)
(* approved, by a person or, for a blank field and a settled licence, by a *)
(* setting.  The ledger is a table of the database it is about.            *)
(*                                                                         *)
(* Pages and commands gather, decide and edit next to each other, and a    *)
(* rebuild assembles a new database, ledger included, beside the one in    *)
(* use and then takes its place.  A subject is one field of one BIN.       *)
(***************************************************************************)
EXTENDS Integers, Sequences

CONSTANTS
  Subjects,
  Values,
  Local,        \* sources read from the database itself, licence verified
  External,     \* sources the user has authorized
  Verified,     \* the external sources whose licence is settled
  AutoApply,    \* auto_apply_new_information
  Blank,        \* the field holds nothing
  Gone,         \* the BIN is not in the database
  Nothing,      \* no proposal, no staged database
  MaxFacts,     \* bound on the facts of a ledger
  MaxRebuilds   \* bound on rebuilds

Sources  == Local \cup External
Statuses == {"pending", "approved", "rejected", "superseded", "applied"}

\* One thing a source says, with what the database held when it was read.
Proposal == [subject : Subjects, source : Sources, value : Values,
             current : Values \cup {Blank}]

\* A row of the ledger; `by` is who decided it last, which decided_reason tells,
\* and every row that left the queue by a decision was decided by someone.
Fact == {f \in [subject : Subjects, source : Sources, value : Values,
                current : Values \cup {Blank}, status : Statuses,
                by : {"nobody", "user", "setting"}] :
           (f.by = "nobody") = (f.status \in {"pending", "superseded"})}

\* A database: the value of every field, the ledger, and the claims that say
\* which source asserted a value.
Database == [held : [Subjects -> Values \cup {Blank, Gone}], ledger : Seq(Fact),
             claims : SUBSET [subject : Subjects, source : Sources, value : Values]]

ASSUME SourceAssumption == Local \cap External = {} /\ Verified \subseteq External
ASSUME AutoAssumption == AutoApply \in BOOLEAN
ASSUME NoneAssumption ==
  /\ Blank \notin Values /\ Gone \notin Values /\ Blank # Gone
  /\ Nothing \notin Proposal /\ Nothing \notin Database
ASSUME BoundAssumption == MaxFacts \in Nat /\ MaxRebuilds \in Nat

VARIABLES
  db,        \* the database in use
  staged,    \* the candidate a rebuild is assembling
  offered,   \* a proposal that was gathered and is not recorded yet
  rebuilds,  \* rebuilds so far
  learned    \* history: subjects whose value was last written by a fact

vars == <<db, staged, offered, rebuilds, learned>>

TypeOK ==
  /\ db \in Database
  /\ staged \in Database \cup {Nothing}
  /\ offered \in Proposal \cup {Nothing}
  /\ rebuilds \in 0 .. MaxRebuilds
  /\ learned \in SUBSET Subjects
  /\ Len(db.ledger) <= MaxFacts
  /\ staged # Nothing => Len(staged.ledger) <= MaxFacts

Row(x) == [subject |-> x.subject, source |-> x.source, value |-> x.value]

\* What a gathering pass may say of subject s of database d: a value that
\* differs from the one held.
Readings(d, s, source) ==
  IF d.held[s] = Gone THEN {}
  ELSE {[subject |-> s, source |-> source, value |-> v, current |-> d.held[s]] :
          v \in Values \ {d.held[s]}}

--------------------------------------------------------------------------------
\* Recording

\* Authorization.may_auto_apply
MayAutoApply(p) == AutoApply /\ p.current = Blank /\ p.source \in Local \cup Verified

Raised(p) ==
  [subject |-> p.subject, source |-> p.source, value |-> p.value, current |-> p.current,
   status |-> IF MayAutoApply(p) THEN "approved" ELSE "pending",
   by     |-> IF MayAutoApply(p) THEN "setting" ELSE "nobody"]

\* The same row is in the ledger already, whatever was decided about it.
Known(l, p) == \E i \in DOMAIN l : Row(l[i]) = Row(p)

\* _supersede_earlier
Overtaken(l, p) ==
  [i \in DOMAIN l |->
     IF l[i].subject = p.subject /\ l[i].source = p.source /\ l[i].status = "pending"
       THEN [l[i] EXCEPT !.status = "superseded"]
       ELSE l[i]]

\* LearningService.record, for one proposal.
Recorded(d, p) ==
  IF Known(d.ledger, p)
    THEN d
    ELSE [d EXCEPT !.ledger = Append(Overtaken(d.ledger, p), Raised(p))]

--------------------------------------------------------------------------------
\* Applying

Approved(d, s) ==
  {i \in DOMAIN d.ledger : d.ledger[i].status = "approved" /\ d.ledger[i].subject = s}

Last(ids) == CHOOSE i \in ids : \A j \in ids : j <= i

\* Mutated form of Applied: no claim is left behind.
AppliedUnclaimed(d) ==
  [held   |-> [s \in Subjects |->
                 IF d.held[s] = Gone \/ Approved(d, s) = {} THEN d.held[s]
                 ELSE d.ledger[Last(Approved(d, s))].value],
   ledger |-> [i \in DOMAIN d.ledger |->
                 IF d.ledger[i].status = "approved" /\ d.held[d.ledger[i].subject] # Gone
                   THEN [d.ledger[i] EXCEPT !.status = "applied"] ELSE d.ledger[i]],
   claims |-> d.claims]

\* apply_approved: every approved fact whose BIN is there is written, in the
\* order of the ledger, and leaves a claim.
Applied(d) ==
  [held   |-> [s \in Subjects |->
                 IF d.held[s] = Gone \/ Approved(d, s) = {} THEN d.held[s]
                 ELSE d.ledger[Last(Approved(d, s))].value],
   ledger |-> [i \in DOMAIN d.ledger |->
                 IF d.ledger[i].status = "approved" /\ d.held[d.ledger[i].subject] # Gone
                   THEN [d.ledger[i] EXCEPT !.status = "applied"] ELSE d.ledger[i]],
   claims |-> d.claims \cup
                {Row(d.ledger[i]) : i \in {j \in DOMAIN d.ledger :
                   d.ledger[j].status = "approved" /\ d.held[d.ledger[j].subject] # Gone}}]

\* The subjects apply_approved writes.
Written(d) == {s \in Subjects : d.held[s] # Gone /\ Approved(d, s) # {}}

\* Mutated form of Decided: a decision is taken on any fact.
DecidedAgain(d, ids, status) ==
  [d EXCEPT !.ledger = [i \in DOMAIN d.ledger |->
     IF i \in ids
       THEN [d.ledger[i] EXCEPT !.status = status, !.by = "user"]
       ELSE d.ledger[i]]]

\* _decide for each of the ids: only what is pending or approved.
Decided(d, ids, status) ==
  [d EXCEPT !.ledger = [i \in DOMAIN d.ledger |->
     IF i \in ids /\ d.ledger[i].status \in {"pending", "approved"}
       THEN [d.ledger[i] EXCEPT !.status = status, !.by = "user"]
       ELSE d.ledger[i]]]

--------------------------------------------------------------------------------
\* Pages and commands

Gather ==
  /\ offered = Nothing
  /\ \E s \in Subjects, source \in Sources :
       \E p \in Readings(db, s, source) : offered' = p
  /\ UNCHANGED <<db, staged, rebuilds, learned>>

Record ==
  /\ offered # Nothing /\ Len(db.ledger) < MaxFacts
  /\ db' = Recorded(db, offered)
  /\ offered' = Nothing
  /\ UNCHANGED <<staged, rebuilds, learned>>

\* A reader leaves without recording.
Forget ==
  /\ offered # Nothing
  /\ offered' = Nothing
  /\ UNCHANGED <<db, staged, rebuilds, learned>>

\* Approving writes everything that is approved, in the same transaction.
Approve(ids) ==
  LET decided == Decided(db, ids, "approved") IN
  /\ db' = Applied(decided)
  /\ learned' = learned \cup Written(decided)
  /\ UNCHANGED <<staged, offered, rebuilds>>

Reject(ids) ==
  /\ db' = Decided(db, ids, "rejected")
  /\ UNCHANGED <<staged, offered, rebuilds, learned>>

\* An import or a correction by hand.
Edit(s, value) ==
  /\ db.held[s] # Gone
  /\ db' = [db EXCEPT !.held[s] = value]
  /\ learned' = learned \ {s}
  /\ UNCHANGED <<staged, offered, rebuilds>>

--------------------------------------------------------------------------------
\* A rebuild

\* The list decides what the candidate holds; its ledger is new.
StartRebuild(held) ==
  /\ staged = Nothing /\ rebuilds < MaxRebuilds
  /\ rebuilds' = rebuilds + 1
  /\ staged' = [held |-> held, ledger |-> <<>>, claims |-> {}]
  /\ UNCHANGED <<db, offered, learned>>

\* gather_local and record on the candidate.
Note ==
  /\ staged # Nothing /\ Len(staged.ledger) < MaxFacts
  /\ \E s \in Subjects, source \in Local :
       \E p \in Readings(staged, s, source) : staged' = Recorded(staged, p)
  /\ UNCHANGED <<db, offered, rebuilds, learned>>

\* apply_approved if the setting is on, then the swap.
InstallRebuilt ==
  /\ staged # Nothing
  /\ db' = IF AutoApply THEN Applied(staged) ELSE staged
  /\ learned' = IF AutoApply THEN Written(staged) ELSE {}
  /\ staged' = Nothing
  /\ UNCHANGED <<offered, rebuilds>>

RebuildFails ==
  /\ staged # Nothing
  /\ staged' = Nothing
  /\ UNCHANGED <<db, offered, rebuilds, learned>>

Init ==
  /\ db \in [held : [Subjects -> Values \cup {Blank, Gone}], ledger : {<<>>}, claims : {{}}]
  /\ staged = Nothing
  /\ offered = Nothing
  /\ rebuilds = 0
  /\ learned = {}

Next ==
  \/ Gather \/ Record \/ Forget
  \/ \E ids \in SUBSET DOMAIN db.ledger : Approve(ids) \/ Reject(ids)
  \/ \E s \in Subjects, value \in Values \cup {Blank} : Edit(s, value)
  \/ \E held \in [Subjects -> Values \cup {Blank, Gone}] : StartRebuild(held)
  \/ Note \/ InstallRebuilt \/ RebuildFails

Spec == Init /\ [][Next]_vars

--------------------------------------------------------------------------------
\* Properties

Ledgers == {db.ledger} \cup (IF staged = Nothing THEN {} ELSE {staged.ledger})

\* A ledger never raises the same thing twice, so a decision stands: no pass
\* brings back what was rejected, however often it finds it again.
RaisedOnce ==
  \A l \in Ledgers : \A i, j \in DOMAIN l : Row(l[i]) = Row(l[j]) => i = j

\* Nothing from a source whose licence is not settled is approved or written
\* unless a person approved that fact.
UnsettledWaits ==
  \A l \in Ledgers : \A i \in DOMAIN l :
    (l[i].status \in {"approved", "applied"} /\ l[i].source \notin Local \cup Verified)
      => l[i].by = "user"

\* A value that learning wrote has a claim that names a source for it.
Traceable ==
  \A s \in learned : \E c \in db.claims : c.subject = s /\ c.value = db.held[s]

\* However often the passes run, are decided on and are overtaken by edits and
\* rebuilds, every fact is raised once, settled by whom it must be and told of.
LedgerSound == RaisedOnce /\ UnsettledWaits /\ Traceable

\* Within one ledger nothing is taken back: what was rejected, superseded or
\* written stays so, whoever decides again afterwards.
DecisionsStand ==
  [][\A i \in DOMAIN db.ledger \cap DOMAIN db'.ledger :
       (/\ db.ledger[i].status \in {"rejected", "superseded", "applied"}
        /\ Row(db'.ledger[i]) = Row(db.ledger[i])
        /\ rebuilds' = rebuilds /\ staged' = staged)
       => db'.ledger[i].status = db.ledger[i].status]_vars
================================================================================

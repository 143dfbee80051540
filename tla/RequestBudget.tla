------------------------------ MODULE RequestBudget ------------------------------
(***************************************************************************)
(* RequestBudget: the requests that one machine may make to binlist.net in *)
(* an hour.  Each process (the application, a command) reads the times of  *)
(* earlier requests from one file when it starts, keeps them in memory,    *)
(* and rewrites the file at every claim, before the request is sent, and   *)
(* at every refusal by the service.                                        *)
(*                                                                         *)
(* Time passes in ticks, none of them between a claim and its request: a   *)
(* write takes no time, an answer may.                                     *)
(***************************************************************************)
EXTENDS Integers, Sequences

CONSTANTS
  Procs,      \* processes that may use the allowance
  Limit,      \* REQUESTS_PER_HOUR
  Window,     \* WINDOW_SECONDS, in ticks
  Worlds,     \* the circumstances to look at, see World
  LastTick,   \* bound on the clock
  MaxClaims   \* bound on claims

ASSUME AllowanceAssumption == Limit \in Nat \ {0} /\ Window \in Nat \ {0}

\* Whether two processes may run at once, what Retry-After may name when the
\* service refuses (it never does when there is no span), whether a process may
\* stop inside write_text, and what the disk may refuse.
World == [overlap : BOOLEAN, spans : SUBSET Nat, tears : BOOLEAN,
          fails : SUBSET {"read", "write"}]
ASSUME WorldAssumption == Worlds \subseteq World

ASSUME BoundAssumption == LastTick \in Nat /\ MaxClaims \in Nat

Ticks == 0 .. LastTick
Times == {s \in Seq(Int) : Len(s) <= Limit}   \* never more than the allowance

VARIABLES
  world,    \* one of Worlds; it never changes
  clock,
  pc,       \* per process: "down", "idle", or the step of lookup() it is at
  times,    \* per process: RequestBudget._times
  file,     \* the times in binlist-budget.json; none when it cannot be parsed
  told,     \* per process: when a refused claim was told to try again
  warned,   \* per process: the end of the span of the last 429 it received
  claims,   \* history: when the allowance was claimed, in order
  sent,     \* history: when the service was asked since it last refused
  asked,    \* history, per process: the same of this run alone
  barred,   \* history: the end of the last refusal's span that was recorded,
            \*   as far as the process could tell
  latest    \* history: the latest end of a refusal's span

own  == <<told, warned>>
past == <<claims, sent, asked, barred, latest>>
vars == <<world, clock, pc, times, file, told, warned, claims, sent, asked, barred, latest>>

\* A claim is being saved, by a file that is still whole or is empty already;
\* it is saved, or could not be; the service has the request; a refusal is
\* being saved in the same two steps.
Claiming   == {"claimed", "emptied"}
Penalising == {"refused", "cleared"}
Places     == {"down", "idle", "saved", "asked"} \cup Claiming \cup Penalising

\* A claim whose request has not been sent.
Unsent == Claiming \cup {"saved"}

TypeOK ==
  /\ world \in Worlds
  /\ clock \in Ticks
  /\ pc \in [Procs -> Places]
  /\ times \in [Procs -> Times]
  /\ file \in Times
  /\ told \in [Procs -> Nat]
  /\ warned \in [Procs -> Nat]
  /\ claims \in Seq(Ticks)
  /\ sent \in Seq(Ticks)
  /\ asked \in [Procs -> Seq(Ticks)]
  /\ barred \in Nat
  /\ latest \in Nat

\* Mutated form of Kept: the window is a tick short.
KeptShorter(s) ==
  LET gone == CHOOSE n \in 0 .. Len(s) :
                /\ \A i \in 1 .. n : s[i] <= clock - Window + 1
                /\ n < Len(s) => s[n + 1] > clock - Window + 1
  IN SubSeq(s, gone + 1, Len(s))

\* _prune: the entries of the last window.  They are in order, so what is
\* dropped is at the front.
Kept(s) ==
  LET gone == CHOOSE n \in 0 .. Len(s) :
                /\ \A i \in 1 .. n : s[i] <= clock - Window
                /\ n < Len(s) => s[n + 1] > clock - Window
  IN SubSeq(s, gone + 1, Len(s))

At(p, place)   == pc[p] = place
GoTo(p, place) == pc' = [pc EXCEPT ![p] = place]

--------------------------------------------------------------------------------
Tick ==
  /\ clock + 1 \in Ticks
  /\ \A p \in Procs : pc[p] \in {"down", "idle", "asked"}
  /\ clock' = clock + 1
  /\ UNCHANGED <<world, pc, times, file, own, past>>

\* RequestBudget.__init__ and _load, which reads nothing from a file that
\* raises.
Start(p) ==
  /\ At(p, "down")
  /\ world.overlap \/ \A q \in Procs : At(q, "down")
  /\ times' \in {[times EXCEPT ![p] = s] :
                   s \in {file} \cup (IF "read" \in world.fails THEN {<<>>} ELSE {})}
  /\ GoTo(p, "idle")
  /\ UNCHANGED <<world, clock, file, own, past>>

\* claim(): append and sort.  The clock does not run backwards, so the new
\* time is the last.
Claim(p) ==
  /\ At(p, "idle") /\ Len(claims) < MaxClaims
  /\ Len(Kept(times[p])) < Limit
  /\ times' = [times EXCEPT ![p] = Append(Kept(times[p]), clock)]
  /\ claims' = Append(claims, clock)
  /\ GoTo(p, "claimed")
  /\ UNCHANGED <<world, clock, file, own, sent, asked, barred, latest>>

\* claim() raises RateLimited, with seconds_until_free.
Refuse(p) ==
  /\ At(p, "idle")
  /\ Len(Kept(times[p])) >= Limit
  /\ times' = [times EXCEPT ![p] = Kept(times[p])]
  /\ told' = [told EXCEPT ![p] = Kept(times[p])[1] + Window]
  /\ UNCHANGED <<world, clock, pc, file, warned, past>>

\* _save: write_text empties the file ...
Truncate(p) ==
  /\ world.tears
  /\ \/ At(p, "claimed") /\ GoTo(p, "emptied")
     \/ At(p, "refused") /\ GoTo(p, "cleared")
  /\ file' = <<>>
  /\ UNCHANGED <<world, clock, times, own, past>>

\* ... and fills it again.
Save(p) ==
  /\ \/ pc[p] \in Claiming /\ GoTo(p, "saved") /\ UNCHANGED barred
     \/ pc[p] \in Penalising /\ GoTo(p, "idle") /\ barred' = warned[p]
  /\ file' = times[p]
  /\ UNCHANGED <<world, clock, times, own, claims, sent, asked, latest>>

\* An OSError is swallowed: the file keeps what it has, or has nothing if it
\* was emptied before, and the lookup goes on.
SaveFails(p) ==
  /\ "write" \in world.fails
  /\ \/ pc[p] \in Claiming /\ GoTo(p, "saved")
     \/ pc[p] \in Penalising /\ GoTo(p, "idle")
  /\ UNCHANGED <<world, clock, times, file, own, past>>

\* client.get: the request leaves.
Send(p) ==
  /\ At(p, "saved")
  /\ sent' = Append(sent, clock)
  /\ asked' = [asked EXCEPT ![p] = Append(@, clock)]
  /\ GoTo(p, "asked")
  /\ UNCHANGED <<world, clock, times, file, own, claims, barred, latest>>

\* TransportError before it does: the claim stays claimed.
SendFails(p) ==
  /\ At(p, "saved")
  /\ GoTo(p, "idle")
  /\ UNCHANGED <<world, clock, times, file, own, past>>

\* An answer other than 429, or none: the request has been made either way.
Answer(p) ==
  /\ At(p, "asked")
  /\ GoTo(p, "idle")
  /\ UNCHANGED <<world, clock, times, file, own, past>>

\* Mutated form of Penalise: only the running process knows.
PenaliseUnsaved(p, span) ==
  /\ At(p, "asked")
  /\ times' = [times EXCEPT ![p] = [i \in 1 .. Limit |-> clock - Window + span + 1]]
  /\ warned' = [warned EXCEPT ![p] = clock + span]
  /\ sent' = <<>>
  /\ asked' = [asked EXCEPT ![p] = <<>>]
  /\ barred' = clock + span
  /\ latest' = IF clock + span > latest THEN clock + span ELSE latest
  /\ GoTo(p, "idle")
  /\ UNCHANGED <<world, clock, file, told, claims>>

\* 429: the allowance is emptied for the span the service names; penalise()
\* then saves, and lookup() announces the span.
Penalise(p, span) ==
  /\ At(p, "asked")
  /\ times' = [times EXCEPT ![p] = [i \in 1 .. Limit |-> clock - Window + span + 1]]
  /\ warned' = [warned EXCEPT ![p] = clock + span]
  /\ sent' = <<>>
  /\ asked' = [asked EXCEPT ![p] = <<>>]
  /\ latest' = IF clock + span > latest THEN clock + span ELSE latest
  /\ GoTo(p, "refused")
  /\ UNCHANGED <<world, clock, file, told, claims, barred>>

\* The process ends, before or inside a write or around the request.
Stop(p) ==
  /\ ~At(p, "down")
  /\ GoTo(p, "down")
  /\ times' = [times EXCEPT ![p] = <<>>]
  /\ told' = [told EXCEPT ![p] = 0]
  /\ warned' = [warned EXCEPT ![p] = 0]
  /\ asked' = [asked EXCEPT ![p] = <<>>]
  /\ UNCHANGED <<world, clock, file, claims, sent, barred, latest>>

Init ==
  /\ world \in Worlds
  /\ clock = 0
  /\ pc = [p \in Procs |-> "down"]
  /\ times = [p \in Procs |-> <<>>]
  /\ file = <<>>
  /\ told = [p \in Procs |-> 0]
  /\ warned = [p \in Procs |-> 0]
  /\ claims = <<>>
  /\ sent = <<>>
  /\ asked = [p \in Procs |-> <<>>]
  /\ barred = 0
  /\ latest = 0

Next ==
  \/ Tick
  \/ \E p \in Procs :
       \/ Start(p) \/ Claim(p) \/ Refuse(p)
       \/ Truncate(p) \/ Save(p) \/ SaveFails(p)
       \/ Send(p) \/ SendFails(p) \/ Answer(p)
       \/ \E span \in world.spans : Penalise(p, span)
       \/ Stop(p)

Spec == Init /\ [][Next]_vars

--------------------------------------------------------------------------------
\* Properties

\* Any Limit + 1 of these times take a whole window.
Spaced(s) == \A i \in 1 .. Len(s) - Limit : s[i + Limit] - s[i] >= Window

\* SECOND_OPINION.md: "The sixth request in an hour is refused locally and
\* never sent".  In one run of a process this holds whatever else runs and
\* whatever the disk does, counted from the last refusal by the service, whose
\* word replaces the record.  Across processes it holds as long as one runs at
\* a time and what they write can be read, wherever any of them is killed.
SixthRefused ==
  /\ \A p \in Procs : Spaced(asked[p])
  /\ (~world.overlap /\ ~world.tears /\ world.fails = {}) => Spaced(sent)

\* Whoever else runs, a claim is refused only when the allowance has been
\* claimed in full within the window (a claim counts whether its request was
\* sent or not) or the service itself refused.
RefusedOnlyWhenUsed ==
  \A p \in Procs :
    (At(p, "idle") /\ Len(Kept(times[p])) >= Limit) =>
      \/ Len(claims) >= Limit /\ claims[Len(claims) - Limit + 1] > clock - Window
      \/ clock <= latest

\* Nobody has claimed anything after this tick.
NoClaimAfter(t) == claims # <<>> => claims[Len(claims)] <= t

\* A process that waits as long as it was told finds the allowance free; after
\* a 429 it does when the span is over, which is a tick after it was told.
WaitIsEnough ==
  \A p \in Procs : At(p, "idle") =>
    /\ (told[p] > 0 /\ clock >= told[p] /\ NoClaimAfter(told[p] - 1))
         => Len(Kept(times[p])) < Limit
    /\ (warned[p] > 0 /\ clock > warned[p] /\ NoClaimAfter(warned[p]))
         => Len(Kept(times[p])) < Limit

\* The allowance is kept, nothing is refused before it was claimed, and the wait
\* that was announced is enough.
AllowanceKept == SixthRefused /\ RefusedOnlyWhenUsed /\ WaitIsEnough

\* After the service has refused, the process it refused asks nothing of it until
\* the span it named is over, whatever else runs and whatever the disk does; nor
\* does any later process, a restart in between included, if no two run at once,
\* the refusal was not lost on its way to the file, and the file can be read.
PenaltyHonoured ==
  [][\A p \in Procs : (pc'[p] = "asked" /\ pc[p] # "asked") =>
       /\ clock >= warned[p]
       /\ (~world.overlap /\ "read" \notin world.fails) => clock >= barred]_vars
================================================================================

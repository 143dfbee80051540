------------------------------ MODULE HttpDownload ------------------------------
(***************************************************************************)
(* HttpProvider.download against a distribution server: one package file   *)
(* is fetched into "<destination>.part", resumed with a Range request      *)
(* after every interruption, moved to its destination when the response    *)
(* ends, and compared with the manifest's checksum by the caller.          *)
(*                                                                         *)
(* The publisher may replace the package under the same name while a       *)
(* client holds half of it; connections drop, the user cancels, the disk   *)
(* fills up and the process stops.  A file is a sequence of chunks, each   *)
(* named by the edition it was read from and its place in that edition.    *)
(***************************************************************************)
EXTENDS Integers, Sequences

CONSTANTS
  LastEdition,   \* the number of times the package is published
  Size,          \* the number of chunks of each edition
  RangeSupport,  \* what the server may do with a Range header: TRUE, honour it
  WithChecksum,  \* whether manifests carry a checksum
  MaxStops       \* bound on process stops

Editions == 1 .. LastEdition

ASSUME EditionAssumption ==
  /\ LastEdition \in Nat \ {0}
  /\ Size \in [Editions -> Nat \ {0}]

ASSUME ServerAssumption == RangeSupport \subseteq BOOLEAN /\ WithChecksum \in BOOLEAN

ASSUME MaxStopsAssumption == MaxStops \in Nat

Chunk   == [edition : Editions, at : Nat \ {0}]
Content == Seq(Chunk)

VARIABLES
  edition,   \* server: the edition it serves now
  place,        \* the client's place in download() and its caller
  manifest,  \* the edition the client's manifest describes
  resume,    \* resume_from
  source,    \* the edition the open response reads
  next,      \* the chunk of it the response delivers next
  part,      \* content of the .part file; no file and an empty one are alike
  dest,      \* content of the destination; <<>> when there is none
  accepted,  \* the caller has taken the destination over
  stops      \* process stops so far

fetchVars == <<edition, place, manifest, resume, source, next, part, dest, accepted, stops>>

Places == {"idle", "requested", "receiving", "checksum", "done"}

FetchTypeOK ==
  /\ edition \in Editions
  /\ place \in Places
  /\ manifest \in Editions
  /\ resume \in Nat
  /\ source \in Editions
  /\ next \in 1 .. Size[source] + 1
  /\ part \in Content
  /\ dest \in Content
  /\ accepted \in BOOLEAN
  /\ stops \in 0 .. MaxStops

\* The file the publisher put up as edition e.
Published(e) == [i \in 1 .. Size[e] |-> [edition |-> e, at |-> i]]

--------------------------------------------------------------------------------
\* The server

Publish ==
  /\ edition + 1 \in Editions
  /\ edition' = edition + 1
  /\ UNCHANGED <<place, manifest, resume, source, next, part, dest, accepted, stops>>

\* A response with a body, beginning after the chunk `from`.
Streaming(from) ==
  /\ place = "requested"
  /\ source' = edition
  /\ next' = from + 1
  /\ place' = "receiving"
  /\ UNCHANGED <<edition, manifest, dest, accepted, stops>>

\* Mutated form of AnswerRange: the file is always opened with "wb".
AnswerRangeOver ==
  /\ TRUE \in RangeSupport
  /\ resume > 0 /\ resume < Size[edition]
  /\ Streaming(resume)
  /\ part' = <<>>
  /\ UNCHANGED resume

\* 206: the file is opened for appending.
AnswerRange ==
  /\ TRUE \in RangeSupport
  /\ resume > 0 /\ resume < Size[edition]
  /\ Streaming(resume)
  /\ UNCHANGED <<resume, part>>

\* 200 to a first request, which has no Range header.
AnswerFirst ==
  /\ resume = 0
  /\ Streaming(0)
  /\ part' = <<>>
  /\ UNCHANGED resume

\* 200 to a Range request: the server ignored the header.  The .part file is
\* removed and written again from its start.
AnswerAnew ==
  /\ FALSE \in RangeSupport
  /\ resume > 0
  /\ Streaming(0)
  /\ resume' = 0
  /\ part' = <<>>

\* raise_for_status: 416 when the .part file is as long as the package or
\* longer, or any other error; the .part file stays.
AnswerError ==
  /\ place = "requested"
  /\ place' = "idle"
  /\ UNCHANGED <<edition, manifest, resume, source, next, part, dest, accepted, stops>>

--------------------------------------------------------------------------------
\* The client

\* A check fetches the manifest of the day; the caller then installs it.
Check ==
  /\ place = "idle"
  /\ manifest' = edition
  /\ UNCHANGED <<edition, place, resume, source, next, part, dest, accepted, stops>>

Request ==
  /\ place = "idle"
  /\ resume' = Len(part)
  /\ place' = "requested"
  /\ UNCHANGED <<edition, manifest, source, next, part, dest, accepted, stops>>

Receive ==
  /\ place = "receiving"
  /\ next <= Size[source]
  /\ part' = Append(part, [edition |-> source, at |-> next])
  /\ next' = next + 1
  /\ UNCHANGED <<edition, place, manifest, resume, source, dest, accepted, stops>>

\* A lost connection, the cancel button or a full disk: download() raises
\* and leaves the .part file for the next attempt.
Interrupted ==
  /\ place \in {"requested", "receiving"}
  /\ place' = "idle"
  /\ UNCHANGED <<edition, manifest, resume, source, next, part, dest, accepted, stops>>

\* Mutated form of Finish: a response that ends early counts as complete.
FinishEarly ==
  /\ place = "receiving"
  /\ part # <<>>
  /\ dest' = part
  /\ part' = <<>>
  /\ place' = "checksum"
  /\ UNCHANGED <<edition, manifest, resume, source, next, accepted, stops>>

\* The response has ended; partial.replace(destination).
Finish ==
  /\ place = "receiving"
  /\ next > Size[source]
  /\ dest' = part
  /\ part' = <<>>
  /\ place' = "checksum"
  /\ UNCHANGED <<edition, manifest, resume, source, next, accepted, stops>>

\* ... which may be refused while another program holds the file.
FinishFails ==
  /\ place = "receiving"
  /\ next > Size[source]
  /\ place' = "idle"
  /\ UNCHANGED <<edition, manifest, resume, source, next, part, dest, accepted, stops>>

\* _verify_checksum by the caller.
Genuine == WithChecksum => dest = Published(manifest)

Accept ==
  /\ place = "checksum"
  /\ Genuine
  /\ accepted' = TRUE
  /\ place' = "done"
  /\ UNCHANGED <<edition, manifest, resume, source, next, part, dest, stops>>

Reject ==
  /\ place = "checksum"
  /\ ~Genuine
  /\ dest' = <<>>
  /\ place' = "idle"
  /\ UNCHANGED <<edition, manifest, resume, source, next, part, accepted, stops>>

\* The process stops: what this connection wrote may be on disk or not, up
\* to the end.  A destination that was never taken over is overwritten by
\* the next download.
StopFetch ==
  /\ stops < MaxStops
  /\ place # "done"
  /\ stops' = stops + 1
  /\ place' = "idle"
  /\ dest' = <<>>
  /\ IF place = "receiving"
       THEN \E n \in resume .. Len(part) : part' = SubSeq(part, 1, n)
       ELSE UNCHANGED part
  /\ UNCHANGED <<edition, manifest, resume, source, next, accepted>>

FetchInit ==
  /\ edition \in Editions
  /\ place = "idle"
  /\ manifest = edition
  /\ resume = 0
  /\ source = edition
  /\ next = 1
  /\ part = <<>>
  /\ dest = <<>>
  /\ accepted = FALSE
  /\ stops = 0

Server == Publish \/ AnswerRange \/ AnswerFirst \/ AnswerAnew \/ AnswerError
Client ==
  \/ Check \/ Request \/ Receive \/ Interrupted
  \/ Finish \/ FinishFails \/ Accept \/ Reject \/ StopFetch
FetchNext == Server \/ Client

FetchSpec == FetchInit /\ [][FetchNext]_fetchVars

\* The user tries again until the package is in, checking first every so
\* often; requests, chunks and renames may fail any number of times but each
\* gets through every so often.  A first request and a Range request the
\* server can honour are each answered every so often; nothing is assumed of
\* a server that ignores the header: it may never do so, or always.
FairFetchSpec ==
  /\ FetchSpec
  /\ SF_fetchVars(Check) /\ WF_fetchVars(Request)
  /\ SF_fetchVars(AnswerRange) /\ SF_fetchVars(AnswerFirst) /\ WF_fetchVars(AnswerError)
  /\ SF_fetchVars(Receive) /\ SF_fetchVars(Finish)
  /\ WF_fetchVars(Accept) /\ WF_fetchVars(Reject)

--------------------------------------------------------------------------------
\* Properties

\* However often a download is interrupted, resumed, restarted or cut off by
\* a crash, chunk i of the file is chunk i of some edition: no hole, nothing
\* twice.
InPlace(file) == \A i \in 1 .. Len(file) : file[i].at = i
ChunksInPlace == InPlace(part) /\ InPlace(dest)

\* What arrives at the destination is one published edition, whole, unless
\* the package was published again while its .part file was waiting.
ArrivesWhole ==
  dest # <<>> =>
    \/ dest = Published(dest[Len(dest)].edition)
    \/ dest[1].edition < edition

\* A .part file that no Range request can extend: it already has every chunk
\* the server could send.
Stuck == place \in {"idle", "requested"} /\ Len(part) >= Size[edition]

\* Once no Range request is answered from the start any more, the download is
\* completed, or the .part file reaches the one state resuming cannot leave,
\* even if every connection drops after a single chunk, is refused any number
\* of times, and the package is published again.
ResumeMakesProgress ==
  <>[][~AnswerAnew]_fetchVars => <>(accepted \/ Stuck)
================================================================================

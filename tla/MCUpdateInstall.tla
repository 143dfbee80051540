----------------------------- MODULE MCUpdateInstall ----------------------------
(***************************************************************************)
(* Small instances of UpdateInstall for TLC.                               *)
(***************************************************************************)
EXTENDS UpdateInstall

CONSTANTS r1, r2

MCReleases == {r1, r2}
MCSchemas  == 1 .. 3

\* r1 is what an installation of this build starts with.
Current == [release |-> r1, schema |-> 2, declared |-> 2, sound |-> TRUE, intact |-> TRUE]

FreshOrInstalled == {NoFile, Current}

Package(v, s, d, digest, compressed, sound) ==
  [version |-> v, schema |-> s, declared |-> d, digest |-> digest,
   compressed |-> compressed, sound |-> sound]

\* A current package, an older one to migrate, one published without a
\* checksum, one that is too new, one that declares no schema, one the
\* publisher broke, and the release already in use offered again.
MCOffers ==
  {Package(r2, 2, 2, TRUE, TRUE, TRUE),
   Package(r2, 1, 1, TRUE, FALSE, TRUE),
   Package(r2, 1, 1, FALSE, TRUE, TRUE),
   Package(r2, 3, 3, TRUE, FALSE, TRUE),
   Package(r2, 2, NoSchema, TRUE, FALSE, TRUE),
   Package(r2, 2, 2, TRUE, FALSE, FALSE),
   Package(r1, 2, 2, TRUE, FALSE, TRUE)}
=================================================================================

----------------------------- MODULE MCHttpDownload -----------------------------
(***************************************************************************)
(* Small instances of HttpDownload for TLC: a package of three chunks that *)
(* is published again, first longer, then shorter.                         *)
(***************************************************************************)
EXTENDS HttpDownload

MCSize   == <<3, 4, 2>>
=================================================================================

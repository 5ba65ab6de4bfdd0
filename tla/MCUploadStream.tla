--------------------------- MODULE MCUploadStream ---------------------------
(***************************************************************************)
(* The constants of the runs of UploadStream.                              *)
(***************************************************************************)
EXTENDS UploadStream

CONSTANTS a, b \* chunks

\* An empty file, a file, and one that begins with it.
Files == {<<>>, <<a>>, <<a, b>>}

\* A file of two chunks alone: the shortest that can get stuck.
OneFile == {<<a, b>>}
=============================================================================

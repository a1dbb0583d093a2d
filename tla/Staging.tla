------------------------------ MODULE Staging ------------------------------
(***************************************************************************)
(* What a download leaves on disk.                                         *)
(*                                                                         *)
(* A download to `path` (src/mxhttp/download.py) keeps four kinds of file: *)
(* the finished `target`, the staging file `{path}.part`, the sidecar      *)
(* `{path}.part.json` that says what the staging bytes were read from, and *)
(* the segments `{path}.part.{i}` of a multi-part download.  All of them   *)
(* survive a crash; everything else the code knows does not.               *)
(*                                                                         *)
(* A byte is <<url, version, offset>>, so a file says exactly which        *)
(* revision of which resource each of its positions came from; two         *)
(* revisions differ in every byte, which is the worst case for splicing.   *)
(***************************************************************************)
EXTENDS RangeServer, Sequences

CONSTANTS
  Segs,     \* indices of the segment files (empty: single-stream only)
  NoFile,   \* the file does not exist
  Torn,     \* a file that was truncated but not yet rewritten
  MayHideSize   \* a 206 may leave the size of the resource out: "bytes 0-0/*"

NoVersion == 0
Byte == Urls \X Versions \X (Nat \ {0})
File == Seq(Byte)

(* The first k bytes of revision n of resource u, and all of them.         *)
Held(u, n, k) == [i \in 1..k |-> <<u, n, i>>]
Whole(u, n) == Held(u, n, Size[u][n])

(* DownloadState is a record with count = 0; MultiPartState adds the total *)
(* size and the number of ranges (compute_ranges is a function of both).   *)
Identity == [url : Urls, tag : {NoTag} \cup Versions, total : Nat, count : Nat]
Sidecar == {NoFile, Torn} \cup Identity
DownloadState(u, t) == [url |-> u, tag |-> t, total |-> 0, count |-> 0]

(* No file content is mistaken for the two model values.                  *)
ASSUME StagingAssumption ==
  /\ NoFile \notin File \cup Identity
  /\ Torn \notin Identity
  /\ MayHideSize \in BOOLEAN

VARIABLES
  target,   \* the destination file
  part,     \* {path}.part
  sidecar,  \* {path}.part.json
  segs      \* segs[i]: {path}.part.{i}

disk == <<target, part, sidecar, segs>>

StagingTypeOK ==
  /\ live \in [Urls -> Versions]
  /\ target \in File \cup {NoFile}
  /\ part \in File \cup {NoFile}
  /\ sidecar \in Sidecar
  /\ segs \in [Segs -> File \cup {NoFile}]

StagingInit ==
  /\ live = [u \in Urls |-> 1]
  /\ target = NoFile
  /\ part = NoFile
  /\ sidecar = NoFile
  /\ segs = [i \in Segs |-> NoFile]

----------------------------------------------------------------------------
(* The totals extract_total_size may find in an answer to "bytes=0-0": the *)
(* size, or one byte when a 206 says "bytes 0-0/*" and its Content-Length  *)
(* is taken for the size.                                                  *)
ProbedTotals(u) ==
  {Size[u][live[u]]} \cup (IF MayHideSize /\ Size[u][live[u]] > 0 THEN {1} ELSE {})

(* cleanup_staging_files unlinks the files matching {name}.part* one at a  *)
(* time, in the order the directory lists them; the lock file is skipped.  *)
NoStagingLeft == part = NoFile /\ sidecar = NoFile /\ \A i \in Segs : segs[i] = NoFile

UnlinkOneStagingFile ==
  \/ part # NoFile /\ part' = NoFile /\ UNCHANGED <<target, sidecar, segs>>
  \/ sidecar # NoFile /\ sidecar' = NoFile /\ UNCHANGED <<target, part, segs>>
  \/ \E i \in Segs : /\ segs[i] # NoFile
                     /\ segs' = [segs EXCEPT ![i] = NoFile]
                     /\ UNCHANGED <<target, part, sidecar>>
============================================================================

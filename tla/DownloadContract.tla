-------------------------- MODULE DownloadContract --------------------------
(***************************************************************************)
(* What a caller of Downloader.__call__ is promised, whatever happens to   *)
(* the process or the server: the destination changes in one atomic step,  *)
(* to a complete revision of the resource asked for (the expected one if a *)
(* checksum was given), never over an existing file unless overwrite=True, *)
(* and a call that returns normally has settled the destination.           *)
(***************************************************************************)
EXTENDS Naturals, Sequences

CONSTANTS Urls, Versions, NoVersion, NoFile, Size, Whole(_, _)

VARIABLES live, target, phase, url, overwrite, expect, outcome

vars == <<live, target, phase, url, overwrite, expect, outcome>>
call == <<url, overwrite, expect>>

Init ==
  /\ live = [u \in Urls |-> 1]
  /\ target = NoFile
  /\ phase = "idle"
  /\ url \in Urls /\ overwrite = FALSE /\ expect = NoVersion
  /\ outcome = "none"

Begin ==
  /\ phase = "idle"
  /\ phase' = "working"
  /\ url' \in Urls /\ overwrite' \in BOOLEAN /\ expect' \in Versions \cup {NoVersion}
  /\ outcome' = "none"
  /\ UNCHANGED <<live, target>>

(* The new content becomes visible, all of it at once.                     *)
Publish ==
  /\ phase = "working"
  /\ overwrite \/ target = NoFile
  /\ \E n \in 1..live[url] : target' = Whole(url, n)
  /\ expect # NoVersion => target' = Whole(url, expect)
  /\ phase' = "settled"
  /\ UNCHANGED <<live, call, outcome>>

(* An existing destination is accepted as it stands if it is the content   *)
(* expected or, when nothing is expected, has the size of the resource.    *)
Accept ==
  /\ phase = "working"
  /\ ~overwrite /\ target # NoFile
  /\ IF expect = NoVersion THEN Len(target) = Size[url][live[url]]
     ELSE target = Whole(url, expect)
  /\ phase' = "settled"
  /\ UNCHANGED <<live, target, call, outcome>>

Succeed ==
  /\ phase = "settled"
  /\ phase' = "idle" /\ outcome' = "done"
  /\ UNCHANGED <<live, target, call>>

(* An exception, an interrupt or a crash: nothing visible but the outcome. *)
Abort ==
  /\ phase # "idle"
  /\ phase' = "idle" /\ outcome' = "raised"
  /\ UNCHANGED <<live, target, call>>

Change ==
  /\ \E u \in Urls : \E n \in Versions :
       n > live[u] /\ live' = [live EXCEPT ![u] = n]
  /\ UNCHANGED <<target, phase, call, outcome>>

Next == Begin \/ Publish \/ Accept \/ Succeed \/ Abort \/ Change

Spec == Init /\ [][Next]_vars
=============================================================================

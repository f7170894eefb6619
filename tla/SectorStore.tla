---------------------------- MODULE SectorStore ----------------------------
(***************************************************************************)
(* What the buffer cache and the disk driver promise to the file system: a *)
(* sector is used by one process at a time, and only that process changes  *)
(* its contents.  A request the drive fails makes its sector suspect: its  *)
(* contents may be lost until a write of it succeeds.                      *)
(***************************************************************************)
EXTENDS Naturals

CONSTANTS Process, Sector, Data, NoOne

VARIABLES content, user, suspect

vars == <<content, user, suspect>>

Init ==
  /\ content \in [Sector -> Data]
  /\ user = [s \in Sector |-> NoOne]
  /\ suspect = {}

Take(p, s) ==
  /\ user[s] = NoOne
  /\ user' = [user EXCEPT ![s] = p]
  /\ UNCHANGED <<content, suspect>>

Change(p, s) ==
  /\ user[s] = p
  /\ \E v \in Data : content' = [content EXCEPT ![s] = v]
  /\ UNCHANGED <<user, suspect>>

Give(p, s) ==
  /\ user[s] = p
  /\ user' = [user EXCEPT ![s] = NoOne]
  /\ UNCHANGED <<content, suspect>>

\* The drive failed, or the copy that was kept of a suspect sector is dropped
\* by whoever uses sector t next.
Fail(s) ==
  /\ suspect' = suspect \cup {s}
  /\ \E v \in Data : content' = [content EXCEPT ![s] = v]
  /\ UNCHANGED user

Drop(p, s, t) ==
  /\ s \in suspect /\ user[s] = NoOne /\ user[t] = NoOne
  /\ \E v \in Data : content' = [content EXCEPT ![s] = v]
  /\ user' = [user EXCEPT ![t] = p]
  /\ UNCHANGED suspect

\* A write has succeeded, for a process that uses the sector.
Recover(s) ==
  /\ user[s] # NoOne
  /\ suspect' = suspect \ {s}
  /\ UNCHANGED <<content, user>>

Next ==
  \E s \in Sector :
    \/ Fail(s) \/ Recover(s)
    \/ \E p \in Process : \/ Take(p, s) \/ Change(p, s) \/ Give(p, s)
                          \/ \E t \in Sector : Drop(p, s, t)

Spec == Init /\ [][Next]_vars

=============================================================================

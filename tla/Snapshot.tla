------------------------------ MODULE Snapshot ------------------------------
(***************************************************************************)
(* What execute and conformance promise, without the files they go by: a   *)
(* run looks once at each input, one after the other, and what it accepts  *)
(* is accepted as if everything else it used had been made from just what  *)
(* it saw.  That may be a combination that never stood together: an input  *)
(* may change between the looks.  The output directory goes to the first   *)
(* run that has judged all its cases.                                      *)
(***************************************************************************)
EXTENDS Naturals, Sequences

CONSTANTS
  Versions, \* the versions of the inputs: sequences, one element each
  Good,     \* those that are accepted together
  Clients,  \* the runs
  Nobody    \* not a run

VARIABLES
  now,     \* the version of the inputs
  seen,    \* what each run saw: of the first inputs, one version each
  used,    \* the versions of what a run has judged its cases with
  verdict, \* of each run
  holder   \* whose reports are in the output directory

snapshotVars == <<now, seen, used, verdict, holder>>

Init ==
  /\ now \in Good
  /\ seen = [c \in Clients |-> <<>>] /\ used = [c \in Clients |-> {}]
  /\ verdict = [c \in Clients |-> "none"]
  /\ holder = Nobody

(* One input changes.                                                      *)
Change ==
  /\ now' \in Versions
  /\ \E input \in DOMAIN now :
       \A other \in DOMAIN now \ {input} : now'[other] = now[other]
  /\ UNCHANGED <<seen, used, verdict, holder>>

Begin(c) ==
  /\ verdict[c] = "none"
  /\ verdict' = [verdict EXCEPT ![c] = "pending"]
  /\ UNCHANGED <<now, seen, used, holder>>

(* A look at the next input, as it is now.                                 *)
Look(c) ==
  /\ verdict[c] = "pending" /\ Len(seen[c]) < Len(now)
  /\ seen' = [seen EXCEPT ![c] = Append(@, now[Len(@) + 1])]
  /\ UNCHANGED <<now, used, verdict, holder>>

Judges(c) == seen[c] \in Good /\ used[c] = {} /\ used' = [used EXCEPT ![c] = {seen[c]}]

(* The cases are judged, and reports are to be written.                    *)
Judge(c) == verdict[c] = "pending" /\ Judges(c) /\ UNCHANGED <<now, seen, verdict, holder>>

Publishes(c) == used[c] # {} /\ holder = Nobody /\ holder' = c

Publish(c) == verdict[c] = "pending" /\ Publishes(c) /\ UNCHANGED <<now, seen, used, verdict>>

(* What execute accepts it has judged, what conformance accepts it has     *)
(* published, too.                                                         *)
Accept(c) ==
  /\ verdict[c] = "pending" /\ verdict' = [verdict EXCEPT ![c] = "accepted"]
  /\ \/ Judges(c) /\ UNCHANGED holder
     \/ holder = c /\ UNCHANGED <<used, holder>>
  /\ UNCHANGED <<now, seen>>

(* A run may be refused or die at any time, even after its first report.   *)
(* What it saw and used is forgotten.                                      *)
Refuse(c) ==
  /\ verdict[c] = "pending" /\ verdict' = [verdict EXCEPT ![c] = "refused"]
  /\ seen' = [seen EXCEPT ![c] = <<>>] /\ used' = [used EXCEPT ![c] = {}]
  /\ \/ Publishes(c)
     \/ UNCHANGED holder
  /\ UNCHANGED now

Next ==
  \/ Change
  \/ \E c \in Clients : Begin(c) \/ Look(c) \/ Judge(c) \/ Publish(c)
                        \/ Accept(c) \/ Refuse(c)

Spec == Init /\ [][Next]_snapshotVars
=============================================================================

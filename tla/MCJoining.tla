----------------------------- MODULE MCJoining -----------------------------
(***************************************************************************)
(* Small instances of what a connection passes before it serves, for TLC:  *)
(* the limiter of a listener, one connection being authenticated, and the  *)
(* admission of joiners by one receiver.  A behaviour is one of one of     *)
(* them, and the others stay as they were initially.                       *)
(***************************************************************************)
EXTENDS Admission, AdmissionRate, Handshake, TLC

CONSTANTS j1, j2, c1, c2

VARIABLE part

admissionVars == <<issuer, task, join, admitted, cluster, posted, faults>>
allVars == <<part, admissionVars, handshakeVars, rateVars>>

\* One built-in label, and one extension that depends on it and that two
\* applications may define differently.
Depends == [f \in {"core", "ext"} |-> IF f = "ext" THEN {"core"} ELSE {}]

\* Three sources, of which one has two addresses.
FourAddresses ==
  {[kind |-> "v4", host |-> 1], [kind |-> "mapped", host |-> 1],
   [kind |-> "v6", host |-> 1], [kind |-> "v4", host |-> 2]}
NoAddress == [kind |-> "none"]

\* Two nodes of different clusters, which never connect, stand for a handshake
\* that does not take place.
Apart == CHOOSE k \in Configurations :
           k.i.cluster # k.r.cluster /\ k.i.mode = "member" /\ k.i.credential = k.r.credential
             /\ k.i.hint = k.r.hint

MCInit ==
  /\ part \in {"admission", "handshake", "rate"}
  /\ Init
  /\ HandshakeInit
  /\ part # "handshake" => conf = Apart
  /\ RateInit

\* Steps of one part.
Joining == part = "admission" /\ UNCHANGED <<part, handshakeVars, rateVars>>
Handshakes == part = "handshake" /\ UNCHANGED <<part, admissionVars, rateVars>>
Rates == part = "rate" /\ UNCHANGED <<part, admissionVars, handshakeVars>>

MCNext ==
  \/ Joining /\ Next
  \/ Handshakes /\ HandshakeNext
  \/ Rates /\ RateNext

\* The fairness of each part's specification.
MCFairness ==
  /\ WF_allVars(Joining /\ Post)
  /\ \A c \in Connections : /\ WF_allVars(Joining /\ Step(c))
                            /\ WF_allVars(Joining /\ Prove(c))
                            /\ WF_allVars(Joining /\ Adopt(c))
  /\ \A j \in Joiners : WF_allVars(Joining /\ \E c \in Connections : Join(j, c, issuer.id))
  /\ \A s \in {"i", "r"} : WF_allVars(Handshakes /\ Protocol(s))

MCSpec == MCInit /\ [][MCNext]_allVars /\ MCFairness
=============================================================================

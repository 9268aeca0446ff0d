-------------------------- MODULE FailureArtifact --------------------------
(***************************************************************************)
(* The evidence kept of a failed run (test-support/src/lib.rs:             *)
(* build_failure_artifact_with_limits, EventWindows, select_retained_count *)
(* and simulation/artifact.rs: publish_new_file_with_sync).                *)
(*                                                                         *)
(* The events of the run stream through two windows, the first and the     *)
(* last half of the event ceiling.  As many of them are kept as fit into   *)
(* the byte ceiling, and the document is published under a name of its own *)
(* through a temporary file and a hard link.  An event is its encoded      *)
(* length.  The process may die between any two file operations, and what  *)
(* the directory holds after that lies between its last synchronised and   *)
(* its last state.                                                         *)
(***************************************************************************)
EXTENDS Integers, Sequences, FiniteSets, FiniteSetsExt, Functions

CONSTANTS
  Lengths,       \* the encoded lengths of events
  MaxEvents,     \* bound: events of a run
  Fixed,         \* the length of the document's constant fields
  EventCeiling,  \* ArtifactLimits.event_ceiling
  ByteCeiling,   \* ArtifactLimits.byte_ceiling
  Attempts       \* bound: the processes that publish, 1 .. Attempts

VARIABLES
  events,    \* the events consumed so far
  first,     \* EventWindows.first
  last,      \* EventWindows.last
  artifact,  \* the document, or why there is none
  at,        \* where the publication is
  attempt,   \* which process publishes
  content,   \* what the file of each attempt holds
  names,     \* the directory: names and the file each stands for
  synced     \* the directory when it was last synchronised

windowVars == <<events, first, last>>
publishVars == <<at, attempt, content, names, synced>>
vars == <<windowVars, artifact, publishVars>>

FirstCapacity == (EventCeiling + 1) \div 2
LastCapacity == EventCeiling \div 2

Init ==
  /\ events = <<>>
  /\ first = <<>>
  /\ last = <<>>
  /\ artifact = [kind |-> "none"]
  /\ at = "idle"
  /\ attempt = 0
  /\ content = [n \in 1 .. Attempts |-> "none"]
  /\ names = {}
  /\ synced = {}

-----------------------------------------------------------------------------
(* Building                                                                 *)

\* EventWindows::push.
Consume(e) ==
  /\ artifact.kind = "none" /\ Len(events) < MaxEvents
  /\ events' = Append(events, e)
  /\ first' = IF Len(first) < FirstCapacity THEN Append(first, e) ELSE first
  /\ last' = IF LastCapacity = 0 THEN last
             ELSE Append(IF Len(last) = LastCapacity THEN Tail(last) ELSE last, e)
  /\ UNCHANGED <<artifact, publishVars>>

Suffix(s, n) == SubSeq(s, Len(s) - n + 1, Len(s))

\* EventWindows::select: both halves of the retained events.
Select(retained) ==
  LET total == Len(events)
      head == IF retained = total THEN Min({total, Len(first)}) ELSE (retained + 1) \div 2
  IN  [first |-> SubSeq(first, 1, head), last |-> Suffix(last, retained - head)]

\* render_artifact, by the length of what it writes.
Digits(n) == IF n < 10 THEN 1 ELSE IF n < 100 THEN 2 ELSE 3
Boolean(b) == IF b THEN 4 ELSE 5
WriteEvents(s) == 2 + FoldFunction(+, 0, s) + Max({0, Len(s) - 1})

MaxRetained == Min({Len(events), EventCeiling})

Rendered(retained) ==
  LET kept == Select(retained)
      counted == Len(events) > EventCeiling
      cut == retained < MaxRetained
  IN  Fixed + Boolean(counted \/ cut) + Boolean(counted) + Boolean(cut)
        + Digits(Len(events)) + Digits(retained) + Digits(Len(events) - retained)
        + Digits(Len(kept.first)) + Digits(Len(kept.last))
        + WriteEvents(kept.first) + WriteEvents(kept.last)

\* candidate_fits.
CandidateFits(retained) == Rendered(retained) <= ByteCeiling

\* Mutant: the search ends on the candidate that was rejected.
SelectRejected ==
  LET Search[gap \in 0 .. EventCeiling, fitting \in 0 .. EventCeiling] ==
        LET candidate == fitting + gap \div 2 IN
        IF gap <= 1 THEN fitting + gap
        ELSE IF CandidateFits(candidate) THEN Search[gap - gap \div 2, candidate]
        ELSE Search[gap \div 2, fitting]
  IN  IF CandidateFits(MaxRetained) THEN MaxRetained ELSE Search[MaxRetained, 0]

\* select_retained_count: a search between what fits and what does not.
SelectRetainedCount ==
  LET Search[gap \in 0 .. EventCeiling, fitting \in 0 .. EventCeiling] ==
        LET candidate == fitting + gap \div 2 IN
        IF gap <= 1 THEN fitting
        ELSE IF CandidateFits(candidate) THEN Search[gap - gap \div 2, candidate]
        ELSE Search[gap \div 2, fitting]
  IN  IF CandidateFits(MaxRetained) THEN MaxRetained ELSE Search[MaxRetained, 0]

\* build_failure_artifact_with_limits, once the events are consumed.
Build ==
  /\ artifact.kind = "none"
  /\ artifact' =
       IF CandidateFits(MaxRetained) \/ CandidateFits(0)
       THEN LET kept == Select(SelectRetainedCount)
            IN  [kind |-> "built", retained |-> SelectRetainedCount,
                 first |-> kept.first, last |-> kept.last,
                 count_truncated |-> Len(events) > EventCeiling,
                 byte_truncated |-> SelectRetainedCount < MaxRetained]
       ELSE [kind |-> "fixed fields exceed the ceiling"]
  /\ UNCHANGED <<windowVars, publishVars>>

-----------------------------------------------------------------------------
(* Publishing                                                               *)

Temp(n) == <<"temp", n>>
Final(n) == <<"final", n>>

Go(step) == at' = step /\ UNCHANGED <<windowVars, artifact, attempt>>

\* create_temp_file: a name nobody uses, by process and sequence number.
CreateTemp ==
  /\ artifact.kind = "built" /\ at = "idle" /\ attempt < Attempts
  /\ attempt' = attempt + 1
  /\ at' = "write"
  /\ content' = [content EXCEPT ![attempt + 1] = "partial"]
  /\ names' = names \cup {Temp(attempt + 1)}
  /\ UNCHANGED <<windowVars, artifact, synced>>

\* write_complete and sync_all; a failure removes the temporary file.
Write ==
  /\ at = "write"
  /\ \/ Go("link") /\ content' = [content EXCEPT ![attempt] = "whole"] /\ UNCHANGED names
     \/ Go("error") /\ names' \in {names, names \ {Temp(attempt)}} /\ UNCHANGED content
  /\ UNCHANGED synced

\* hard_link fails when the name is taken, and may fail otherwise.
Link ==
  /\ at = "link"
  /\ \/ /\ \A n \in 1 .. Attempts : Final(n) \notin names
        /\ Go("sync") /\ names' = names \cup {Final(attempt)}
     \/ Go("error") /\ names' \in {names, names \ {Temp(attempt)}}
  /\ UNCHANGED <<content, synced>>

SyncDirectory(from, to) ==
  /\ at = from
  /\ \/ Go(to) /\ synced' = names
     \/ Go("error") /\ UNCHANGED synced
  /\ UNCHANGED <<content, names>>

RemoveTemp ==
  /\ at = "remove"
  /\ \/ Go("seal") /\ names' = names \ {Temp(attempt)}
     \/ Go("error") /\ UNCHANGED names
  /\ UNCHANGED <<content, synced>>

\* The process ends.
Exit ==
  /\ at # "idle"
  /\ Go("idle")
  /\ UNCHANGED <<content, names, synced>>

\* The machine stops: the directory comes back as something between its last
\* synchronised and its last state.
Crash ==
  /\ at # "idle"
  /\ Go("idle")
  /\ \E kept \in SUBSET ((names \ synced) \cup (synced \ names)) :
       /\ names' = (names \cap synced) \cup kept
       /\ synced' = names'
  /\ UNCHANGED content

Next ==
  \/ \E e \in Lengths : Consume(e)
  \/ Build \/ CreateTemp \/ Write \/ Link
  \/ SyncDirectory("sync", "remove") \/ RemoveTemp \/ SyncDirectory("seal", "ok")
  \/ Exit \/ Crash

Spec == Init /\ [][Next]_vars

-----------------------------------------------------------------------------
\* The artifact holds the first and the last events of the run, none twice, and
\* as many as fit: one more would exceed a ceiling.  The name it is published
\* under stands for one complete document at every moment, also after a crash,
\* and a success is durable and leaves no temporary name
\* (test-support select_retained_count, artifact.rs publish_new_file_with_sync).
ArtifactIsSound ==
  /\ artifact.kind = "built" =>
       LET n == Len(events)
           f == Len(artifact.first)
           l == Len(artifact.last)
       IN  /\ f + l = artifact.retained /\ artifact.retained <= MaxRetained
           /\ artifact.first = SubSeq(events, 1, f) /\ artifact.last = Suffix(events, l)
           /\ CandidateFits(artifact.retained)
           /\ \A k \in artifact.retained + 1 .. MaxRetained : ~CandidateFits(k)
  /\ \A n \in 1 .. Attempts : Final(n) \in names \cup synced =>
       content[n] = "whole" /\ \A m \in 1 .. Attempts \ {n} : Final(m) \notin names
  /\ at = "ok" => Final(attempt) \in synced /\ Temp(attempt) \notin synced
=============================================================================

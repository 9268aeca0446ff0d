--------------------------- MODULE AdmissionRate ---------------------------
(***************************************************************************)
(* The limiter every accepted connection passes before any handshake work  *)
(* (identity/admission_rate.rs: AdmissionLimiter, AdmissionSlot).          *)
(*                                                                         *)
(* Instants are ages, in steps of Second, that stop where no test tells    *)
(* them apart any more.  The bucket of a source that is not in the table   *)
(* is NewBucket.                                                           *)
(***************************************************************************)
EXTENDS Integers, FiniteSets

CONSTANTS
  Addresses,         \* peer addresses: kind ("v4", "mapped" or "v6") and host
  Attempts,          \* connections that may be open at the same time
  None,              \* an attempt that holds no slot
  PendingPerSource, PendingGlobal, RatePerSource, RateGlobal,
  BucketLimit,       \* SOURCE_BUCKET_LIMIT
  Window,            \* WINDOW_SECONDS
  Lifetime           \* SOURCE_IDLE_LIFETIME

ASSUME RateAssumption ==
  /\ IsFiniteSet(Attempts) /\ None \notin Addresses
  /\ {PendingPerSource, PendingGlobal, RatePerSource, RateGlobal,
      BucketLimit, Window, Lifetime} \subseteq Nat

VARIABLES
  held,     \* the address of the slot an attempt holds
  sources,  \* the sources that have a bucket
  bucket,   \* SourceBucket
  pending,  \* global_pending
  window    \* global_window

rateVars == <<held, sources, bucket, pending, window>>

\* AdmissionSource::normalize: a mapped address is the IPv4 address it maps.
Normalize(address) == [family |-> IF address.kind = "v6" THEN "v6" ELSE "v4", host |-> address.host]
Sources == {Normalize(address) : address \in Addresses}

NewWindow == [age |-> 0, count |-> 0]
NewBucket == [pending |-> 0, window |-> NewWindow, idle |-> 0]

RateInit ==
  /\ held = [a \in Attempts |-> None]
  /\ sources = {}
  /\ bucket = [s \in Sources |-> NewBucket]
  /\ pending = 0
  /\ window = NewWindow

\* RateWindow::record: a window that is over begins again; a full one refuses
\* and stays as it is.
Rolled(w) == IF w.age >= Window THEN NewWindow ELSE w
CanRecord(w, limit) == Rolled(w).count < limit
Recorded(w) == [Rolled(w) EXCEPT !.count = @ + 1]

\* Mutant: a bucket is idle whether or not its attempts have ended.
ExpiredPending == {s \in sources : bucket[s].idle >= Lifetime}

\* evict_idle.
Expired == {s \in sources : bucket[s].pending = 0 /\ bucket[s].idle >= Lifetime}

\* begin, for an attempt from address: a table that is full is swept for a new
\* source; the global window, the global pending count, the source's window and
\* its pending count are then tried in this order, and a refusal keeps what was
\* recorded before it.
Begin(a, address) ==
  LET s == Normalize(address)
      kept == IF s \notin sources /\ Cardinality(sources) >= BucketLimit
              THEN sources \ Expired ELSE sources
      roomy == s \in kept \/ Cardinality(kept) < BucketLimit
      timely == roomy /\ CanRecord(window, RateGlobal)
      reached == timely /\ pending < PendingGlobal
      mine == [(IF s \in kept THEN bucket[s] ELSE NewBucket) EXCEPT !.idle = 0]
      rated == reached /\ CanRecord(mine.window, RatePerSource)
      admitted == rated /\ mine.pending < PendingPerSource
      charged == [mine EXCEPT !.window = IF rated THEN Recorded(@) ELSE @,
                              !.pending = IF admitted THEN @ + 1 ELSE @]
  IN  /\ held[a] = None
      /\ held' = IF admitted THEN [held EXCEPT ![a] = address] ELSE held
      /\ sources' = IF reached THEN kept \cup {s} ELSE kept
      /\ bucket' = [x \in Sources |-> IF x = s /\ reached THEN charged
                                      ELSE IF x \in kept THEN bucket[x] ELSE NewBucket]
      /\ pending' = IF admitted THEN pending + 1 ELSE pending
      /\ window' = IF timely THEN Recorded(window) ELSE window

\* saturating_sub(1).
Less(n) == IF n > 0 THEN n - 1 ELSE 0

\* AdmissionSlot::drop: the attempt ended, whatever became of it.
Drop(a) ==
  /\ held[a] # None
  /\ LET s == Normalize(held[a])
     IN  bucket' = IF s \in sources THEN [bucket EXCEPT ![s].pending = Less(@)] ELSE bucket
  /\ pending' = Less(pending)
  /\ held' = [held EXCEPT ![a] = None]
  /\ UNCHANGED <<sources, window>>

Older(age, limit) == IF age < limit THEN age + 1 ELSE age

\* The monotonic clock goes on.
Second ==
  /\ window' = [window EXCEPT !.age = Older(@, Window)]
  /\ bucket' = [s \in Sources |->
                  IF s \in sources
                  THEN [bucket[s] EXCEPT !.window.age = Older(@, Window), !.idle = Older(@, Lifetime)]
                  ELSE bucket[s]]
  /\ UNCHANGED <<held, sources, pending>>

RateNext ==
  \/ \E a \in Attempts : Drop(a) \/ \E address \in Addresses : Begin(a, address)
  \/ Second

RateSpec == RateInit /\ [][RateNext]_rateVars

-----------------------------------------------------------------------------
\* The types of the variables.
Windows == [age : Nat, count : Nat]
RateTypeOK ==
  /\ held \in [Attempts -> Addresses \cup {None}]
  /\ sources \subseteq Sources
  /\ bucket \in [Sources -> [pending : Nat, window : Windows, idle : Nat]]
  /\ pending \in Nat
  /\ window \in Windows

\* The attempts that hold a slot, of all sources and of one.
Holders == {a \in Attempts : held[a] # None}
HoldersOf(s) == {a \in Holders : Normalize(held[a]) = s}

\* "releases it on every outcome", "every alias of one source shares one
\* bucket": the counts are exactly the attempts in flight, whatever was refused
\* half way and whatever was evicted, so neither limit is ever exceeded or
\* eaten up by slots that nobody holds; the table keeps to its size.
SlotsAreCounted ==
  /\ pending = Cardinality(Holders) /\ pending <= PendingGlobal
  /\ \A s \in Sources : /\ bucket[s].pending = Cardinality(HoldersOf(s))
                        /\ bucket[s].pending <= PendingPerSource
  /\ Cardinality(sources) <= BucketLimit
=============================================================================

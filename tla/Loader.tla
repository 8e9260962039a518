------------------------------- MODULE Loader -------------------------------
(***************************************************************************)
(* The processor's Loader: Load reads a statement from a file or fetches   *)
(* it over https, up to a size and, for a fetch, until a deadline or the   *)
(* end of the caller's context.                                            *)
(*                                                                         *)
(* Contents are lengths: what matters of a file or of a response's body is *)
(* how much of it there is so far, whether that is all, and how much of it *)
(* has been read.  A body, or what a pipe gives, arrives bit by bit and    *)
(* may stall.  A regular file ends where it ends at that moment, and may   *)
(* be cut short, overwritten or added to while it is read: nothing keeps   *)
(* its writers out.  (A file put in another's place under its name is not  *)
(* one of these cases: a reader keeps the file it opened.)                 *)
(***************************************************************************)
EXTENDS Integers

CONSTANTS
  MaxInt,           \* the largest int64
  DefaultMaxBytes,
  DefaultTimeout,
  Limits,           \* values of MaxBytes
  Timeouts,         \* values of Timeout
  MaxLen,           \* bound on the length of contents
  NoDeadline        \* no fetch is under way

ASSUME LoaderAssumption ==
  /\ DefaultMaxBytes \in Nat \ {0} /\ DefaultTimeout \in Nat \ {0}
  /\ MaxInt \in Nat /\ DefaultMaxBytes < MaxInt
  /\ Limits \subseteq (-MaxInt)..MaxInt
  /\ Timeouts \subseteq Int
  /\ MaxLen \in Nat
  /\ NoDeadline \notin Int

VARIABLES
  settings,   \* the Loader's MaxBytes and Timeout
  pc,         \* where the running Load is
  scheme,     \* of its source: a path's (to a file or a pipe), https, another
  size,       \* of the file or the body, so far
  complete,   \* it is all there: no writer or server is half way through it
  response,   \* the server's answer
  open,       \* the file or the body is open
  got,        \* bytes read
  left,       \* time left of the fetch
  deferred,   \* the deferred calls that wait for the return
  cancelled,  \* the caller's context ended
  result,     \* what the last Load returned
  whole,      \* history: lengths the source had when it was complete
  written,    \* history: the file was written to while it was read
  late,       \* history: the context had ended before the call
  waited      \* history: time passed during the fetch

source == <<size, complete, response, whole, written>>
fetch == <<got, open, left, deferred>>
past == <<late, waited>>
loaderVars == <<settings, pc, scheme, size, complete, response, open, got, left,
                deferred, cancelled, result, whole, written, late, waited>>

NoResult == [ok |-> FALSE, cause |-> "none", bytes |-> 0]
Failure(cause) == [ok |-> FALSE, cause |-> cause, bytes |-> 0]
Success(n) == [ok |-> TRUE, cause |-> "none", bytes |-> n]

Schemes == {"file", "pipe", "https", "other"}
Places == {"idle", "start", "request", "waiting", "reading", "closing"}
FailureCauses == {"none", "scheme", "open", "request", "network", "status",
                  "read", "too large", "context"}

Settings == [maxBytes : Limits, timeout : Timeouts]
Results == [ok : BOOLEAN, cause : FailureCauses, bytes : 0..MaxLen]

LoaderTypeOK ==
  /\ settings \in Settings
  /\ pc \in Places
  /\ scheme \in Schemes
  /\ size \in 0..MaxLen /\ complete \in BOOLEAN
  /\ response \in {"none", "ok", "refused"}
  /\ open \in BOOLEAN
  /\ got \in 0..MaxLen
  /\ left \in Nat \cup {NoDeadline}
  /\ deferred \subseteq {"close", "cancel"}
  /\ cancelled \in BOOLEAN
  /\ result \in Results
  /\ whole \subseteq 0..MaxLen /\ written \in BOOLEAN
  /\ late \in BOOLEAN /\ waited \in BOOLEAN

LoaderInit ==
  /\ settings \in Settings
  /\ pc = "idle" /\ scheme = "file"
  /\ size = 0 /\ complete = FALSE
  /\ response = "none" /\ open = FALSE /\ got = 0 /\ left = NoDeadline
  /\ deferred = {} /\ cancelled = FALSE /\ result = NoResult
  /\ whole = {} /\ written = FALSE /\ late = FALSE /\ waited = FALSE

-----------------------------------------------------------------------------

\* An int64 sum that is one too large becomes the least one.
Wrap(n) == IF n > MaxInt THEN n - 2 * (MaxInt + 1) ELSE n

Limit == IF settings.maxBytes > 0 THEN settings.maxBytes ELSE DefaultMaxBytes

\* Fault: the reader stops at the limit, so contents that are larger look as
\* if they ended there.
BoundAtLimit == Limit

\* Fault: everything is read before it is measured.
BoundNone == MaxInt

\* How much LimitReader lets through: one byte more than the limit tells
\* contents that are too large from those that are not.
Bound == Wrap(Limit + 1)

\* Fault: a timeout that is not set is taken as it is.
DeadlineUnset(t) == IF t > 0 THEN t ELSE 0

\* The time a fetch has: a deadline in the past has already come.
Deadline(t) ==
  IF t = 0 THEN DefaultTimeout ELSE IF t < 0 THEN 0 ELSE t

\* Fault: the deadline is put on a context of its own, not the caller's.
EndedByDeadline == left = 0

\* The fetch's context has ended, with the caller's or at the deadline.
Ended == cancelled \/ left = 0

-----------------------------------------------------------------------------
(* The surroundings: callers, files, servers and time.                     *)

\* A file may be there while it is still being written; a stream begins empty.
Call ==
  /\ pc = "idle"
  /\ pc' = "start"
  /\ \E s \in Schemes, n \in 0..MaxLen, e \in BOOLEAN :
       /\ s # "file" => n = 0 /\ ~e
       /\ scheme' = s /\ size' = n /\ complete' = e
       /\ whole' = IF e THEN {n} ELSE {}
  /\ response' = "none" /\ got' = 0 /\ result' = NoResult
  /\ written' = FALSE
  /\ late' = cancelled /\ waited' = FALSE
  /\ UNCHANGED <<settings, open, left, deferred, cancelled>>

Cancel ==
  /\ ~cancelled
  /\ cancelled' = TRUE
  /\ UNCHANGED <<settings, pc, scheme, source, fetch, result, past>>

Tick ==
  /\ left # NoDeadline /\ left > 0
  /\ left' = left - 1 /\ waited' = TRUE
  /\ UNCHANGED <<settings, pc, scheme, source, got, open, deferred, cancelled,
                 result, late>>

\* A status of 200, or another one.
Answer ==
  /\ pc = "waiting" /\ response = "none"
  /\ response' \in {"ok", "refused"}
  /\ UNCHANGED <<settings, pc, scheme, size, complete, whole, written, fetch,
                 cancelled, result, past>>

\* Contents are there to be added to: a file, a pipe, or a body under way.
Present == scheme \in {"file", "pipe"} \/ response = "ok"

\* More arrives, or is written.
Grow ==
  /\ pc # "idle" /\ Present /\ ~complete /\ size < MaxLen
  /\ size' = size + 1
  /\ UNCHANGED <<settings, pc, scheme, complete, response, whole, written, fetch,
                 cancelled, result, past>>

\* The server, or a writer, is done.
EndStream ==
  /\ pc # "idle" /\ Present /\ ~complete
  /\ complete' = TRUE
  /\ whole' = whole \cup {size}
  /\ UNCHANGED <<settings, pc, scheme, size, response, written, fetch, cancelled,
                 result, past>>

\* A writer opens the file to write it anew, add to it or change it in place:
\* it may cut it, to nothing or to a part, and is then half way through it.
Rewrite ==
  /\ pc # "idle" /\ scheme = "file"
  /\ size' \in 0..size /\ complete' = FALSE
  /\ written' = (written \/ pc = "reading")
  /\ UNCHANGED <<settings, pc, scheme, response, whole, fetch, cancelled, result,
                 past>>

-----------------------------------------------------------------------------
(* Load: dispatch, read and fetch, capped.                                 *)

\* The function returns; its deferred calls follow.
Finish(outcome) == pc' = "closing" /\ result' = outcome
Proceed(place) == pc' = place /\ UNCHANGED result

RefuseScheme ==
  /\ pc = "start" /\ scheme = "other"
  /\ Finish(Failure("scheme"))
  /\ UNCHANGED <<settings, scheme, source, fetch, cancelled, past>>

\* A file whose writer is half way through it is read in the middle of that.
OpenFile ==
  /\ pc = "start" /\ scheme \in {"file", "pipe"}
  /\ \/ Finish(Failure("open")) /\ UNCHANGED <<written, open, deferred>>
     \/ /\ Proceed("reading")
        /\ open' = TRUE /\ deferred' = {"close"}
        /\ written' = (scheme = "file" /\ ~complete)
  /\ UNCHANGED <<settings, scheme, size, complete, response, whole, got, left,
                 cancelled, past>>

\* Fault: the request has no deadline.
NewRequestUntimed ==
  /\ pc = "start" /\ scheme = "https"
  /\ Proceed("request") \/ Finish(Failure("request"))
  /\ UNCHANGED <<settings, scheme, source, fetch, cancelled, past>>

\* The deadline is set first; the URL may not parse.
NewRequest ==
  /\ pc = "start" /\ scheme = "https"
  /\ left' = Deadline(settings.timeout) /\ deferred' = {"cancel"}
  /\ Proceed("request") \/ Finish(Failure("request"))
  /\ UNCHANGED <<settings, scheme, source, got, open, cancelled, past>>

\* The client sends nothing once the context has ended.
Do ==
  /\ pc = "request"
  /\ IF Ended THEN Finish(Failure("context")) ELSE Proceed("waiting")
  /\ UNCHANGED <<settings, scheme, source, fetch, cancelled, past>>

\* Fault: what a server refuses is asked for again.
DoReturnsAgain ==
  /\ pc = "waiting" /\ response # "none"
  /\ open' = TRUE /\ deferred' = deferred \cup {"close"}
  /\ IF response = "ok" THEN Proceed("reading") ELSE Proceed("request")
  /\ UNCHANGED <<settings, scheme, source, got, left, cancelled, past>>

\* Fault: the body's Close is deferred once the status is known to be right.
DoReturnsClosingLate ==
  /\ pc = "waiting" /\ response # "none"
  /\ open' = TRUE
  /\ \/ /\ response = "ok" /\ Proceed("reading")
        /\ deferred' = deferred \cup {"close"}
     \/ /\ response # "ok" /\ Finish(Failure("status"))
        /\ UNCHANGED deferred
  /\ UNCHANGED <<settings, scheme, source, got, left, cancelled, past>>

\* The answer is there: its body is open, whatever its status.
DoReturns ==
  /\ pc = "waiting" /\ response # "none"
  /\ open' = TRUE /\ deferred' = deferred \cup {"close"}
  /\ IF response = "ok" THEN Proceed("reading") ELSE Finish(Failure("status"))
  /\ UNCHANGED <<settings, scheme, source, got, left, cancelled, past>>

\* Fault: reading a file is given up like a fetch.
FetchEndsAnyRead ==
  /\ pc \in {"waiting", "reading"}
  /\ Ended
  /\ Finish(Failure("context"))
  /\ UNCHANGED <<settings, scheme, source, fetch, cancelled, past>>

\* The context ends a fetch before its answer or within its body; an answer
\* that is there at the same time may still win.
FetchEnds ==
  /\ pc = "waiting" \/ (pc = "reading" /\ scheme = "https")
  /\ Ended
  /\ Finish(Failure("context"))
  /\ UNCHANGED <<settings, scheme, source, fetch, cancelled, past>>

\* No answer, or a connection or a file that breaks off.
LoadFails ==
  /\ \/ pc = "waiting" /\ Finish(Failure("network"))
     \/ pc = "reading" /\ Finish(Failure("read"))
  /\ UNCHANGED <<settings, scheme, source, fetch, cancelled, past>>

Read ==
  /\ pc = "reading"
  /\ got' \in (got + 1)..size /\ got' <= Bound
  /\ UNCHANGED <<settings, pc, scheme, source, open, left, deferred, cancelled,
                 result, past>>

\* There is no more to read: a file ends at its size, also in the middle of
\* being written; a stream when its sender is done.
AtEnd == IF scheme = "file" THEN got >= size ELSE complete /\ got = size

\* ReadAll sees the end: of the source, or of what the LimitReader lets pass.
ReadAllReturns ==
  /\ pc = "reading"
  /\ got >= Bound \/ AtEnd
  /\ IF got > Limit THEN Finish(Failure("too large")) ELSE Finish(Success(got))
  /\ UNCHANGED <<settings, scheme, source, fetch, cancelled, past>>

\* The deferred calls, Close and the context's cancel, as far as the load had
\* come to defer them.
Return ==
  /\ pc = "closing"
  /\ pc' = "idle" /\ deferred' = {}
  /\ open' = (open /\ "close" \notin deferred)
  /\ left' = IF "cancel" \in deferred THEN NoDeadline ELSE left
  /\ UNCHANGED <<settings, scheme, source, got, cancelled, result, past>>

LoaderStep ==
  RefuseScheme \/ OpenFile \/ NewRequest \/ Do \/ DoReturns \/ FetchEnds \/ Read
  \/ ReadAllReturns \/ Return

Arrivals == Call \/ Cancel \/ Answer \/ Grow \/ EndStream \/ Rewrite
            \/ LoadFails

LoaderNext == LoaderStep \/ Arrivals \/ Tick

LoaderSpec == LoaderInit /\ [][LoaderNext]_loaderVars

\* The goroutine that loads runs.  Nothing is assumed of servers, writers and
\* callers, nor of time: a deadline may be far off.
FairLoaderSpec == LoaderSpec /\ WF_loaderVars(LoaderStep)

-----------------------------------------------------------------------------

\* What Load returns is all that the source held at some moment of the load,
\* never a part of it: too large is refused, not cut off (capped's comment),
\* also for contents that arrive slowly, stall or break off.  Of a file that is
\* written to between its opening and its last byte nothing is promised: Load
\* takes no lock, and may return a mix of two versions, or a part of one.
LoadedWhole ==
  (settings.maxBytes < MaxInt /\ result.ok) => (result.bytes \in whole \/ written)

\* "capped reads r in full, refusing anything past MaxBytes rather than silently
\* truncating it" (load.go): what LoadedWhole says, for every limit there is.
ReadsInFull == result.ok => (result.bytes \in whole \/ written)

\* However much a source holds or goes on sending, no more than one byte past
\* the limit is read of it, and what is returned is within the limit.
ReadIsBounded == got <= Limit + 1 /\ (result.ok => result.bytes <= Limit)

\* When Load has returned, on whichever of its paths and from whichever of its
\* early returns, the file or the body is closed and the deadline's timer
\* released: each is deferred as soon as there is something to defer, before
\* anything else can fail (read, fetch).  Reloads repeat for as long as the
\* process lives, and a server may refuse each one.
NothingLeftOpen == pc = "idle" => ~open /\ left = NoDeadline

\* "A cancelled context must stop a fetch before it starts" (load_test.go): a
\* fetch called after its context ended never succeeds, and sees no answer.
LateFetchFails ==
  (late /\ scheme = "https") => response = "none" /\ ~result.ok

\* A fetch that no one cancelled is not given up before time has passed,
\* unless the timeout is negative: zero means the default (Timeout's comment).
GivenItsTime ==
  (result.cause = "context" /\ ~cancelled /\ settings.timeout >= 0) => waited

\* A load keeps the promise that the store relies on, for any limit but the
\* largest: it gives, once, an error or contents, whole ones unless a file was
\* written to meanwhile, and an error of the context only for a fetch (verify's
\* and Build's reading of Load).
S == INSTANCE Source WITH busy <- pc # "idle", held <- whole,
                          outcome <- result
SourceSpec == S!SourceSpec

\* From its request to its last byte a fetch has a deadline, whatever Timeout
\* says and whatever the caller's context is: no server can hold it for good
\* (fetch's context.WithTimeout, which comes before anything is sent).
FetchIsTimed ==
  (scheme = "https" /\ pc \in {"request", "waiting", "reading"}) => left \in Nat

\* How many steps of its own a load has left at most: places to pass, and bytes
\* to read up to the one past the limit.
Ahead == [idle |-> 0, closing |-> 1, reading |-> 2, waiting |-> 3, request |-> 4,
          start |-> 5]
StepsLeft == IF pc = "idle" THEN 0 ELSE Ahead[pc] + Limit + 1 - got

\* Whatever a server sends or a writer adds, a load is done in a bounded number
\* of its own steps, each of which counts, and nothing that happens around it
\* sets it back: no retry, and no reading on without an end (read, capped).
LoadMovesOn ==
  [][pc # "idle" => /\ StepsLeft' <= StepsLeft
                    /\ LoaderStep => StepsLeft' \in 0..(StepsLeft - 1)]_loaderVars

\* As time passes, a fetch returns whatever its server does, and reading a
\* regular file whatever is done to it; only a pipe's writer can hold a load for
\* good.  It is what a reload counts on.
LoadReturns ==
  WF_loaderVars(Tick)
    => ((pc # "idle" /\ (scheme # "pipe" \/ complete)) ~> pc = "idle")

\* The end of the caller's context ends a fetch, also long before its
\* deadline: a process told to stop does not wait for a server.
CancelEndsFetch == (cancelled /\ scheme = "https") ~> pc = "idle"
=============================================================================

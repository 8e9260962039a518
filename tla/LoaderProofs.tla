---------------------------- MODULE LoaderProofs ----------------------------
(***************************************************************************)
(* What Load returns, how much it reads, and what it leaves behind, for    *)
(* any limits, timeouts and lengths.                                       *)
(***************************************************************************)
EXTENDS Loader, TLAPS

\* The limit is positive, and one more than it is one more unless the limit
\* is the largest integer.
LEMMA LimitFacts ==
  ASSUME LoaderTypeOK
  PROVE  /\ Limit \in Nat \ {0} /\ Limit <= MaxInt
         /\ Bound \in Int /\ Bound <= Limit + 1
         /\ settings.maxBytes < MaxInt => Bound = Limit + 1
<1>1. settings.maxBytes \in (-MaxInt)..MaxInt
  BY LoaderAssumption DEF LoaderTypeOK, Settings
<1>2. Limit \in Nat \ {0} /\ Limit <= MaxInt
      /\ (settings.maxBytes < MaxInt => Limit < MaxInt)
  BY <1>1, LoaderAssumption DEF Limit
<1> QED
  BY <1>2, LoaderAssumption DEF Bound, Wrap

LEMMA DeadlineType ==
  ASSUME NEW t \in Int
  PROVE  Deadline(t) \in Nat /\ (t >= 0 => Deadline(t) > 0)
  BY LoaderAssumption DEF Deadline

LEMMA FailureFacts ==
  ASSUME NEW cause \in FailureCauses
  PROVE  /\ Failure(cause) \in Results
         /\ ~Failure(cause).ok /\ Failure(cause).cause = cause
  BY LoaderAssumption DEF Failure, Results

LEMMA SuccessFacts ==
  ASSUME NEW n \in 0..MaxLen
  PROVE  /\ Success(n) \in Results
         /\ Success(n).ok /\ Success(n).bytes = n /\ Success(n).cause = "none"
  BY DEF Success, Results, FailureCauses

LEMMA NoResultFacts ==
  NoResult \in Results /\ ~NoResult.ok /\ NoResult.cause = "none"
  BY LoaderAssumption DEF NoResult, Results, FailureCauses

-----------------------------------------------------------------------------

LEMMA LoaderTypeInit == LoaderInit => LoaderTypeOK
<1> SUFFICES ASSUME LoaderInit PROVE LoaderTypeOK
  OBVIOUS
<1>1. result \in Results
  BY NoResultFacts DEF LoaderInit
<1>2. size \in 0..MaxLen /\ got \in 0..MaxLen /\ whole \subseteq 0..MaxLen
  BY LoaderAssumption DEF LoaderInit
<1> QED
  BY <1>1, <1>2 DEF LoaderInit, LoaderTypeOK, Places, Schemes

LEMMA LoaderTypeStep ==
  LoaderTypeOK /\ [LoaderNext]_loaderVars => LoaderTypeOK'
<1> SUFFICES ASSUME LoaderTypeOK, [LoaderNext]_loaderVars PROVE LoaderTypeOK'
  OBVIOUS
<1> USE LoaderAssumption DEF LoaderTypeOK, Places, Schemes, FailureCauses
<1>0. Deadline(settings.timeout) \in Nat
  BY DeadlineType DEF Settings
<1>1. CASE RefuseScheme
  BY <1>1, FailureFacts DEF RefuseScheme, Finish, source, fetch, past
<1>2. CASE OpenFile
  BY <1>2, FailureFacts DEF OpenFile, Finish, Proceed, source, past
<1>3. CASE NewRequest
  BY <1>3, FailureFacts, <1>0 DEF NewRequest, Finish, Proceed, source, past
<1>4. CASE Do
  BY <1>4, FailureFacts DEF Do, Finish, Proceed, source, fetch, past
<1>5. CASE DoReturns
  BY <1>5, FailureFacts DEF DoReturns, Finish, Proceed, source, past
<1>6. CASE FetchEnds
  BY <1>6, FailureFacts DEF FetchEnds, Finish, source, fetch, past
<1>7. CASE Read
  BY <1>7 DEF Read, source, past
<1>8. CASE ReadAllReturns
  BY <1>8, FailureFacts, SuccessFacts
     DEF ReadAllReturns, Finish, source, fetch, past
<1>9. CASE Return
  BY <1>9 DEF Return, source, past
<1>10. CASE Call
  <2>1. PICK s \in Schemes, n \in 0..MaxLen, e \in BOOLEAN :
          /\ scheme' = s /\ size' = n /\ complete' = e
          /\ whole' = IF e THEN {n} ELSE {}
    BY <1>10 DEF Call
  <2>2. result' \in Results
    BY <1>10, NoResultFacts DEF Call
  <2>3. got' \in 0..MaxLen
    BY <1>10 DEF Call
  <2> QED
    BY <1>10, <2>1, <2>2, <2>3 DEF Call
<1>11. CASE Cancel
  BY <1>11 DEF Cancel, source, fetch, past
<1>12. CASE Answer
  BY <1>12 DEF Answer, fetch, past
<1>13. CASE Grow
  BY <1>13 DEF Grow, fetch, past
<1>14. CASE EndStream
  BY <1>14 DEF EndStream, fetch, past
<1>15. CASE LoadFails
  BY <1>15, FailureFacts DEF LoadFails, Finish, source, fetch, past
<1>16. CASE Tick
  BY <1>16 DEF Tick, source
<1>17. CASE Rewrite
  <2>1. size' \in 0..MaxLen
    BY <1>17 DEF Rewrite
  <2> QED
    BY <1>17, <2>1 DEF Rewrite, fetch, past
<1>18. CASE UNCHANGED loaderVars
  BY <1>18 DEF loaderVars, source, fetch, past
<1> QED
  BY <1>1, <1>2, <1>3, <1>4, <1>5, <1>6, <1>7, <1>8, <1>9, <1>10, <1>11, <1>12,
     <1>13, <1>14, <1>15, <1>16, <1>17, <1>18
     DEF LoaderNext, LoaderStep, Arrivals

\* The variables keep their types.
THEOREM LoaderTypeCorrect == LoaderSpec => []LoaderTypeOK
<1> QED
  BY LoaderTypeInit, LoaderTypeStep, PTL DEF LoaderSpec

-----------------------------------------------------------------------------
(* What Load returns.                                                      *)

\* A source that is complete is whole as it is, only a load that has returned
\* has a result, and a file that no one writes to while it is read stays
\* complete, with all that was read of it still in it.
WholeInv ==
  /\ LoadedWhole
  /\ complete => size \in whole
  /\ result.ok => pc \in {"closing", "idle"}
  /\ pc = "start" => got = 0 /\ ~written
  /\ pc = "reading" /\ scheme = "file" /\ ~written => complete /\ got <= size
  /\ pc \in {"request", "waiting"} => scheme = "https"

LEMMA WholeStep ==
  LoaderTypeOK /\ WholeInv /\ [LoaderNext]_loaderVars => WholeInv'
<1> SUFFICES ASSUME LoaderTypeOK, WholeInv, [LoaderNext]_loaderVars
             PROVE  WholeInv'
  OBVIOUS
<1> USE DEF WholeInv, LoadedWhole, FailureCauses
<1>0. /\ got \in 0..MaxLen /\ Limit \in Int /\ Bound \in Int
      /\ settings.maxBytes < MaxInt => Bound = Limit + 1
  BY LimitFacts DEF LoaderTypeOK
<1>1. CASE RefuseScheme
  BY <1>1, FailureFacts DEF RefuseScheme, Finish, source, fetch, past
<1>2. CASE OpenFile
  <2>a. /\ pc = "start" /\ got = 0 /\ ~result.ok
        /\ result' \in {Failure("open"), result}
    BY <1>2 DEF OpenFile, Finish, Proceed
  <2>b. size >= 0
    BY DEF LoaderTypeOK
  <2>1. got <= size /\ ~result'.ok
    BY <2>a, <2>b, FailureFacts
  <2>2. /\ pc' \in {"closing", "reading"}
        /\ UNCHANGED <<settings, scheme, size, complete, got, whole>>
    BY <1>2 DEF OpenFile, Finish, Proceed
  <2>3. pc' = "reading" => written' = (scheme = "file" /\ ~complete)
    BY <1>2 DEF OpenFile, Finish, Proceed
  <2>4. pc' = "reading" /\ scheme = "file" /\ ~written' => complete
    BY <2>3, Zenon DEF LoaderTypeOK
  <2> QED
    BY <2>1, <2>2, <2>4
<1>3. CASE NewRequest
  BY <1>3, FailureFacts DEF NewRequest, Finish, Proceed, source, past
<1>4. CASE Do
  BY <1>4, FailureFacts DEF Do, Finish, Proceed, source, fetch, past
<1>5. CASE DoReturns
  BY <1>5, FailureFacts DEF DoReturns, Finish, Proceed, source, past
<1>6. CASE FetchEnds
  BY <1>6, FailureFacts DEF FetchEnds, Finish, source, fetch, past
<1>7. CASE Read
  BY <1>7 DEF Read, source, past
<1>8. CASE ReadAllReturns
  <2>1. /\ ~Failure("too large").ok /\ Failure("too large").cause = "too large"
        /\ Success(got).bytes = got /\ Success(got).cause = "none"
    BY FailureFacts, SuccessFacts DEF LoaderTypeOK
  <2>2. /\ pc' = "closing" /\ whole' = whole /\ settings' = settings
        /\ size' = size /\ complete' = complete /\ pc = "reading"
        /\ scheme' = scheme
        /\ IF got > Limit THEN result' = Failure("too large")
                          ELSE result' = Success(got)
        /\ (got >= Bound \/ AtEnd) /\ written' = written
    BY <1>8 DEF ReadAllReturns, Finish, source
  <2>3. CASE got > Limit
    BY <2>1, <2>2, <2>3
  <2>4. CASE ~(got > Limit)
    <3>1. settings.maxBytes < MaxInt => AtEnd
      BY <1>0, <2>2, <2>4
    <3>2. got \in Int /\ size \in Int
      BY DEF LoaderTypeOK
    <3>3. got >= size /\ got <= size => got = size
      BY <3>2
    <3>4. scheme = "file" /\ ~written => complete /\ got <= size
      BY <2>2
    <3>5. AtEnd => (got = size /\ complete) \/ written
      BY <3>3, <3>4, Zenon DEF AtEnd
    <3> QED
      BY <2>1, <2>2, <2>4, <3>1, <3>5
  <2> QED
    BY <2>3, <2>4
<1>9. CASE Return
  BY <1>9 DEF Return, source, past
<1>10. CASE Call
  BY <1>10, NoResultFacts DEF Call
<1>11. CASE Cancel
  BY <1>11 DEF Cancel, source, fetch, past
<1>12. CASE Answer
  BY <1>12 DEF Answer, fetch, past
<1>13. CASE Grow
  BY <1>13 DEF Grow, fetch, past
<1>14. CASE EndStream
  BY <1>14 DEF EndStream, fetch, past
<1>15. CASE LoadFails
  BY <1>15, FailureFacts DEF LoadFails, Finish, source, fetch, past
<1>16. CASE Tick
  BY <1>16 DEF Tick, source
<1>17. CASE Rewrite
  BY <1>17 DEF Rewrite, fetch, past
<1>18. CASE UNCHANGED loaderVars
  BY <1>18 DEF loaderVars, source, fetch, past
<1> QED
  BY <1>1, <1>2, <1>3, <1>4, <1>5, <1>6, <1>7, <1>8, <1>9, <1>10, <1>11, <1>12,
     <1>13, <1>14, <1>15, <1>16, <1>17, <1>18
     DEF LoaderNext, LoaderStep, Arrivals

\* What is returned is all that the source held at some moment.
THEOREM LoadedIsWhole == LoaderSpec => []LoadedWhole
<1>1. LoaderInit => WholeInv
  BY NoResultFacts DEF LoaderInit, WholeInv, LoadedWhole
<1> QED
  BY <1>1, WholeStep, LoaderTypeCorrect, PTL DEF LoaderSpec, WholeInv

LEMMA BoundedStep ==
  LoaderTypeOK /\ ReadIsBounded /\ [LoaderNext]_loaderVars => ReadIsBounded'
<1> SUFFICES ASSUME LoaderTypeOK, ReadIsBounded, [LoaderNext]_loaderVars
             PROVE  ReadIsBounded'
  OBVIOUS
<1>a. /\ got \in 0..MaxLen /\ Limit \in Nat /\ Bound \in Int
      /\ Bound <= Limit + 1 /\ size \in 0..MaxLen
  BY LimitFacts DEF LoaderTypeOK
<1>b. settings' = settings
  BY DEF LoaderNext, LoaderStep, Arrivals, RefuseScheme, OpenFile, NewRequest,
         Do, DoReturns, FetchEnds, Read, ReadAllReturns, Return, Call, Cancel,
         Answer, Grow, EndStream, Rewrite, LoadFails, Tick, loaderVars
<1>c. Limit' = Limit
  BY <1>b DEF Limit
<1> USE <1>a, <1>c DEF ReadIsBounded, FailureCauses
<1> HIDE DEF Limit, Bound
<1>1. CASE RefuseScheme
  BY <1>1, FailureFacts DEF RefuseScheme, Finish, source, fetch, past
<1>2. CASE OpenFile
  BY <1>2, FailureFacts DEF OpenFile, Finish, Proceed, source, past
<1>3. CASE NewRequest
  BY <1>3, FailureFacts DEF NewRequest, Finish, Proceed, source, past
<1>4. CASE Do
  BY <1>4, FailureFacts DEF Do, Finish, Proceed, source, fetch, past
<1>5. CASE DoReturns
  BY <1>5, FailureFacts DEF DoReturns, Finish, Proceed, source, past
<1>6. CASE FetchEnds
  BY <1>6, FailureFacts DEF FetchEnds, Finish, source, fetch, past
<1>7. CASE Read
  BY <1>7 DEF Read, source, past
<1>8. CASE ReadAllReturns
  <2>1. /\ ~Failure("too large").ok /\ Failure("too large").cause = "too large"
        /\ Success(got).bytes = got /\ Success(got).cause = "none"
    BY FailureFacts, SuccessFacts DEF LoaderTypeOK
  <2>2. /\ got' = got
        /\ IF got > Limit THEN result' = Failure("too large")
                          ELSE result' = Success(got)
    BY <1>8 DEF ReadAllReturns, Finish, fetch
  <2>3. CASE got > Limit
    BY <2>1, <2>2, <2>3
  <2>4. CASE ~(got > Limit)
    <3>1. got <= Limit
      BY <2>4
    <3>2. result'.bytes = got
      BY <2>1, <2>2, <2>4
    <3> QED
      BY <2>2, <3>1, <3>2
  <2> QED
    BY <2>3, <2>4
<1>9. CASE Return
  BY <1>9 DEF Return, source, past
<1>10. CASE Call
  BY <1>10, NoResultFacts DEF Call
<1>11. CASE Cancel
  BY <1>11 DEF Cancel, source, fetch, past
<1>12. CASE Answer
  BY <1>12 DEF Answer, fetch, past
<1>13. CASE Grow
  BY <1>13 DEF Grow, fetch, past
<1>14. CASE EndStream
  BY <1>14 DEF EndStream, fetch, past
<1>15. CASE LoadFails
  BY <1>15, FailureFacts DEF LoadFails, Finish, source, fetch, past
<1>16. CASE Tick
  BY <1>16 DEF Tick, source
<1>17. CASE Rewrite
  BY <1>17 DEF Rewrite, fetch, past
<1>18. CASE UNCHANGED loaderVars
  BY <1>18 DEF loaderVars, source, fetch, past
<1> QED
  BY <1>1, <1>2, <1>3, <1>4, <1>5, <1>6, <1>7, <1>8, <1>9, <1>10, <1>11, <1>12,
     <1>13, <1>14, <1>15, <1>16, <1>17, <1>18
     DEF LoaderNext, LoaderStep, Arrivals

\* Little is read past the limit, and nothing past it returned.
THEOREM LoadReadsLittle == LoaderSpec => []ReadIsBounded
<1>1. LoaderInit /\ LoaderTypeOK => ReadIsBounded
  BY LimitFacts, NoResultFacts DEF LoaderInit, ReadIsBounded
<1> QED
  BY <1>1, BoundedStep, LoaderTypeInit, LoaderTypeCorrect, PTL DEF LoaderSpec

-----------------------------------------------------------------------------
(* What Load leaves, and when it gives up.                                 *)

\* What is open, or running, is deferred to be closed, or cancelled; before the
\* request and after the return there is neither.
ClosedInv ==
  /\ pc \in {"idle", "start"} => ~open /\ left = NoDeadline /\ deferred = {}
  /\ open => "close" \in deferred
  /\ left # NoDeadline => "cancel" \in deferred

LEMMA ClosedStep == ClosedInv /\ [LoaderNext]_loaderVars => ClosedInv'
<1> SUFFICES ASSUME ClosedInv, [LoaderNext]_loaderVars PROVE ClosedInv'
  OBVIOUS
<1> USE DEF ClosedInv
<1>1. CASE RefuseScheme \/ Do \/ FetchEnds \/ ReadAllReturns \/ LoadFails
  <2>1. pc' \notin {"idle", "start"} /\ UNCHANGED fetch
    BY <1>1 DEF RefuseScheme, Do, FetchEnds, ReadAllReturns, LoadFails, Finish,
                Proceed
  <2> QED
    BY <2>1 DEF fetch
<1>2. CASE OpenFile
  BY <1>2 DEF OpenFile, Finish, Proceed, past
<1>3. CASE NewRequest
  BY <1>3 DEF NewRequest, Finish, Proceed, source, past
<1>4. CASE DoReturns
  BY <1>4 DEF DoReturns, Finish, Proceed, source, past
<1>5. CASE Return
  BY <1>5 DEF Return, source, past
<1>6. CASE Read \/ Call \/ Tick
  BY <1>6 DEF Read, Call, Tick, source, past
<1>7. CASE Cancel \/ Answer \/ Grow \/ EndStream \/ Rewrite
  BY <1>7 DEF Cancel, Answer, Grow, EndStream, Rewrite, source, fetch, past
<1>8. CASE UNCHANGED loaderVars
  BY <1>8 DEF loaderVars, source, fetch, past
<1> QED
  BY <1>1, <1>2, <1>3, <1>4, <1>5, <1>6, <1>7, <1>8
     DEF LoaderNext, LoaderStep, Arrivals

LEMMA Closed == LoaderSpec => []ClosedInv
<1>1. LoaderInit => ClosedInv
  BY DEF LoaderInit, ClosedInv
<1> QED
  BY <1>1, ClosedStep, PTL DEF LoaderSpec

\* What was opened is closed and the timer released when Load has returned, by
\* whichever return, for the call that does it was deferred when it was opened.
THEOREM LoadLeavesNothingOpen == LoaderSpec => []NothingLeftOpen
<1>1. ClosedInv => NothingLeftOpen
  BY DEF ClosedInv, NothingLeftOpen
<1> QED
  BY <1>1, Closed, PTL

\* A fetch called too late stops at the request.
LateInv ==
  /\ LateFetchFails
  /\ late => cancelled
  /\ late /\ scheme = "https" => pc \notin {"waiting", "reading"}

LEMMA LateStep == LateInv /\ [LoaderNext]_loaderVars => LateInv'
<1> SUFFICES ASSUME LateInv, [LoaderNext]_loaderVars PROVE LateInv'
  OBVIOUS
<1> USE DEF LateInv, LateFetchFails, FailureCauses
<1>1. CASE RefuseScheme
  BY <1>1, FailureFacts DEF RefuseScheme, Finish, source, fetch, past
<1>2. CASE OpenFile
  BY <1>2, FailureFacts DEF OpenFile, Finish, Proceed, source, past
<1>3. CASE NewRequest
  BY <1>3, FailureFacts DEF NewRequest, Finish, Proceed, source, past
<1>4. CASE Do
  BY <1>4, FailureFacts DEF Do, Finish, Proceed, source, fetch, past, Ended
<1>5. CASE DoReturns
  BY <1>5, FailureFacts DEF DoReturns, Finish, Proceed, source, past
<1>6. CASE FetchEnds
  BY <1>6, FailureFacts DEF FetchEnds, Finish, source, fetch, past
<1>7. CASE Read
  BY <1>7 DEF Read, source, past
<1>8. CASE ReadAllReturns
  BY <1>8, FailureFacts, SuccessFacts
     DEF ReadAllReturns, Finish, source, fetch, past
<1>9. CASE Return
  BY <1>9 DEF Return, source, past
<1>10. CASE Call
  BY <1>10, NoResultFacts DEF Call
<1>11. CASE Cancel
  BY <1>11 DEF Cancel, source, fetch, past
<1>12. CASE Answer
  BY <1>12 DEF Answer, fetch, past
<1>13. CASE Grow
  BY <1>13 DEF Grow, fetch, past
<1>14. CASE EndStream
  BY <1>14 DEF EndStream, fetch, past
<1>15. CASE LoadFails
  BY <1>15, FailureFacts DEF LoadFails, Finish, source, fetch, past
<1>16. CASE Tick
  BY <1>16 DEF Tick, source
<1>17. CASE Rewrite
  BY <1>17 DEF Rewrite, fetch, past
<1>18. CASE UNCHANGED loaderVars
  BY <1>18 DEF loaderVars, source, fetch, past
<1> QED
  BY <1>1, <1>2, <1>3, <1>4, <1>5, <1>6, <1>7, <1>8, <1>9, <1>10, <1>11, <1>12,
     <1>13, <1>14, <1>15, <1>16, <1>17, <1>18
     DEF LoaderNext, LoaderStep, Arrivals

\* A fetch called after its context ended never succeeds.
THEOREM LateFetchesFail == LoaderSpec => []LateFetchFails
<1>1. LoaderInit => LateInv
  BY NoResultFacts DEF LoaderInit, LateInv, LateFetchFails
<1> QED
  BY <1>1, LateStep, PTL DEF LoaderSpec, LateInv

\* Without a negative timeout, the deadline comes only with time.
TimeInv ==
  /\ GivenItsTime
  /\ left = 0 /\ settings.timeout >= 0 => waited

LEMMA TimeStep ==
  LoaderTypeOK /\ ClosedInv /\ TimeInv /\ [LoaderNext]_loaderVars => TimeInv'
<1> SUFFICES ASSUME LoaderTypeOK, ClosedInv, TimeInv, [LoaderNext]_loaderVars
             PROVE  TimeInv'
  OBVIOUS
<1>t. settings.timeout \in Int
  BY LoaderAssumption DEF LoaderTypeOK, Settings
<1>a. settings.timeout >= 0 => Deadline(settings.timeout) # 0
  BY <1>t, DeadlineType
<1>b. NoDeadline # 0
  BY LoaderAssumption
<1> USE DEF TimeInv, GivenItsTime, ClosedInv, FailureCauses
<1>1. CASE RefuseScheme
  BY <1>1, FailureFacts DEF RefuseScheme, Finish, source, fetch, past
<1>2. CASE OpenFile
  BY <1>2, FailureFacts DEF OpenFile, Finish, Proceed, source, past
<1>3. CASE NewRequest
  BY <1>3, FailureFacts, <1>a DEF NewRequest, Finish, Proceed, source, past
<1>4. CASE Do
  BY <1>4, FailureFacts DEF Do, Finish, Proceed, source, fetch, past, Ended
<1>5. CASE DoReturns
  BY <1>5, FailureFacts DEF DoReturns, Finish, Proceed, source, past
<1>6. CASE FetchEnds
  BY <1>6, FailureFacts DEF FetchEnds, Finish, source, fetch, past, Ended
<1>7. CASE Read
  BY <1>7 DEF Read, source, past
<1>8. CASE ReadAllReturns
  <2>1. /\ ~Failure("too large").ok /\ Failure("too large").cause = "too large"
        /\ Success(got).bytes = got /\ Success(got).cause = "none"
    BY FailureFacts, SuccessFacts DEF LoaderTypeOK
  <2> QED
    BY <1>8, <2>1 DEF ReadAllReturns, Finish, source, fetch, past
<1>9. CASE Return
  BY <1>9, <1>b DEF Return, source, past
<1>10. CASE Call
  BY <1>10, NoResultFacts, <1>b DEF Call
<1>11. CASE Cancel
  BY <1>11 DEF Cancel, source, fetch, past
<1>12. CASE Answer
  BY <1>12 DEF Answer, fetch, past
<1>13. CASE Grow
  BY <1>13 DEF Grow, fetch, past
<1>14. CASE EndStream
  BY <1>14 DEF EndStream, fetch, past
<1>15. CASE LoadFails
  BY <1>15, FailureFacts DEF LoadFails, Finish, source, fetch, past
<1>16. CASE Tick
  BY <1>16 DEF Tick, source
<1>17. CASE Rewrite
  BY <1>17 DEF Rewrite, fetch, past
<1>18. CASE UNCHANGED loaderVars
  BY <1>18 DEF loaderVars, source, fetch, past
<1> QED
  BY <1>1, <1>2, <1>3, <1>4, <1>5, <1>6, <1>7, <1>8, <1>9, <1>10, <1>11, <1>12,
     <1>13, <1>14, <1>15, <1>16, <1>17, <1>18
     DEF LoaderNext, LoaderStep, Arrivals

\* A fetch no one cancelled is given its time.
THEOREM FetchesAreGivenTime == LoaderSpec => []GivenItsTime
<1>1. LoaderInit => TimeInv
  BY NoResultFacts, LoaderAssumption DEF LoaderInit, TimeInv, GivenItsTime
<1> QED
  BY <1>1, TimeStep, Closed, LoaderTypeCorrect, PTL DEF LoaderSpec, TimeInv
-----------------------------------------------------------------------------
(* The store's promise.                                                    *)

LEMMA SourceNames ==
  /\ S!None = NoResult
  /\ \A cause : S!Error(cause) = Failure(cause)
  /\ \A n : S!Contents(n) = Success(n)
  BY DEF S!None, S!Error, S!Contents, NoResult, Failure, Success

\* Until it returns a load has no result, and after it has one; and each kind
\* of source takes its own way.
PathInv ==
  /\ pc \in {"start", "request", "waiting", "reading"} => result = NoResult
  /\ pc = "closing" => result # NoResult
  /\ pc \in {"request", "waiting"} => scheme = "https"
  /\ pc = "reading" => scheme \in {"file", "pipe", "https"}

LEMMA PathStep ==
  LoaderTypeOK /\ PathInv /\ [LoaderNext]_loaderVars => PathInv'
<1> SUFFICES ASSUME LoaderTypeOK, PathInv, [LoaderNext]_loaderVars
             PROVE  PathInv'
  OBVIOUS
<1>f. \A cause \in FailureCauses \ {"none"} : Failure(cause) # NoResult
  BY FailureFacts, NoResultFacts
<1>s. Success(got) # NoResult
  BY SuccessFacts, NoResultFacts DEF LoaderTypeOK
<1> USE DEF PathInv, FailureCauses
<1>1. CASE RefuseScheme
  BY <1>1, <1>f DEF RefuseScheme, Finish, source, fetch, past
<1>2. CASE OpenFile
  BY <1>2, <1>f DEF OpenFile, Finish, Proceed, source, past
<1>3. CASE NewRequest
  BY <1>3, <1>f DEF NewRequest, Finish, Proceed, source, past
<1>4. CASE Do
  BY <1>4, <1>f DEF Do, Finish, Proceed, source, fetch, past
<1>5. CASE DoReturns
  BY <1>5, <1>f DEF DoReturns, Finish, Proceed, source, past
<1>6. CASE FetchEnds
  BY <1>6, <1>f DEF FetchEnds, Finish, source, fetch, past
<1>7. CASE Read
  BY <1>7 DEF Read, source, past
<1>8. CASE ReadAllReturns
  BY <1>8, <1>f, <1>s
     DEF ReadAllReturns, Finish, source, fetch, past
<1>9. CASE Return
  BY <1>9 DEF Return, source, past
<1>10. CASE Call
  BY <1>10 DEF Call
<1>11. CASE Cancel
  BY <1>11 DEF Cancel, source, fetch, past
<1>12. CASE Answer
  BY <1>12 DEF Answer, fetch, past
<1>13. CASE Grow
  BY <1>13 DEF Grow, fetch, past
<1>14. CASE EndStream
  BY <1>14 DEF EndStream, fetch, past
<1>15. CASE LoadFails
  BY <1>15, <1>f DEF LoadFails, Finish, source, fetch, past
<1>16. CASE Tick
  BY <1>16 DEF Tick, source
<1>17. CASE Rewrite
  BY <1>17 DEF Rewrite, fetch, past
<1>18. CASE UNCHANGED loaderVars
  BY <1>18 DEF loaderVars, source, fetch, past
<1> QED
  BY <1>1, <1>2, <1>3, <1>4, <1>5, <1>6, <1>7, <1>8, <1>9, <1>10, <1>11, <1>12,
     <1>13, <1>14, <1>15, <1>16, <1>17, <1>18
     DEF LoaderNext, LoaderStep, Arrivals

LEMMA PathKept == LoaderSpec => []PathInv
<1>1. LoaderInit => PathInv
  BY DEF LoaderInit, PathInv
<1> QED
  BY <1>1, PathStep, LoaderTypeCorrect, PTL DEF LoaderSpec

LEMMA SourceStep ==
  ASSUME \A l \in Limits : l < MaxInt,
         LoaderTypeOK, WholeInv, PathInv, PathInv', WholeInv',
         [LoaderNext]_loaderVars
  PROVE  [S!SourceNext]_(S!sourceVars)
<1> USE DEF S!sourceVars, PathInv
<1>m. settings.maxBytes < MaxInt
  BY DEF LoaderTypeOK, Settings
<1>g. ASSUME result = NoResult, pc # "idle", pc' = "closing", scheme' = scheme,
             whole' = whole, cancelled' = cancelled, written' = written,
             \/ \E n \in IF written THEN 0..MaxLen ELSE whole : result' = Success(n) /\ scheme # "other"
             \/ \E cause \in S!Causes(scheme) : result' = Failure(cause)
      PROVE  S!SourceNext
  BY <1>g, SourceNames DEF S!SourceNext, S!Give
<1>q. ASSUME pc # "idle", pc' # "idle",
             UNCHANGED <<scheme, whole, written, cancelled, result>>
      PROVE  UNCHANGED S!sourceVars
  BY <1>q
<1>1. CASE RefuseScheme
  BY <1>1, <1>g DEF RefuseScheme, Finish, source, S!Causes
<1>2. CASE OpenFile
  <2>1. CASE Finish(Failure("open"))
    BY <1>2, <2>1, <1>g DEF OpenFile, Finish, Proceed, S!Causes
  <2>2. CASE Proceed("reading") /\ written' = TRUE
    BY <1>2, <2>2 DEF OpenFile, Proceed, S!SourceNext, S!Write
  <2>3. CASE Proceed("reading") /\ written' = FALSE
    BY <1>2, <2>3, <1>q DEF OpenFile, Proceed, WholeInv, LoaderTypeOK
  <2> QED
    BY <1>2, <2>1, <2>2, <2>3 DEF OpenFile
<1>3. CASE NewRequest
  BY <1>3, <1>g, <1>q DEF NewRequest, Finish, Proceed, source, S!Causes
<1>4. CASE Do
  BY <1>4, <1>g, <1>q DEF Do, Finish, Proceed, source, S!Causes
<1>5. CASE DoReturns
  BY <1>5, <1>g, <1>q DEF DoReturns, Finish, Proceed, source, S!Causes
<1>6. CASE FetchEnds
  BY <1>6, <1>g DEF FetchEnds, Finish, source, S!Causes
<1>7. CASE Read
  BY <1>7, <1>q DEF Read, source
<1>8. CASE ReadAllReturns
  <2>1. /\ result = NoResult /\ pc # "idle" /\ pc' = "closing"
        /\ scheme' = scheme /\ whole' = whole /\ cancelled' = cancelled
        /\ scheme \in {"file", "pipe", "https"} /\ written' = written
        /\ result' \in {Failure("too large"), Success(got)}
    BY <1>8 DEF ReadAllReturns, Finish, source
  <2>2. CASE result' = Failure("too large")
    BY <2>1, <2>2, <1>g DEF S!Causes
  <2>3. CASE result' = Success(got)
    <3>1. result'.ok /\ result'.bytes = got
      BY <2>3, SuccessFacts DEF LoaderTypeOK
    <3>2. settings' = settings
      BY <1>8 DEF ReadAllReturns
    <3>3. got \in IF written THEN 0..MaxLen ELSE whole
      BY <3>1, <3>2, <2>1, <1>m DEF WholeInv, LoadedWhole, LoaderTypeOK
    <3> QED
      BY <2>1, <2>3, <3>3, <1>g
  <2> QED
    BY <2>1, <2>2, <2>3
<1>9. CASE Return
  BY <1>9, SourceNames DEF Return, source, S!SourceNext, S!Finished
<1>10. CASE Call
  BY <1>10, SourceNames DEF Call, Schemes, S!SourceNext, S!Begin
<1>11. CASE Cancel
  BY <1>11 DEF Cancel, source, S!SourceNext, S!EndContext
<1>12. CASE Answer
  BY <1>12, <1>q DEF Answer
<1>13. CASE Grow
  BY <1>13, <1>q DEF Grow
<1>14. CASE EndStream
  BY <1>14 DEF EndStream, LoaderTypeOK, S!SourceNext, S!Hold
<1>15. CASE LoadFails
  BY <1>15, <1>g DEF LoadFails, Finish, source, S!Causes
<1>16. CASE Tick
  BY <1>16 DEF Tick, source
<1>17. CASE Rewrite
  <2>1. CASE pc = "reading"
    BY <1>17, <2>1 DEF Rewrite, S!SourceNext, S!Write
  <2>2. CASE pc # "reading"
    BY <1>17, <2>2, <1>q DEF Rewrite, LoaderTypeOK
  <2> QED
    BY <2>1, <2>2
<1>18. CASE UNCHANGED loaderVars
  BY <1>18 DEF loaderVars
<1> QED
  BY <1>1, <1>2, <1>3, <1>4, <1>5, <1>6, <1>7, <1>8, <1>9, <1>10, <1>11, <1>12,
     <1>13, <1>14, <1>15, <1>16, <1>17, <1>18
     DEF LoaderNext, LoaderStep, Arrivals

\* Load keeps the promise that the store relies on, unless -max-bytes can be
\* the largest integer.
THEOREM LoaderImplementsSource ==
  ASSUME \A l \in Limits : l < MaxInt
  PROVE  LoaderSpec => SourceSpec
<1>1. LoaderInit => S!SourceInit
  BY SourceNames DEF LoaderInit, S!SourceInit
<1>2. LoaderSpec => []WholeInv
  <2>1. LoaderInit => WholeInv
    BY NoResultFacts DEF LoaderInit, WholeInv, LoadedWhole
  <2> QED
    BY <2>1, WholeStep, LoaderTypeCorrect, PTL DEF LoaderSpec
<1>3. LoaderTypeOK /\ WholeInv /\ PathInv /\ PathInv' /\ WholeInv'
        /\ [LoaderNext]_loaderVars => [S!SourceNext]_(S!sourceVars)
  BY SourceStep
<1> QED
  BY <1>1, <1>2, <1>3, LoaderTypeCorrect, PathKept, PTL
     DEF LoaderSpec, SourceSpec, S!SourceSpec
-----------------------------------------------------------------------------
(* A load is done in time.                                                 *)

\* While an answer is awaited or read, the deadline is set.
THEOREM FetchesAreTimed == LoaderSpec => []FetchIsTimed
<1>1. LoaderInit => FetchIsTimed
  BY DEF LoaderInit, FetchIsTimed
<1>2. LoaderTypeOK /\ PathInv /\ FetchIsTimed /\ [LoaderNext]_loaderVars
        => FetchIsTimed'
  <2> SUFFICES ASSUME LoaderTypeOK, PathInv, FetchIsTimed,
                      [LoaderNext]_loaderVars
               PROVE  FetchIsTimed'
    OBVIOUS
  <2>t. settings.timeout \in Int
    BY LoaderAssumption DEF LoaderTypeOK, Settings
  <2> USE DEF FetchIsTimed, PathInv
  <2>1. CASE NewRequest
    BY <2>1, <2>t, DeadlineType DEF NewRequest, Finish, Proceed, source, past
  <2>2. CASE Tick
    BY <2>2 DEF LoaderTypeOK, Tick, source
  <2>3. CASE RefuseScheme \/ OpenFile \/ Do \/ DoReturns \/ FetchEnds \/ LoadFails
    BY <2>3 DEF RefuseScheme, OpenFile, Do, DoReturns, FetchEnds, LoadFails,
                Finish, Proceed, source, fetch, past
  <2>4. CASE Read \/ ReadAllReturns \/ Return \/ Call
    BY <2>4 DEF Read, ReadAllReturns, Return, Call, Finish, source, fetch, past
  <2>5. CASE Cancel \/ Answer \/ Grow \/ EndStream \/ Rewrite
    BY <2>5 DEF Cancel, Answer, Grow, EndStream, Rewrite, source, fetch, past
  <2>6. CASE UNCHANGED loaderVars
    BY <2>6 DEF loaderVars, source, fetch, past
  <2> QED
    BY <2>1, <2>2, <2>3, <2>4, <2>5, <2>6 DEF LoaderNext, LoaderStep, Arrivals
<1> QED
  BY <1>1, <1>2, LoaderTypeCorrect, PathKept, PTL DEF LoaderSpec

LEMMA LimitKept == [LoaderNext]_loaderVars => Limit' = Limit
<1>1. [LoaderNext]_loaderVars => settings' = settings
  BY DEF LoaderNext, LoaderStep, Arrivals, RefuseScheme, OpenFile, NewRequest,
         Do, DoReturns, FetchEnds, Read, ReadAllReturns, Return, Call, Cancel,
         Answer, Grow, EndStream, Rewrite, LoadFails, Tick, loaderVars
<1> QED
  BY <1>1 DEF Limit

\* A step of the load goes on to a later place, or reads.
LEMMA OwnStepGoesOn ==
  ASSUME LoaderTypeOK, LoaderStep
  PROVE  /\ pc # "idle"
         /\ \/ pc' = "idle"
            \/ pc' # "idle" /\ got' = got /\ Ahead[pc'] < Ahead[pc]
            \/ pc' = pc /\ got' > got
<1> USE DEF Ahead, Finish, Proceed
<1>1. CASE RefuseScheme \/ OpenFile \/ NewRequest
  BY <1>1 DEF RefuseScheme, OpenFile, NewRequest, fetch
<1>2. CASE Do \/ DoReturns \/ FetchEnds
  BY <1>2 DEF Do, DoReturns, FetchEnds, fetch
<1>3. CASE Read
  BY <1>3 DEF LoaderTypeOK, Read
<1>4. CASE ReadAllReturns
  <2>1. pc = "reading" /\ pc' = "closing" /\ got' = got
    BY <1>4 DEF ReadAllReturns, fetch
  <2> QED
    BY <2>1
<1>5. CASE Return
  BY <1>5 DEF Return
<1> QED
  BY <1>1, <1>2, <1>3, <1>4, <1>5 DEF LoaderStep

\* What happens around the load leaves it where it is, or ends it.
LEMMA SurroundingsDoNotSetBack ==
  ASSUME pc # "idle", Arrivals \/ Tick \/ UNCHANGED loaderVars
  PROVE  /\ pc' # "idle" /\ got' = got
         /\ pc' = pc \/ Ahead[pc'] < Ahead[pc]
<1>1. CASE Cancel \/ Answer \/ Grow \/ EndStream \/ Rewrite \/ Tick
  BY <1>1 DEF Cancel, Answer, Grow, EndStream, Rewrite, Tick, fetch
<1>2. CASE LoadFails
  BY <1>2 DEF LoadFails, Finish, fetch, Ahead
<1>3. CASE Call
  BY <1>3 DEF Call
<1>4. CASE UNCHANGED loaderVars
  BY <1>4 DEF loaderVars
<1> QED
  BY <1>1, <1>2, <1>3, <1>4 DEF Arrivals

\* A load takes at most five steps of its own and one for each byte up to the
\* one past its limit, whatever the source does: with the deadline above, all
\* that fairness has to add is that time passes and the goroutine runs.
THEOREM LoadsMoveOn == LoaderSpec => LoadMovesOn
<1> DEFINE Moves == pc # "idle" =>
                      /\ StepsLeft' <= StepsLeft
                      /\ LoaderStep => StepsLeft' \in 0..(StepsLeft - 1)
<1>1. ASSUME LoaderTypeOK, LoaderTypeOK', ReadIsBounded, ReadIsBounded',
             [LoaderNext]_loaderVars
      PROVE  Moves
  <2> SUFFICES ASSUME pc # "idle"
               PROVE  /\ StepsLeft' <= StepsLeft
                      /\ LoaderStep => StepsLeft' \in 0..(StepsLeft - 1)
    OBVIOUS
  <2>1. /\ Limit \in Nat /\ Limit' = Limit
        /\ got \in Nat /\ got <= Limit + 1
        /\ got' \in Nat /\ got' <= Limit + 1
    BY <1>1, LimitFacts, LimitKept DEF LoaderTypeOK, ReadIsBounded
  <2>2. /\ Ahead[pc] \in 1..5 /\ Ahead[pc'] \in 0..5
        /\ pc' # "idle" => Ahead[pc'] \in 1..5
    BY <1>1 DEF LoaderTypeOK, Places, Ahead
  <2>3. /\ StepsLeft = Ahead[pc] + Limit + 1 - got
        /\ pc' = "idle" => StepsLeft' = 0
        /\ pc' # "idle" => StepsLeft' = Ahead[pc'] + Limit + 1 - got'
    BY <2>1 DEF StepsLeft
  <2>4. LoaderStep => StepsLeft' \in 0..(StepsLeft - 1)
    BY <1>1, <2>1, <2>2, <2>3, OwnStepGoesOn
  <2>5. ~LoaderStep => StepsLeft' <= StepsLeft
    BY <1>1, <2>1, <2>2, <2>3, SurroundingsDoNotSetBack DEF LoaderNext
  <2> QED
    BY <2>1, <2>2, <2>3, <2>4, <2>5
<1> HIDE DEF Moves
<1>2. LoaderTypeOK /\ LoaderTypeOK' /\ ReadIsBounded /\ ReadIsBounded'
      /\ [LoaderNext]_loaderVars
        => [Moves]_loaderVars
  BY <1>1
<1> QED
  BY <1>2, LoaderTypeCorrect, LoadReadsLittle, PTL
     DEF LoaderSpec, LoadMovesOn, Moves
=============================================================================

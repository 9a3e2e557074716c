------------------------ MODULE CircuitBreakerProofs ------------------------
(***************************************************************************)
(* Proofs, for every set of readings, every pair of limits and every number *)
(* of days, that the breaker's invariants hold: type correctness, the       *)
(* lockout, the daily limit and the survival flag, and the two action       *)
(* properties of its files.                                                 *)
(***************************************************************************)
EXTENDS CircuitBreaker, TLAPS

\* The operation in progress still has job j to do.
HasJob(s, j) == \E i \in DOMAIN s : s[i] = j
Owes(j)      == HasJob(todo, j)

\* An armed breaker owes no lockout, and no lockout of its date is on disk.
LockoutInv ==
    /\ LockoutHolds
    /\ Owes("lockout") => bstate # "ARMED"

\* An armed breaker's equity is inside the limit, or its check comes next.
DailyInv ==
    up /\ bstate = "ARMED" /\ start > 0 /\ equity > 0 =>
        \/ ~DailyBreach(start, equity)
        \/ /\ probe = equity
           /\ todo \in {<<"check">>, <<"peak", "limits">>, <<"limits">>}

\* A flag on disk, or on its way there, came from a positive equity, and only
\* an acknowledged process is armed over it.
SurvivalInv ==
    /\ SurvivalOnDisk => survEquity > 0
    /\ up /\ SurvivalOnDisk /\ bstate = "ARMED" => ackEquity > 0
    /\ Owes("peakSurv") => bstate # "ARMED" /\ survEquity > 0

\* Memory agrees with the files of the session.
FilesInv ==
    /\ baselineF.kind = "ok" => baselineF.value > 0
    /\ Owes("baseline") => start > 0
    /\ up /\ baselineF.kind = "ok" /\ baselineF.date = session => start = baselineF.value
    /\ up /\ peakF.kind = "ok" => peak >= peakF.value

IInv == TypeOK /\ LockoutInv /\ DailyInv /\ SurvivalInv /\ FilesInv

-----------------------------------------------------------------------------
USE ReadingsAssumption, LimitsAssumption

\* What the file operations may leave on disk has the type of a file.
LEMMA FileTypes ==
    /\ Absent \in FileType /\ Torn \in FileType
    /\ TypeOK => /\ LockoutPayload \in FileType
                 /\ BaselinePayload \in FileType
                 /\ \A s \in BOOLEAN : PeakPayload(s) \in FileType
  <1>1. Absent \in FileType /\ Torn \in FileType
    BY DEF FileType, Absent, Torn, Kinds
  <1>2. ASSUME TypeOK
        PROVE  LockoutPayload \in FileType /\ BaselinePayload \in FileType
    BY <1>2 DEF FileType, Saved, Kinds, TypeOK, Days, LockoutPayload, BaselinePayload
  <1>3. ASSUME TypeOK, NEW s \in BOOLEAN
        PROVE  PeakPayload(s) \in FileType
    BY <1>3 DEF FileType, Saved, Kinds, TypeOK, PeakPayload
  <1> QED
    BY <1>1, <1>2, <1>3

\* The jobs of the lists the operations start with.
LEMMA JobLists ==
    ASSUME NEW a \in Jobs, NEW b \in Jobs
    PROVE  /\ <<>> \in Seq(Jobs) /\ <<a>> \in Seq(Jobs) /\ <<a, b>> \in Seq(Jobs)
           /\ \A j : ~HasJob(<<>>, j)
           /\ \A j : HasJob(<<a>>, j) <=> j = a
           /\ \A j : HasJob(<<a, b>>, j) <=> j = a \/ j = b
  <1>1. \A j : ~HasJob(<<>>, j)
    BY DEF HasJob
  <1>2. \A j : HasJob(<<a>>, j) <=> j = a
    BY DEF HasJob
  <1>3. \A j : HasJob(<<a, b>>, j) <=> j = a \/ j = b
    <2>1. DOMAIN <<a, b>> = {1, 2} /\ <<a, b>>[1] = a /\ <<a, b>>[2] = b
      OBVIOUS
    <2> QED
      BY <2>1 DEF HasJob
  <1> QED
    BY <1>1, <1>2, <1>3

\* Taking a job off the list adds none.
LEMMA TailJobs ==
    ASSUME NEW s \in Seq(Jobs), s # <<>>
    PROVE  /\ Head(s) \in Jobs /\ Tail(s) \in Seq(Jobs)
           /\ HasJob(s, Head(s))
           /\ \A j : HasJob(Tail(s), j) => HasJob(s, j)
  <1>1. 1 \in DOMAIN s /\ s[1] = Head(s)
    OBVIOUS
  <1>2. \A i \in DOMAIN Tail(s) : i + 1 \in DOMAIN s /\ Tail(s)[i] = s[i + 1]
    OBVIOUS
  <1> QED
    BY <1>1, <1>2 DEF HasJob

\* The quarantine count is a record of naturals.
LEMMA HeldType ==
    ASSUME TypeOK, NEW e \in Readings
    PROVE  Held(e) \in [value : Nat, n : Nat]
  BY DEF Held, TypeOK

\* What the limits leave to do, and when they leave the breaker armed.
LEMMA LimitJobs ==
    ASSUME TypeOK, CheckLimits
    PROVE  /\ todo' \in Seq(Jobs)
           /\ bstate' = "ARMED" => todo' = <<>> /\ ~DailyTrip /\ ~SurvivalTrip
           /\ ~Owes("baseline")'
           /\ Owes("peakSurv")' => survEquity' = probe /\ probe > 0
  <1>1. /\ SurvivalTrip => survEquity' = probe /\ probe > 0
        /\ bstate' = "ARMED" => ~DailyTrip /\ ~SurvivalTrip
    BY DEF CheckLimits, SurvivalTrip
  <1>2. \/ todo' = <<>>
        \/ todo' = <<"lockout">> /\ DailyTrip
        \/ todo' = <<"lockout", "peakSurv">> /\ SurvivalTrip
        \/ todo' = <<"peakSurv", "lockout">> /\ SurvivalTrip
    BY DEF CheckLimits, TripJobs
  <1>3. bstate' = "ARMED" => todo' = <<>>
    BY <1>1 DEF CheckLimits, TripJobs
  <1>4. /\ <<>> \in Seq(Jobs) /\ <<"lockout">> \in Seq(Jobs)
        /\ <<"lockout", "peakSurv">> \in Seq(Jobs)
        /\ <<"peakSurv", "lockout">> \in Seq(Jobs)
        /\ \A j : ~HasJob(<<>>, j)
        /\ \A j : HasJob(<<"lockout">>, j) <=> j = "lockout"
        /\ \A j : HasJob(<<"lockout", "peakSurv">>, j) <=> j \in {"lockout", "peakSurv"}
        /\ \A j : HasJob(<<"peakSurv", "lockout">>, j) <=> j \in {"lockout", "peakSurv"}
    <2>1. "lockout" \in Jobs /\ "peakSurv" \in Jobs
      BY DEF Jobs
    <2>2. ASSUME NEW a \in Jobs, NEW b \in Jobs
          PROVE  /\ <<>> \in Seq(Jobs) /\ <<a>> \in Seq(Jobs) /\ <<a, b>> \in Seq(Jobs)
                 /\ \A j : ~HasJob(<<>>, j)
                 /\ \A j : HasJob(<<a>>, j) <=> j = a
                 /\ \A j : HasJob(<<a, b>>, j) <=> j \in {a, b}
      BY JobLists
    <2>3. /\ <<>> \in Seq(Jobs) /\ <<"lockout">> \in Seq(Jobs)
          /\ <<"lockout", "peakSurv">> \in Seq(Jobs)
          /\ \A j : ~HasJob(<<>>, j)
          /\ \A j : HasJob(<<"lockout">>, j) <=> j = "lockout"
          /\ \A j : HasJob(<<"lockout", "peakSurv">>, j) <=> j \in {"lockout", "peakSurv"}
      BY <2>1, <2>2
    <2>4. /\ <<"peakSurv", "lockout">> \in Seq(Jobs)
          /\ \A j : HasJob(<<"peakSurv", "lockout">>, j) <=> j \in {"lockout", "peakSurv"}
      <3>1. DOMAIN <<"peakSurv", "lockout">> = {1, 2}
        OBVIOUS
      <3> QED
        BY <2>1, <3>1 DEF HasJob
    <2> QED
      BY <2>3, <2>4
  <1>5. /\ todo' \in Seq(Jobs)
        /\ ~HasJob(todo', "baseline")
        /\ HasJob(todo', "peakSurv") => SurvivalTrip
    <2>1. CASE todo' = <<>>
      BY <2>1, <1>4
    <2>2. CASE todo' = <<"lockout">>
      BY <2>2, <1>4
    <2>3. CASE todo' = <<"lockout", "peakSurv">> /\ SurvivalTrip
      BY <2>3, <1>4
    <2>4. CASE todo' = <<"peakSurv", "lockout">> /\ SurvivalTrip
      BY <2>4, <1>4
    <2> QED
      BY <1>2, <2>1, <2>2, <2>3, <2>4
  <1> QED
    BY <1>1, <1>3, <1>5 DEF Owes

-----------------------------------------------------------------------------
(* Type correctness. *)

LEMMA TypeInit == Init => TypeOK
  <1> SUFFICES ASSUME Init
               PROVE  TypeOK
    OBVIOUS
  <1>1. lockoutF \in FileType /\ baselineF \in FileType /\ peakF \in FileType
    BY FileTypes DEF Init
  <1>2. day \in Days /\ session \in Days
    BY DEF Init, Days
  <1>3. pending \in [value : Nat, n : Nat] /\ todo \in Seq(Jobs)
    BY DEF Init, NoPending
  <1>4. reason \in Causes
    BY DEF Init, Causes
  <1> QED
    BY <1>1, <1>2, <1>3, <1>4 DEF Init, TypeOK

LEMMA TypeStep == TypeOK /\ [Next]_vars => TypeOK'
  <1> SUFFICES ASSUME TypeOK, [Next]_vars
               PROVE  TypeOK'
    OBVIOUS
  <1> USE DEF TypeOK, disk, history, governor
  <1>1. ASSUME NEW ack \in BOOLEAN, Boot(ack)
        PROVE  TypeOK'
    <2>1. todo' \in Seq(Jobs)
      BY <1>1, JobLists DEF Boot, Jobs
    <2>2. start' \in Nat /\ peak' \in Nat
      BY <1>1 DEF Boot, FileType
    <2>3. ackEquity' \in Nat /\ survOwed' \in BOOLEAN /\ pending' \in [value : Nat, n : Nat]
      BY <1>1 DEF Boot, NoPending
    <2>4. reason' \in Causes /\ bstate' \in {"ARMED", "TRIPPED", "LOCKED"}
      BY <1>1 DEF Boot, Restored, Causes
    <2> QED
      BY <1>1, <2>1, <2>2, <2>3, <2>4 DEF Boot, Restored
  <1>2. CASE NonPositiveReading
    BY <1>2 DEF NonPositiveReading, CheckOnly, Jobs
  <1>3. ASSUME NEW e \in Readings, QuarantineReading(e)
        PROVE  TypeOK'
    BY <1>3, HeldType DEF QuarantineReading, CheckOnly, Jobs
  <1>4. ASSUME NEW e \in Readings, FarFirstReading(e)
        PROVE  TypeOK'
    BY <1>4 DEF FarFirstReading, CheckOnly, Jobs
  <1>5. ASSUME NEW e \in Readings, AcceptReading(e)
        PROVE  TypeOK'
    <2>1. todo' \in Seq(Jobs)
      BY <1>5, JobLists DEF AcceptReading, Jobs
    <2>2. pending' \in [value : Nat, n : Nat]
      BY <1>5 DEF AcceptReading, NoPending
    <2>3. start' \in Nat /\ equity' \in Nat /\ probe' \in Nat
      BY <1>5 DEF AcceptReading
    <2> QED
      BY <1>5, <2>1, <2>2, <2>3 DEF AcceptReading
  <1>6. CASE CheckPeak
    <2>1. todo' \in Seq(Jobs)
      BY <1>6, JobLists DEF CheckPeak, Jobs
    <2> QED
      BY <1>6, <2>1 DEF CheckPeak
  <1>7. CASE CheckLimits
    <2>1. todo' \in Seq(Jobs)
      BY <1>7, LimitJobs
    <2>2. reason' \in Causes /\ bstate' \in {"ARMED", "TRIPPED", "LOCKED"}
      BY <1>7 DEF CheckLimits, Causes
    <2>3. survEquity' \in Nat
      BY <1>7 DEF CheckLimits
    <2> QED
      BY <1>7, <2>1, <2>2, <2>3 DEF CheckLimits
  <1>8. CASE Trip
    <2>1. todo' \in Seq(Jobs)
      BY <1>8, JobLists DEF Trip, Jobs
    <2> QED
      BY <1>8, <2>1 DEF Trip, Causes
  <1>14. CASE ConfirmFlat
    BY <1>14 DEF ConfirmFlat
  <1>9. CASE Write
    <2>1. todo' \in Seq(Jobs)
      BY <1>9, TailJobs DEF Write
    <2>2. lockoutF' \in FileType /\ baselineF' \in FileType /\ peakF' \in FileType
      BY <1>9, FileTypes DEF Write, Put
    <2>3. survOwed' \in BOOLEAN
      BY <1>9 DEF Write
    <2> QED
      BY <1>9, <2>1, <2>2, <2>3 DEF Write
  <1>10. CASE WriteFails
    <2>1. todo' \in Seq(Jobs)
      BY <1>10, TailJobs, JobLists DEF WriteFails
    <2>2. lockoutF' \in FileType /\ baselineF' \in FileType /\ peakF' \in FileType
      BY <1>10, FileTypes DEF WriteFails, Put
    <2> QED
      BY <1>10, <2>1, <2>2 DEF WriteFails
  <1>11. CASE Crash
    <2>1. lockoutF' \in FileType /\ baselineF' \in FileType /\ peakF' \in FileType
      BY <1>11, FileTypes DEF Crash, Put
    <2>2. pending' \in [value : Nat, n : Nat] /\ todo' \in Seq(Jobs) /\ reason' \in Causes
      BY <1>11 DEF Crash, NoPending, Causes
    <2> QED
      BY <1>11, <2>1, <2>2 DEF Crash
  <1>12. CASE NextDay
    BY <1>12 DEF NextDay, memory, Days
  <1>13. CASE UNCHANGED vars
    BY <1>13 DEF vars, memory
  <1> QED
    BY <1>1, <1>2, <1>3, <1>4, <1>5, <1>6, <1>7, <1>8, <1>9, <1>10, <1>11, <1>12,
       <1>13, <1>14 DEF Next

\* Every variable keeps its type: the memory, the files and the work in progress.
THEOREM TypeCorrect == Spec => []TypeOK
  BY TypeInit, TypeStep, PTL DEF Spec

-----------------------------------------------------------------------------
(* The lockout and the daily limit. *)

LEMMA LockoutStep == TypeOK /\ LockoutInv /\ [Next]_vars => LockoutInv'
  <1> SUFFICES ASSUME TypeOK, LockoutInv, [Next]_vars
               PROVE  LockoutInv'
    OBVIOUS
  <1> USE DEF LockoutInv, LockoutHolds, Owes
  <1>0. /\ ~HasJob(<<>>, "lockout") /\ ~HasJob(<<"check">>, "lockout")
        /\ ~HasJob(<<"limits">>, "lockout") /\ ~HasJob(<<"peak">>, "lockout")
        /\ ~HasJob(<<"peak", "limits">>, "lockout")
        /\ ~HasJob(<<"baseline", "check">>, "lockout")
    BY JobLists DEF Jobs
  <1>1. ASSUME NEW ack \in BOOLEAN, Boot(ack)
        PROVE  LockoutInv'
    BY <1>0, <1>1 DEF Boot, Restored, LockedByLockout, disk
  <1>2. ASSUME NEW e, CheckOnly(e)
        PROVE  LockoutInv'
    BY <1>0, <1>2 DEF CheckOnly, disk
  <1>3. ASSUME NEW e \in Readings, AcceptReading(e)
        PROVE  LockoutInv'
    BY <1>0, <1>3 DEF AcceptReading, disk
  <1>4. CASE CheckPeak
    BY <1>0, <1>4 DEF CheckPeak, disk
  <1>5. CASE CheckLimits
    <2>1. bstate' = "ARMED" => bstate = "ARMED" /\ todo' = <<>>
      BY <1>5, LimitJobs DEF CheckLimits
    <2> QED
      BY <1>0, <1>5, <2>1 DEF CheckLimits, disk
  <1>6. CASE Trip \/ ConfirmFlat
    BY <1>6 DEF Trip, ConfirmFlat, disk
  <1>7. CASE Write
    <2>1. HasJob(todo, Head(todo)) /\ \A j : HasJob(todo', j) => HasJob(todo, j)
      BY <1>7, TailJobs DEF Write, TypeOK
    <2>2. CASE Head(todo) = "lockout"
      BY <1>7, <2>1, <2>2 DEF Write, Put
    <2>3. CASE Head(todo) # "lockout"
      BY <1>7, <2>1, <2>3 DEF Write, Put
    <2> QED
      BY <2>2, <2>3
  <1>8. CASE WriteFails
    <2>1. \A j : HasJob(todo', j) => HasJob(todo, j)
      BY <1>8, TailJobs, JobLists DEF WriteFails, TypeOK
    <2>2. lockoutF' = lockoutF \/ lockoutF'.kind = "torn"
      BY <1>8 DEF WriteFails, Put, disk, Torn
    <2> QED
      BY <1>8, <2>1, <2>2 DEF WriteFails
  <1>9. CASE Crash
    BY <1>0, <1>9 DEF Crash
  <1>10. CASE NextDay
    BY <1>10 DEF NextDay, memory, disk
  <1>11. CASE UNCHANGED vars
    BY <1>11 DEF vars, memory, disk
  <1> QED
    BY <1>1, <1>2, <1>3, <1>4, <1>5, <1>6, <1>7, <1>8, <1>9, <1>10, <1>11
    DEF Next, NonPositiveReading, QuarantineReading, FarFirstReading

\* An equity equal to the baseline is inside any daily limit.
LEMMA NoLoss ==
    ASSUME NEW e \in Nat, e > 0
    PROVE  ~DailyBreach(e, e)
  <1>1. DailyLossPct * e > 0
    BY SMT
  <1>2. 100 * (e - e) = 0
    OBVIOUS
  <1> QED
    BY <1>1, <1>2 DEF DailyBreach

LEMMA DailyStep == TypeOK /\ DailyInv /\ [Next]_vars => DailyInv'
  <1> SUFFICES ASSUME TypeOK, DailyInv, [Next]_vars
               PROVE  DailyInv'
    OBVIOUS
  <1> USE DEF DailyInv, governor
  <1>1. ASSUME NEW ack \in BOOLEAN, Boot(ack)
        PROVE  DailyInv'
    BY <1>1 DEF Boot, Restored
  <1>2. CASE NonPositiveReading \/ \E e \in Readings : QuarantineReading(e)
    BY <1>2 DEF NonPositiveReading, QuarantineReading, CheckOnly, Idle
  <1>3. ASSUME NEW e \in Readings, FarFirstReading(e)
        PROVE  DailyInv'
    BY <1>3 DEF FarFirstReading, FarFirst, CheckOnly
  <1>4. ASSUME NEW e \in Readings, AcceptReading(e)
        PROVE  DailyInv'
    <2>1. CASE start = 0
      BY <1>4, <2>1, NoLoss DEF AcceptReading, DailyBreach
    <2>2. CASE start # 0
      BY <1>4, <2>2 DEF AcceptReading
    <2> QED
      BY <2>1, <2>2
  <1>5. CASE CheckPeak
    BY <1>5 DEF CheckPeak, DailyBreach
  <1>6. CASE CheckLimits
    <2>1. bstate' = "ARMED" => bstate = "ARMED" /\ ~DailyTrip
      BY <1>6, LimitJobs DEF CheckLimits
    <2> QED
      BY <1>6, <2>1 DEF CheckLimits, DailyTrip, Watching, DailyBreach
  <1>7. CASE Trip \/ ConfirmFlat
    BY <1>7 DEF Trip, ConfirmFlat
  <1>8. CASE Write \/ WriteFails
    <2>1. todo = <<"peak", "limits">> => Head(todo) = "peak" /\ Tail(todo) = <<"limits">>
      OBVIOUS
    <2>2. todo # <<"check">> /\ todo # <<"limits">>
      BY <1>8 DEF Write, WriteFails, Writes
    <2>3. todo = <<"peak", "limits">> => todo' = <<"limits">>
      BY <1>8, <2>1 DEF Write, WriteFails
    <2> QED
      BY <1>8, <2>2, <2>3 DEF Write, WriteFails, DailyBreach
  <1>9. CASE Crash
    BY <1>9 DEF Crash
  <1>10. CASE NextDay \/ UNCHANGED vars
    BY <1>10 DEF NextDay, vars, memory, DailyBreach
  <1> QED
    BY <1>1, <1>2, <1>3, <1>4, <1>5, <1>6, <1>7, <1>8, <1>9, <1>10 DEF Next

\* A lockout on disk binds every process of its date, across every crash,
\* restart and disk fault.
THEOREM LockoutTheorem == Spec => []LockoutHolds
  <1>1. Init => LockoutInv
    BY JobLists DEF Init, LockoutInv, LockoutHolds, Owes, Jobs
  <1>2. LockoutInv => LockoutHolds
    BY DEF LockoutInv
  <1> QED
    BY <1>1, <1>2, TypeCorrect, LockoutStep, PTL DEF Spec

\* Between operations an armed breaker's accepted equity is inside the limit.
THEOREM DailyLimitTheorem == Spec => []ArmedWithinDailyLimit
  <1>1. Init => DailyInv
    BY DEF Init, DailyInv
  <1>2. DailyInv => ArmedWithinDailyLimit
    BY DEF DailyInv, ArmedWithinDailyLimit, Idle
  <1> QED
    BY <1>1, <1>2, TypeCorrect, DailyStep, PTL DEF Spec

-----------------------------------------------------------------------------
(* The survival flag and the files. *)

LEMMA SurvivalStep == TypeOK /\ SurvivalInv /\ [Next]_vars => SurvivalInv'
  <1> SUFFICES ASSUME TypeOK, SurvivalInv, [Next]_vars
               PROVE  SurvivalInv'
    OBVIOUS
  <1> USE DEF SurvivalInv, SurvivalOnDisk, Owes
  <1>0. /\ ~HasJob(<<>>, "peakSurv") /\ ~HasJob(<<"check">>, "peakSurv")
        /\ ~HasJob(<<"limits">>, "peakSurv") /\ ~HasJob(<<"peak">>, "peakSurv")
        /\ ~HasJob(<<"lockout">>, "peakSurv") /\ ~HasJob(<<"peak", "limits">>, "peakSurv")
        /\ ~HasJob(<<"baseline", "check">>, "peakSurv")
    BY JobLists DEF Jobs
  <1>1. ASSUME NEW ack \in BOOLEAN, Boot(ack)
        PROVE  SurvivalInv'
    BY <1>0, <1>1 DEF Boot, Restored, disk
  <1>2. ASSUME NEW e, CheckOnly(e)
        PROVE  SurvivalInv'
    BY <1>0, <1>2 DEF CheckOnly, disk, history
  <1>3. ASSUME NEW e \in Readings, AcceptReading(e)
        PROVE  SurvivalInv'
    BY <1>0, <1>3 DEF AcceptReading, disk, history
  <1>4. CASE CheckPeak
    BY <1>0, <1>4 DEF CheckPeak, disk, history
  <1>5. CASE CheckLimits
    <2>1. /\ bstate' = "ARMED" => bstate = "ARMED" /\ todo' = <<>>
          /\ HasJob(todo', "peakSurv") => survEquity' > 0
          /\ survEquity' = survEquity \/ survEquity' > 0
      BY <1>5, LimitJobs DEF CheckLimits, SurvivalTrip
    <2> QED
      BY <1>0, <1>5, <2>1 DEF CheckLimits, disk
  <1>6. CASE Trip \/ ConfirmFlat
    BY <1>0, <1>6 DEF Trip, ConfirmFlat, disk, history
  <1>7. CASE Write
    <2>1. HasJob(todo, Head(todo)) /\ \A j : HasJob(todo', j) => HasJob(todo, j)
      BY <1>7, TailJobs DEF Write, TypeOK
    <2>2. peakF' = peakF \/ ~peakF'.surv \/ Head(todo) = "peakSurv"
      BY <1>7 DEF Write, Put, PeakPayload, Saved
    <2> QED
      BY <1>7, <2>1, <2>2 DEF Write
  <1>8. CASE WriteFails
    <2>1. \A j : HasJob(todo', j) => HasJob(todo, j)
      BY <1>8, TailJobs, JobLists DEF WriteFails, TypeOK
    <2>2. peakF' = peakF \/ peakF'.kind = "torn"
      BY <1>8 DEF WriteFails, Put, disk, Torn
    <2> QED
      BY <1>8, <2>1, <2>2 DEF WriteFails, history
  <1>9. CASE Crash
    <2>1. peakF' = peakF \/ peakF'.kind = "torn"
      BY <1>9 DEF Crash, Put, disk, Torn
    <2> QED
      BY <1>0, <1>9, <2>1 DEF Crash
  <1>10. CASE NextDay \/ UNCHANGED vars
    BY <1>10 DEF NextDay, vars, memory, disk, history
  <1> QED
    BY <1>1, <1>2, <1>3, <1>4, <1>5, <1>6, <1>7, <1>8, <1>9, <1>10
    DEF Next, NonPositiveReading, QuarantineReading, FarFirstReading

LEMMA FilesStep == TypeOK /\ FilesInv /\ [Next]_vars => FilesInv'
  <1> SUFFICES ASSUME TypeOK, FilesInv, [Next]_vars
               PROVE  FilesInv'
    OBVIOUS
  <1> USE DEF FilesInv, Owes
  <1>0. /\ ~HasJob(<<>>, "baseline") /\ ~HasJob(<<"check">>, "baseline")
        /\ ~HasJob(<<"limits">>, "baseline") /\ ~HasJob(<<"peak">>, "baseline")
        /\ ~HasJob(<<"lockout">>, "baseline") /\ ~HasJob(<<"peak", "limits">>, "baseline")
    BY JobLists DEF Jobs
  <1>1. ASSUME NEW ack \in BOOLEAN, Boot(ack)
        PROVE  FilesInv'
    <2>1. /\ baselineF' = baselineF /\ peakF' = peakF /\ session' = day
          /\ todo' = <<"peak">> \/ todo' = <<>>
          /\ baselineF.kind = "ok" /\ baselineF.date = day => start' = baselineF.value
          /\ peakF.kind = "ok" => peak' = peakF.value
      BY <1>1 DEF Boot, disk
    <2>2. ~Owes("baseline")'
      BY <1>0, <2>1
    <2>3. peakF.value \in Nat
      BY DEF TypeOK, FileType
    <2> QED
      BY <2>1, <2>2, <2>3
  <1>2. ASSUME NEW e, CheckOnly(e)
        PROVE  FilesInv'
    BY <1>0, <1>2 DEF CheckOnly, disk
  <1>3. ASSUME NEW e \in Readings, AcceptReading(e)
        PROVE  FilesInv'
    BY <1>0, <1>3 DEF AcceptReading, disk, TypeOK
  <1>4. CASE CheckPeak
    BY <1>0, <1>4 DEF CheckPeak, disk, TypeOK, FileType
  <1>5. CASE CheckLimits
    BY <1>5, LimitJobs DEF CheckLimits, disk
  <1>6. CASE Trip \/ ConfirmFlat
    BY <1>0, <1>6 DEF Trip, ConfirmFlat, disk
  <1>7. CASE Write
    <2>1. HasJob(todo, Head(todo)) /\ \A j : HasJob(todo', j) => HasJob(todo, j)
      BY <1>7, TailJobs DEF Write, TypeOK
    <2>2. \/ baselineF' = baselineF
          \/ Head(todo) = "baseline" /\ baselineF' = BaselinePayload
      BY <1>7 DEF Write, Put
    <2>3. peakF' = peakF \/ peakF'.value = peak
      BY <1>7 DEF Write, Put, PeakPayload, Saved
    <2> QED
      BY <1>7, <2>1, <2>2, <2>3 DEF Write, BaselinePayload, Saved, TypeOK
  <1>8. CASE WriteFails
    <2>1. \A j : HasJob(todo', j) => HasJob(todo, j)
      BY <1>8, TailJobs, JobLists DEF WriteFails, TypeOK
    <2>2. /\ peakF' = peakF \/ peakF'.kind = "torn"
          /\ baselineF' = baselineF \/ baselineF'.kind = "torn"
      BY <1>8 DEF WriteFails, Put, disk, Torn
    <2> QED
      BY <1>8, <2>1, <2>2 DEF WriteFails
  <1>9. CASE Crash
    <2>1. baselineF' = baselineF \/ baselineF'.kind = "torn"
      BY <1>9 DEF Crash, Put, disk, Torn
    <2> QED
      BY <1>0, <1>9, <2>1 DEF Crash
  <1>10. CASE NextDay \/ UNCHANGED vars
    BY <1>10 DEF NextDay, vars, memory, disk
  <1> QED
    BY <1>1, <1>2, <1>3, <1>4, <1>5, <1>6, <1>7, <1>8, <1>9, <1>10
    DEF Next, NonPositiveReading, QuarantineReading, FarFirstReading

\* Only an acknowledged process is armed over a survival flag.
THEOREM SurvivalTheorem == Spec => []SurvivalFlagHonoured
  <1>1. Init => SurvivalInv
    BY JobLists DEF Init, SurvivalInv, SurvivalOnDisk, Owes, Jobs, Absent
  <1>2. TypeOK /\ SurvivalInv => SurvivalFlagHonoured
    BY DEF SurvivalInv, SurvivalFlagHonoured, SurvivalOnDisk, Idle, TypeOK
  <1> QED
    BY <1>1, <1>2, TypeCorrect, SurvivalStep, PTL DEF Spec

\* A step that changes a readable state file only ever carries its date's
\* baseline on, and only ever raises the peak.
LEMMA FileChanges ==
    ASSUME TypeOK, FilesInv, [Next]_vars
    PROVE  /\ baselineF' # baselineF /\ baselineF'.kind = "ok" =>
                 up /\ baselineF' = BaselinePayload
           /\ peakF' # peakF /\ peakF'.kind = "ok" => up /\ peakF'.value = peak
  <1>1. ASSUME ~Write
        PROVE  /\ baselineF' = baselineF \/ baselineF'.kind = "torn"
               /\ peakF' = peakF \/ peakF'.kind = "torn"
    <2>1. CASE UNCHANGED disk
      BY <2>1 DEF disk
    <2>2. CASE WriteFails \/ Crash
      BY <2>2 DEF WriteFails, Crash, Put, Torn, disk
    <2>3. UNCHANGED disk \/ WriteFails \/ Crash
      BY <1>1 DEF Next, Boot, NonPositiveReading, QuarantineReading, FarFirstReading,
                  CheckOnly, AcceptReading, CheckPeak, CheckLimits, Trip, ConfirmFlat,
                  NextDay, disk, vars
    <2> QED
      BY <2>1, <2>2, <2>3
  <1>2. ASSUME Write
        PROVE  /\ up
               /\ baselineF' = baselineF \/ baselineF' = BaselinePayload
               /\ peakF' = peakF \/ peakF'.value = peak
    BY <1>2 DEF Write, Put, PeakPayload, Saved
  <1> QED
    BY <1>1, <1>2

\* The baseline of a date is never re-anchored on that date.
THEOREM BaselineTheorem == Spec => BaselineImmutable
  <1>1. Init => FilesInv
    BY JobLists DEF Init, FilesInv, Owes, Jobs, Absent
  <1>2. TypeOK /\ FilesInv /\ [Next]_vars =>
          [(baselineF.kind = "ok" /\ baselineF'.kind = "ok" /\ baselineF.date = baselineF'.date)
             => baselineF'.value = baselineF.value]_vars
    BY FileChanges DEF FilesInv, BaselinePayload, Saved
  <1> QED
    BY <1>1, <1>2, TypeCorrect, FilesStep, PTL DEF Spec, BaselineImmutable

\* The peak on disk never falls from one readable file to the next.
THEOREM PeakTheorem == Spec => PeakNeverFalls
  <1>1. Init => FilesInv
    BY JobLists DEF Init, FilesInv, Owes, Jobs, Absent
  <1>2. TypeOK /\ FilesInv /\ [Next]_vars =>
          [(peakF.kind = "ok" /\ peakF'.kind = "ok") => peakF'.value >= peakF.value]_vars
    BY FileChanges DEF FilesInv, TypeOK, FileType
  <1> QED
    BY <1>1, <1>2, TypeCorrect, FilesStep, PTL DEF Spec, PeakNeverFalls
-----------------------------------------------------------------------------
(* The session gate.                                                        *)

\* What a breaker that has just tripped has to do.
TrippedJobs == {<<"lockout">>, <<"lockout", "peakSurv">>, <<"peakSurv", "lockout">>}

\* No date is ahead of the calendar, so that midnight seals nothing; an armed breaker,
\* and one whose trip is not yet on disk, runs on a date that is not sealed, so that
\* writing the lockout of an older session lifts no seal.
GateInv ==
    /\ session <= day
    /\ lockoutF.kind = "ok" => lockoutF.date <= day
    /\ up /\ bstate = "ARMED" => ~LockedByLockout
    /\ Owes("lockout") => bstate = "TRIPPED" /\ ~LockedByLockout /\ todo \in TrippedJobs

\* Lists without the lockout, and what is left of those with it.
LEMMA LockoutLists ==
    /\ \A l \in {<<>>, <<"check">>, <<"limits">>, <<"peak">>, <<"peak", "limits">>,
                 <<"baseline", "check">>, <<"peakSurv">>} : ~HasJob(l, "lockout")
    /\ \A l \in TrippedJobs :
            /\ l # <<>> /\ Head(l) \in {"lockout", "peakSurv"}
            /\ Head(l) = "lockout" => ~HasJob(Tail(l), "lockout")
            /\ Head(l) = "peakSurv" => Tail(l) = <<"lockout">>
  <1>2. /\ ~HasJob(<<>>, "lockout") /\ ~HasJob(<<"check">>, "lockout")
        /\ ~HasJob(<<"limits">>, "lockout") /\ ~HasJob(<<"peak">>, "lockout")
        /\ ~HasJob(<<"peak", "limits">>, "lockout") /\ ~HasJob(<<"peakSurv">>, "lockout")
        /\ ~HasJob(<<"baseline", "check">>, "lockout")
    BY JobLists DEF Jobs
  <1>3. /\ Head(<<"lockout">>) = "lockout" /\ Tail(<<"lockout">>) = <<>>
        /\ Head(<<"lockout", "peakSurv">>) = "lockout"
        /\ Tail(<<"lockout", "peakSurv">>) = <<"peakSurv">>
        /\ Head(<<"peakSurv", "lockout">>) = "peakSurv"
        /\ Tail(<<"peakSurv", "lockout">>) = <<"lockout">>
        /\ <<"lockout">> # <<>> /\ <<"lockout", "peakSurv">> # <<>>
        /\ <<"peakSurv", "lockout">> # <<>>
    OBVIOUS
  <1> QED
    BY <1>2, <1>3 DEF TrippedJobs

\* What an operation leaves to do besides a lockout needs no seal.
LEMMA Unsealed ==
    ASSUME TypeOK, GateInv, ~Owes("lockout")',
           lockoutF' = lockoutF, day' = day, session' \in {session, day},
           up' /\ bstate' = "ARMED" => (up /\ bstate = "ARMED") \/ ~LockedByLockout
    PROVE  GateInv'
  <1>1. day \in Nat /\ session \in Nat
    BY DEF TypeOK, Days
  <1>2. LockedByLockout' <=> LockedByLockout
    BY DEF LockedByLockout
  <1> QED
    BY <1>1, <1>2 DEF GateInv

LEMMA GateStep == TypeOK /\ GateInv /\ [Next]_vars => GateInv'
  <1> SUFFICES ASSUME TypeOK, GateInv, [Next]_vars
               PROVE  GateInv'
    OBVIOUS
  <1>0. /\ day \in Nat /\ session \in Nat /\ lockoutF \in FileType /\ todo \in Seq(Jobs)
        /\ bstate \in {"ARMED", "TRIPPED", "LOCKED"}
    BY DEF TypeOK, Days
  <1>1. ASSUME NEW ack \in BOOLEAN, Boot(ack)
        PROVE  GateInv'
    <2>1. ~Owes("lockout")'
      BY <1>1, LockoutLists DEF Boot, Owes
    <2> QED
      BY <1>1, <2>1, Unsealed DEF Boot, Restored, disk
  <1>2. ASSUME NEW e, CheckOnly(e)
        PROVE  GateInv'
    <2>1. ~Owes("lockout")'
      BY <1>2, LockoutLists DEF CheckOnly, Owes
    <2> QED
      BY <1>2, <2>1, Unsealed DEF CheckOnly, disk
  <1>3. ASSUME NEW e \in Readings, AcceptReading(e)
        PROVE  GateInv'
    <2>1. ~Owes("lockout")'
      BY <1>3, LockoutLists DEF AcceptReading, Owes
    <2> QED
      BY <1>3, <2>1, Unsealed DEF AcceptReading, disk
  <1>4. CASE CheckPeak
    <2>1. ~Owes("lockout")'
      BY <1>4, LockoutLists DEF CheckPeak, Owes
    <2> QED
      BY <1>4, <2>1, Unsealed DEF CheckPeak, disk
  <1>5. CASE CheckLimits \/ Trip
    <2>1. /\ UNCHANGED <<day, session, lockoutF, up>> /\ up
          /\ bstate' = bstate \/ (bstate = "ARMED" /\ bstate' = "TRIPPED")
      BY <1>5 DEF CheckLimits, Trip, Idle, disk, DailyTrip, SurvivalTrip, Watching
    <2>2. \/ todo' = <<>>
          \/ bstate = "ARMED" /\ bstate' = "TRIPPED" /\ todo' \in TrippedJobs
      BY <1>5 DEF CheckLimits, Trip, Idle, TripJobs, DailyTrip, SurvivalTrip, Watching, TrippedJobs
    <2>3. LockedByLockout' <=> LockedByLockout
      BY <2>1 DEF LockedByLockout
    <2>4. Owes("lockout")' => bstate = "ARMED" /\ bstate' = "TRIPPED" /\ todo' \in TrippedJobs
      BY <2>2, LockoutLists DEF Owes
    <2> QED
      BY <1>0, <2>1, <2>3, <2>4 DEF GateInv
  <1>6. CASE ConfirmFlat
    <2>1. ~Owes("lockout")'
      BY <1>6, LockoutLists DEF ConfirmFlat, Idle, Owes
    <2> QED
      BY <1>6, <2>1, Unsealed DEF ConfirmFlat, disk
  <1>7. CASE Write
    <2>1. /\ UNCHANGED <<day, session, up, bstate>> /\ up /\ todo # <<>> /\ todo' = Tail(todo)
      BY <1>7 DEF Write
    <2>2. CASE Head(todo) = "lockout"
      <3>1. Owes("lockout")
        BY <1>0, <2>1, <2>2, TailJobs DEF Owes
      <3>2. ~Owes("lockout")'
        BY <2>1, <2>2, <3>1, LockoutLists DEF Owes, GateInv
      <3>3. lockoutF' = Saved(session, 0, FALSE) /\ bstate # "ARMED"
        BY <1>7, <2>2, <3>1 DEF Write, Put, LockoutPayload, GateInv
      <3> QED
        BY <1>0, <2>1, <3>2, <3>3 DEF GateInv, Saved
    <2>3. CASE Head(todo) # "lockout"
      <3>1. lockoutF' = lockoutF
        BY <1>7, <2>3 DEF Write, Put
      <3>2. LockedByLockout' <=> LockedByLockout
        BY <2>1, <3>1 DEF LockedByLockout
      <3>3. Owes("lockout")' => Owes("lockout")
        BY <1>0, <2>1, TailJobs DEF Owes
      <3>4. Owes("lockout") => todo' \in TrippedJobs
        BY <2>1, <2>3, LockoutLists DEF GateInv, TrippedJobs
      <3> QED
        BY <1>0, <2>1, <3>1, <3>2, <3>3, <3>4 DEF GateInv
    <2> QED
      BY <2>2, <2>3
  <1>8. CASE WriteFails
    <2>1. /\ UNCHANGED <<day, session, up, bstate>> /\ up /\ todo # <<>>
          /\ Head(todo) = "baseline" => todo' = <<>>
          /\ Head(todo) # "baseline" => todo' = Tail(todo)
      BY <1>8 DEF WriteFails
    <2>2. CASE Head(todo) = "lockout"
      <3>1. Owes("lockout")
        BY <1>0, <2>1, <2>2, TailJobs DEF Owes
      <3>2. ~Owes("lockout")'
        BY <2>1, <2>2, <3>1, LockoutLists DEF Owes, GateInv
      <3>3. bstate # "ARMED" /\ (lockoutF' = lockoutF \/ lockoutF' = Torn)
        BY <1>8, <2>2, <3>1 DEF WriteFails, Put, GateInv, disk
      <3> QED
        BY <1>0, <2>1, <3>2, <3>3 DEF GateInv, Torn
    <2>3. CASE Head(todo) # "lockout"
      <3>1. lockoutF' = lockoutF
        BY <1>8, <2>3 DEF WriteFails, Put, disk
      <3>2. LockedByLockout' <=> LockedByLockout
        BY <2>1, <3>1 DEF LockedByLockout
      <3>3. Owes("lockout")' => Owes("lockout")
        BY <1>0, <2>1, TailJobs, LockoutLists DEF Owes
      <3>4. Owes("lockout") => todo' \in TrippedJobs
        BY <2>1, <2>3, LockoutLists DEF GateInv, TrippedJobs
      <3> QED
        BY <1>0, <2>1, <3>1, <3>2, <3>3, <3>4 DEF GateInv
    <2> QED
      BY <2>2, <2>3
  <1>9. CASE Crash
    <2>1. ~Owes("lockout")'
      BY <1>9, LockoutLists DEF Crash, Owes
    <2>2. lockoutF' = lockoutF \/ lockoutF' = Torn
      BY <1>9 DEF Crash, Put, disk
    <2> QED
      BY <1>0, <1>9, <2>1, <2>2 DEF Crash, GateInv, Torn
  <1>10. CASE NextDay
    <2>1. day' = day + 1 /\ UNCHANGED <<up, session, bstate, todo, lockoutF>>
      BY <1>10 DEF NextDay, memory, disk
    <2>2. LockedByLockout' => LockedByLockout
      BY <1>0, <2>1 DEF LockedByLockout, GateInv
    <2>3. Owes("lockout")' <=> Owes("lockout")
      BY <2>1 DEF Owes
    <2> QED
      BY <1>0, <2>1, <2>2, <2>3 DEF GateInv, FileType
  <1>11. CASE UNCHANGED vars
    <2>1. UNCHANGED <<day, session, up, bstate, todo, lockoutF>>
      BY <1>11 DEF vars, memory, disk
    <2>2. /\ LockedByLockout' <=> LockedByLockout
          /\ Owes("lockout")' <=> Owes("lockout")
      BY <2>1 DEF LockedByLockout, Owes
    <2> QED
      BY <2>1, <2>2 DEF GateInv
  <1> QED
    BY <1>1, <1>2, <1>3, <1>4, <1>5, <1>6, <1>7, <1>8, <1>9, <1>10, <1>11
    DEF Next, NonPositiveReading, QuarantineReading, FarFirstReading

\* What leaves process, breaker, lockout and date alone does not move the gate.
LEMMA GateRests ==
    ASSUME UNCHANGED <<up, bstate, lockoutF, day>>
    PROVE  UNCHANGED Gate!vars
  BY DEF Gate!vars, LockedByLockout

\* A write of the lockout seals the date, if it is the session's, or leaves it alone.
LEMMA LockoutSeals ==
    ASSUME TypeOK, GateInv, Owes("lockout"), up, UNCHANGED <<up, bstate, day>>,
           lockoutF' \in {lockoutF, Torn, LockoutPayload}
    PROVE  [Gate!Next]_(Gate!vars)
  <1>1. bstate = "TRIPPED" /\ ~LockedByLockout
    BY DEF GateInv
  <1>2. CASE LockedByLockout'
    <2>1. LockedByLockout' = TRUE
      BY <1>2
    <2> QED
      BY <1>1, <2>1 DEF Gate!Next, Gate!Seal
  <1>3. CASE ~LockedByLockout'
    <2>1. LockedByLockout' = FALSE /\ LockedByLockout = FALSE
      BY <1>1, <1>3
    <2> QED
      BY <2>1 DEF Gate!vars
  <1> QED
    BY <1>2, <1>3

\* Every operation of the breaker is a step of the gate, or none.
LEMMA GateRefined == TypeOK /\ GateInv /\ [Next]_vars => [Gate!Next]_(Gate!vars)
  <1> SUFFICES ASSUME TypeOK, GateInv, [Next]_vars
               PROVE  [Gate!Next]_(Gate!vars)
    OBVIOUS
  <1>0. bstate \in {"ARMED", "TRIPPED", "LOCKED"} /\ todo \in Seq(Jobs)
    BY DEF TypeOK
  <1>1. ASSUME NEW ack \in BOOLEAN, Boot(ack)
        PROVE  Gate!Start
    <2>1. /\ ~up /\ up' /\ day' = day /\ bstate' \in {"ARMED", "LOCKED"}
          /\ LockedByLockout => bstate' = "LOCKED"
      BY <1>1 DEF Boot, Restored
    <2>2. LockedByLockout' = LockedByLockout
      BY <1>1 DEF Boot, LockedByLockout, disk
    <2> QED
      BY <2>1, <2>2 DEF Gate!Start
  <1>2. ASSUME NEW e, CheckOnly(e)
        PROVE  UNCHANGED Gate!vars
    BY <1>2, GateRests DEF CheckOnly, disk
  <1>3. ASSUME NEW e \in Readings, AcceptReading(e)
        PROVE  UNCHANGED Gate!vars
    BY <1>3, GateRests DEF AcceptReading, disk
  <1>4. CASE CheckPeak
    BY <1>4, GateRests DEF CheckPeak, disk
  <1>5. CASE CheckLimits \/ Trip
    <2>1. /\ UNCHANGED <<day, lockoutF, up>> /\ up
          /\ bstate' = bstate \/ (bstate = "ARMED" /\ bstate' = "TRIPPED")
      BY <1>5 DEF CheckLimits, Trip, Idle, disk, DailyTrip, SurvivalTrip, Watching
    <2>2. LockedByLockout' = LockedByLockout
      BY <2>1 DEF LockedByLockout
    <2>3. CASE bstate' = bstate
      BY <2>1, <2>3, GateRests
    <2>4. CASE bstate = "ARMED" /\ bstate' = "TRIPPED"
      BY <2>1, <2>2, <2>4 DEF Gate!Next, Gate!Trip
    <2> QED
      BY <2>1, <2>3, <2>4
  <1>6. CASE ConfirmFlat
    <2>1. /\ up /\ up' /\ bstate = "TRIPPED" /\ bstate' = "LOCKED"
          /\ UNCHANGED <<day, lockoutF>>
      BY <1>6 DEF ConfirmFlat, Idle, disk
    <2>2. LockedByLockout' = LockedByLockout
      BY <2>1 DEF LockedByLockout
    <2> QED
      BY <2>1, <2>2 DEF Gate!Next, Gate!Settle
  <1>7. CASE Write \/ WriteFails
    <2>1. UNCHANGED <<day, up, bstate>> /\ up /\ todo # <<>>
      BY <1>7 DEF Write, WriteFails
    <2>2. CASE Head(todo) = "lockout"
      <3>1. Owes("lockout")
        BY <1>0, <2>1, <2>2, TailJobs DEF Owes
      <3>2. lockoutF' \in {lockoutF, Torn, LockoutPayload}
        BY <1>7, <2>2 DEF Write, WriteFails, Put, disk
      <3> QED
        BY <2>1, <3>1, <3>2, LockoutSeals
    <2>3. CASE Head(todo) # "lockout"
      BY <1>7, <2>1, <2>3, GateRests DEF Write, WriteFails, Put, disk
    <2> QED
      BY <2>2, <2>3
  <1>8. CASE Crash
    <2>1. up /\ ~up' /\ day' = day
      BY <1>8 DEF Crash
    <2>2. \/ lockoutF' = lockoutF
          \/ todo # <<>> /\ Head(todo) = "lockout" /\ lockoutF' = Torn
      BY <1>8 DEF Crash, Put, disk
    <2>3. CASE lockoutF' = lockoutF
      <3>1. LockedByLockout' = LockedByLockout
        BY <2>1, <2>3 DEF LockedByLockout
      <3> QED
        BY <1>0, <2>1, <3>1 DEF Gate!Next, Gate!Stop
    <2>4. CASE todo # <<>> /\ Head(todo) = "lockout" /\ lockoutF' = Torn
      <3>1. bstate = "TRIPPED"
        BY <1>0, <2>4, TailJobs DEF Owes, GateInv
      <3>2. LockedByLockout' = TRUE
        BY <2>4 DEF LockedByLockout, Torn
      <3> QED
        BY <2>1, <3>1, <3>2 DEF Gate!Next, Gate!Stop
    <2> QED
      BY <2>2, <2>3, <2>4
  <1>9. CASE NextDay
    <2>1. day' = day + 1 /\ UNCHANGED <<up, bstate, lockoutF>>
      BY <1>9 DEF NextDay, memory, disk
    <2>2. LockedByLockout' => LockedByLockout
      BY <2>1 DEF LockedByLockout, GateInv, TypeOK, Days, FileType
    <2>3. LockedByLockout' = FALSE \/ (LockedByLockout' = TRUE /\ LockedByLockout = TRUE)
      BY <2>2
    <2> QED
      BY <2>1, <2>3 DEF Gate!Next, Gate!Midnight
  <1>10. CASE UNCHANGED vars
    BY <1>10, GateRests DEF vars, memory, disk
  <1> QED
    BY <1>1, <1>2, <1>3, <1>4, <1>5, <1>6, <1>7, <1>8, <1>9, <1>10
    DEF Next, NonPositiveReading, QuarantineReading, FarFirstReading, Gate!Next

\* The breaker is a session gate: nothing starts armed on a date that is sealed, a
\* tripped process is never armed again, and nothing but midnight lifts a seal.
THEOREM GateTheorem == Spec => GateHolds
  <1>1. Init => GateInv
    <2>1. ASSUME Init
          PROVE  GateInv
      <3>1. ~Owes("lockout")
        BY <2>1, LockoutLists DEF Init, Owes
      <3> QED
        BY <2>1, <3>1 DEF Init, GateInv, LockedByLockout, Absent
    <2> QED
      BY <2>1
  <1>2. Spec => []GateInv
    BY <1>1, GateStep, TypeInit, TypeStep, PTL DEF Spec
  <1>3. Init => Gate!Init
    BY DEF Init, Gate!Init, LockedByLockout, Absent
  <1> QED
    BY <1>2, <1>3, GateRefined, TypeCorrect, PTL DEF Spec, GateHolds, Gate!Spec

\* A session gate keeps what it promises, step by step.
LEMMA GateBlocks == Gate!Spec => []Gate!SealBlocks
  <1>1. Gate!Init => Gate!SealBlocks
    BY DEF Gate!Init, Gate!SealBlocks
  <1>2. Gate!SealBlocks /\ [Gate!Next]_(Gate!vars) => Gate!SealBlocks'
    <2> SUFFICES ASSUME Gate!SealBlocks, [Gate!Next]_(Gate!vars)
                 PROVE  Gate!SealBlocks'
      OBVIOUS
    <2> USE DEF Gate!SealBlocks
    <2>1. CASE Gate!Start
      BY <2>1 DEF Gate!Start
    <2>2. CASE Gate!Trip
      BY <2>2 DEF Gate!Trip
    <2>3. CASE Gate!Seal \/ Gate!Settle
      BY <2>3 DEF Gate!Seal, Gate!Settle
    <2>4. CASE Gate!Stop
      BY <2>4 DEF Gate!Stop
    <2>5. CASE Gate!Midnight
      BY <2>5 DEF Gate!Midnight
    <2>6. CASE UNCHANGED Gate!vars
      BY <2>6 DEF Gate!vars
    <2> QED
      BY <2>1, <2>2, <2>3, <2>4, <2>5, <2>6 DEF Gate!Next
  <1> QED
    BY <1>1, <1>2, PTL DEF Gate!Spec

\* So no process is armed on a date that the lockout file blocks, readable or torn,
\* even one that was started on an earlier date.
THEOREM SealTheorem == Spec => []Gate!SealBlocks
  BY GateTheorem, GateBlocks, PTL DEF GateHolds

=============================================================================

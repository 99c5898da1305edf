----------------------------- MODULE LoggingProofs -----------------------------
(***************************************************************************)
(* Proofs about Logging, for any number of threads, calls and writes that  *)
(* fail: lines are printed whole and show their own time, every call is    *)
(* accounted for, error reports are a second apart, and joined threads do  *)
(* not outlive the logger.                                                 *)
(***************************************************************************)
EXTENDS Logging, FiniteSetTheorems, TLAPS

-----------------------------------------------------------------------------
(* The parts of the inductive invariant *)

\* Who is between lock and unlock owns the console, and nobody else does.
Owned == \A t \in Threads : at[t] \in {"locked", "printing"} <=> console = t

\* The caches hold what they say they were filled for.
CachesAgree == cached_tm = last_log_secs /\ cached_datetime = cache_timestamp

\* What a thread has in hand while it is in a call.
InHand ==
    \A t \in Threads :
        /\ at[t] \in {"called", "locked", "printing"} =>
               message[t].call = calls[t] /\ calls[t] >= 1 /\ message[t].time \in Times
        /\ at[t] \in {"called", "locked"} => message[t].part = 0
        /\ at[t] = "printing" => /\ message[t].stamp = message[t].time
                                 /\ message[t].part <= Parts

\* Pieces printed are of calls begun, and those of the call a thread is
\* in were written while it printed.
Printed ==
    \A i \in DOMAIN output :
        LET t == output[i].thread
        IN  /\ output[i].call <= calls[t]
            /\ at[t] \in {"called", "locked"} => output[i].call < calls[t]
            /\ at[t] = "printing" /\ output[i].call = calls[t] =>
                   output[i].stamp = message[t].time

\* In the middle of a line: the output ends with the piece written last.
Begun(t) == at[t] = "printing" /\ message[t].part > 0

LineEnds ==
    /\ \A t \in Threads : Begun(t) =>
           /\ output # <<>>
           /\ output[Len(output)].thread = t
           /\ output[Len(output)].call = message[t].call
           /\ output[Len(output)].part = message[t].part
    /\ (\A t \in Threads : ~Begun(t)) =>
           (output # <<>> => output[Len(output)].part = Parts)

Joints ==
    \A i \in 2..Len(output) :
        IF output[i].part = 1 THEN output[i - 1].part = Parts
        ELSE Follows(output[i - 1], output[i])

\* The reports so far are no later than the time kept, and no more than the
\* errors counted.
ReportsKept ==
    \A i \in DOMAIN reports :
        reports[i].time <= last_report_time /\ reports[i].number <= err_counter

\* After a join nobody is left to use the logger.
NobodyLeft ==
    joined => /\ registry = "destroyed" => \A t \in Threads : Finished(t)
              /\ exit # "crashed"

IInv == TypeOK /\ Owned /\ CachesAgree /\ InHand

-----------------------------------------------------------------------------

USE DEF Threads, NoTime

LEMMA PartsAre == TypeOK => Parts \in {1, 5}
BY DEF TypeOK, Parts

LEMMA InitHolds == Init => IInv
BY LoggingInputs DEF Init, IInv, TypeOK, Message, Owned, CachesAgree, InHand

\* Formatting gives the message the date of its own second.
LEMMA CachesRenewed ==
    ASSUME NEW secs \in Times, TypeOK, CachesAgree, Caches(secs)
    PROVE  /\ last_log_secs' = secs /\ cached_tm' = secs
           /\ cache_timestamp' = secs /\ cached_datetime' = secs
BY LoggingInputs DEF TypeOK, CachesAgree, Caches

LEMMA StepHolds == IInv /\ [Next]_vars => IInv'
<1> SUFFICES ASSUME IInv, [Next]_vars PROVE IInv'
    OBVIOUS
<1> USE LoggingInputs
<1> USE DEF IInv
<1>1. ASSUME NEW t \in Threads, Call(t) PROVE IInv'
    BY <1>1 DEF Call, Go, TypeOK, Message, Owned, CachesAgree, InHand, cacheVars, errorVars, endVars, Parts
<1>2. ASSUME NEW t \in Threads, CallFails(t) PROVE IInv'
    BY <1>2 DEF CallFails, Go, TypeOK, Owned, CachesAgree, InHand, cacheVars, errorVars,
                endVars, Parts
<1>3. ASSUME NEW t \in Threads, Lock(t) PROVE IInv'
    BY <1>3 DEF Lock, Go, TypeOK, Owned, CachesAgree, InHand, cacheVars, errorVars, endVars, Parts
<1>4. ASSUME NEW t \in Threads, Format(t) PROVE IInv'
    <2> DEFINE secs == message[t].time
    <2>1. secs \in Times /\ Caches(secs)
        BY <1>4 DEF Format, Go, InHand
    <2>2. /\ last_log_secs' = secs /\ cached_tm' = secs
          /\ cache_timestamp' = secs /\ cached_datetime' = secs
        BY <2>1, CachesRenewed
    <2>3. message' = [message EXCEPT ![t].stamp = secs]
        BY <1>4, <2>2 DEF Format
    <2>4. Parts' = Parts /\ Parts \in {1, 5}
        BY <1>4, PartsAre DEF Format, Parts
    <2> HIDE DEF secs
    <2>5. TypeOK'
        <3>1. message[t] \in Message
            BY DEF TypeOK
        <3>2. [message[t] EXCEPT !.stamp = secs] \in Message
            BY <2>1, <3>1 DEF Message
        <3>3. message' \in [Threads -> Message]
            BY <2>3, <3>2 DEF TypeOK
        <3> QED
            BY <1>4, <2>1, <2>2, <3>3 DEF Format, Go, TypeOK, errorVars, endVars
    <2>6. Owned' /\ CachesAgree'
        BY <1>4, <2>2 DEF Format, Go, TypeOK, Owned, CachesAgree
    <2>7. InHand'
        BY <1>4, <2>1, <2>3, <2>4 DEF Format, Go, TypeOK, Message, InHand, secs
    <2> QED
        BY <2>5, <2>6, <2>7
<1>5. ASSUME NEW t \in Threads, FormatFails(t) PROVE IInv'
    <2> DEFINE secs == message[t].time
    <2>1. secs \in Times /\ Caches(secs)
        BY <1>5 DEF FormatFails, Go, InHand
    <2>2. /\ last_log_secs' = secs /\ cached_tm' = secs
          /\ cache_timestamp' = secs /\ cached_datetime' = secs
        BY <2>1, CachesRenewed
    <2> HIDE DEF secs
    <2>3. TypeOK'
        BY <1>5, <2>1, <2>2 DEF FormatFails, Go, TypeOK, errorVars, endVars
    <2>4. Owned' /\ CachesAgree'
        BY <1>5, <2>2 DEF FormatFails, Go, TypeOK, Owned, CachesAgree
    <2>5. InHand'
        BY <1>5 DEF FormatFails, Go, TypeOK, InHand, Parts
    <2> QED
        BY <2>3, <2>4, <2>5
<1>6. ASSUME NEW t \in Threads, WritePiece(t) PROVE IInv'
    <2> DEFINE piece == [thread |-> t, call |-> message[t].call,
                         part |-> message'[t].part, stamp |-> message[t].stamp]
    <2>1. Parts' = Parts /\ Parts \in {1, 5}
        BY <1>6, PartsAre DEF WritePiece, Write, Parts
    <2>2. message[t].part \in 0..5 /\ message[t].part < Parts
        BY <1>6 DEF WritePiece, TypeOK, Message
    <2>3. message' = [message EXCEPT ![t].part = message[t].part + 1]
        BY <1>6 DEF WritePiece, Write
    <2>4. message'[t].part = message[t].part + 1 /\ message'[t].part \in 1..5
        <3>1. message[t] \in Message /\ message \in [Threads -> Message]
            BY DEF TypeOK
        <3> HIDE LoggingInputs DEF IInv
        <3>2. message'[t].part = message[t].part + 1
            BY <2>3, <3>1 DEF Message
        <3> QED
            BY <2>1, <2>2, <3>2
    <2>5. piece \in Piece
        BY <1>6, <2>4 DEF WritePiece, InHand, TypeOK, Message, Piece
    <2>6. output' = Append(output, piece)
        BY <1>6 DEF WritePiece, Write
    <2>7. output' \in Seq(Piece)
        BY <2>5, <2>6 DEF TypeOK
    <2> HIDE DEF piece
    <2>8. TypeOK'
        <3>1. message[t] \in Message
            BY DEF TypeOK
        <3>2. [message[t] EXCEPT !.part = message[t].part + 1] \in Message
            BY <2>1, <2>2, <3>1 DEF Message
        <3>3. message' \in [Threads -> Message]
            BY <2>3, <3>2 DEF TypeOK
        <3> QED
            BY <1>6, <2>7, <3>3 DEF WritePiece, Write, TypeOK, cacheVars, errorVars, endVars
    <2>9. Owned' /\ CachesAgree'
        BY <1>6 DEF WritePiece, Write, Owned, CachesAgree, cacheVars
    <2>10. InHand'
        <3>1. message[t] \in Message
            BY DEF TypeOK
        <3>2. /\ message'[t].call = message[t].call /\ message'[t].time = message[t].time
              /\ message'[t].stamp = message[t].stamp
            BY <2>3, <3>1 DEF TypeOK, Message
        <3>3. \A u \in Threads : u # t => message'[u] = message[u]
            BY <2>3 DEF TypeOK
        <3>4. at' = at /\ calls' = calls /\ at[t] = "printing"
            BY <1>6 DEF WritePiece, Write
        <3> QED
            BY <2>1, <2>2, <2>4, <3>2, <3>3, <3>4 DEF InHand
    <2> QED
        BY <2>8, <2>9, <2>10
<1>7. ASSUME NEW t \in Threads, Return(t) PROVE IInv'
    BY <1>7 DEF Return, Go, TypeOK, Owned, CachesAgree, InHand, cacheVars, errorVars, endVars, Parts
<1>8. ASSUME NEW t \in Threads, Report(t) PROVE IInv'
    <2>1. PICK now \in Times :
             IF now - last_report_time < 1
             THEN UNCHANGED <<last_report_time, reports>>
             ELSE /\ last_report_time' = now
                  /\ reports' = Append(reports, [number |-> err_counter', time |-> now])
        BY <1>8 DEF Report
    <2>2. err_counter' \in Nat
        BY <1>8 DEF Report, TypeOK
    <2>3. last_report_time' \in Times \cup {0} /\ reports' \in Seq([number : Nat, time : Times])
        <3>1. [number |-> err_counter', time |-> now] \in [number : Nat, time : Times]
            BY <2>2
        <3>2. last_report_time \in Times \cup {0} /\ reports \in Seq([number : Nat, time : Times])
            BY DEF TypeOK
        <3>3. CASE now - last_report_time < 1
            BY <2>1, <3>2, <3>3
        <3>4. CASE ~(now - last_report_time < 1)
            <4>1. last_report_time' = now
                BY <2>1, <3>4
            <4>2. reports' = Append(reports, [number |-> err_counter', time |-> now])
                BY <2>1, <3>4
            <4> HIDE DEF IInv
            <4> QED
                BY <3>1, <3>2, <4>1, <4>2
        <3> QED
            BY <3>3, <3>4
    <2>4. TypeOK'
        BY <1>8, <2>2, <2>3 DEF Report, Go, TypeOK, cacheVars, endVars
    <2>5. Owned' /\ CachesAgree' /\ InHand'
        BY <1>8 DEF Report, Go, TypeOK, Owned, CachesAgree, InHand, cacheVars, Parts
    <2> QED
        BY <2>4, <2>5
<1>9. ASSUME NEW t \in Threads, UseDestroyed(t) PROVE IInv'
    BY <1>9 DEF UseDestroyed, TypeOK, Owned, CachesAgree, InHand, threadVars, cacheVars,
                errorVars, Parts
<1>10. CASE MainReturns \/ Exit
    BY <1>10 DEF MainReturns, Exit, TypeOK, Owned, CachesAgree, InHand, threadVars, cacheVars,
                 errorVars, Parts
<1>11. CASE UNCHANGED vars
    BY <1>11 DEF vars, TypeOK, Owned, CachesAgree, InHand, threadVars, cacheVars, errorVars,
                 endVars, Parts
<1> QED
    BY <1>1, <1>2, <1>3, <1>4, <1>5, <1>6, <1>7, <1>8, <1>9, <1>10, <1>11
    DEF Next, ThreadStep, MainEnds, Ended

\* The variables keep their types.
THEOREM TypeCorrect == Spec => []TypeOK
<1>1. IInv => TypeOK
    BY DEF IInv
<1> QED
    BY <1>1, InitHolds, StepHolds, PTL DEF Spec

LEMMA IInvHolds == Spec => []IInv
BY InitHolds, StepHolds, PTL DEF Spec

-----------------------------------------------------------------------------
(* The error handler *)

LEMMA ReportsTyped ==
    ASSUME reports \in Seq([number : Nat, time : Times]), NEW i \in DOMAIN reports
    PROVE  reports[i].time \in Nat /\ reports[i].number \in Nat
<1> DEFINE R == [number : Nat, time : Times]
<1>1. reports \in Seq(R)
    OBVIOUS
<1> HIDE DEF R
<1>2. reports[i] \in R
    BY <1>1
<1> QED
    BY <1>2, LoggingInputs DEF R

LEMMA ReportsStep == IInv /\ ReportsKept /\ [Next]_vars => ReportsKept'
<1> SUFFICES ASSUME IInv, ReportsKept, [Next]_vars PROVE ReportsKept'
    OBVIOUS
<1> USE LoggingInputs
<1>1. err_counter \in Nat /\ last_report_time \in Times \cup {0}
      /\ reports \in Seq([number : Nat, time : Times])
    BY DEF IInv, TypeOK
<1>2. ASSUME NEW t \in Threads, Report(t) PROVE ReportsKept'
    <2>1. PICK now \in Times :
             IF now - last_report_time < 1
             THEN UNCHANGED <<last_report_time, reports>>
             ELSE /\ last_report_time' = now
                  /\ reports' = Append(reports, [number |-> err_counter', time |-> now])
        BY <1>2 DEF Report
    <2>2. err_counter' = err_counter + 1
        BY <1>2 DEF Report
    <2>3. CASE now - last_report_time < 1
        <3>1. UNCHANGED <<last_report_time, reports>>
            BY <2>1, <2>3
        <3> SUFFICES ASSUME NEW i \in DOMAIN reports
                     PROVE  reports[i].time <= last_report_time /\ reports[i].number <= err_counter + 1
            BY <2>2, <3>1 DEF ReportsKept
        <3>2. reports[i].time <= last_report_time /\ reports[i].number <= err_counter
            BY DEF ReportsKept
        <3>3. reports[i].number \in Nat
            BY <1>1, ReportsTyped
        <3> QED
            BY <1>1, <3>2, <3>3
    <2>4. CASE ~(now - last_report_time < 1)
        <3>1. reports' = Append(reports, [number |-> err_counter', time |-> now])
            BY <2>1, <2>4
        <3>2. last_report_time' = now /\ last_report_time <= now
            BY <1>1, <2>1, <2>4
        <3> SUFFICES ASSUME NEW i \in DOMAIN reports'
                     PROVE  reports'[i].time <= now /\ reports'[i].number <= err_counter + 1
            BY <2>2, <3>2 DEF ReportsKept
        <3>3. CASE i \in DOMAIN reports
            <4>1. reports'[i] = reports[i]
                BY <1>1, <3>1, <3>3
            <4>2. reports[i].time <= last_report_time /\ reports[i].number <= err_counter
                BY <3>3 DEF ReportsKept
            <4>3. reports[i].time \in Nat /\ reports[i].number \in Nat
                BY <1>1, <3>3, ReportsTyped
            <4> QED
                BY <1>1, <3>2, <4>1, <4>2, <4>3
        <3>4. CASE i = Len(reports) + 1
            <4>1. reports'[i] = [number |-> err_counter + 1, time |-> now]
                BY <1>1, <2>2, <3>1, <3>4
            <4> QED
                BY <1>1, <4>1
        <3> QED
            BY <1>1, <3>1, <3>3, <3>4
    <2> QED
        BY <2>3, <2>4
<1>3. CASE UNCHANGED errorVars
    BY <1>3 DEF errorVars, ReportsKept
<1> QED
    BY <1>2, <1>3 DEF Next, ThreadStep, MainEnds, Ended, vars, Call, CallFails, Lock, Format,
        FormatFails, WritePiece, Write, Return, UseDestroyed, MainReturns, Exit

LEMMA ApartStep == IInv /\ ReportsKept /\ ReportsAreApart /\ [Next]_vars => ReportsAreApart'
<1> SUFFICES ASSUME IInv, ReportsKept, ReportsAreApart, [Next]_vars PROVE ReportsAreApart'
    OBVIOUS
<1> USE LoggingInputs
<1>1. err_counter \in Nat /\ last_report_time \in Times \cup {0}
      /\ reports \in Seq([number : Nat, time : Times])
    BY DEF IInv, TypeOK
<1>2. ASSUME NEW t \in Threads, Report(t) PROVE ReportsAreApart'
    <2>1. PICK now \in Times :
             IF now - last_report_time < 1
             THEN UNCHANGED <<last_report_time, reports>>
             ELSE /\ last_report_time' = now
                  /\ reports' = Append(reports, [number |-> err_counter', time |-> now])
        BY <1>2 DEF Report
    <2>2. err_counter' = err_counter + 1
        BY <1>2 DEF Report
    <2>3. CASE now - last_report_time < 1
        BY <1>1, <2>1, <2>3 DEF ReportsAreApart
    <2>4. CASE ~(now - last_report_time < 1)
        <3>1. reports' = Append(reports, [number |-> err_counter', time |-> now])
            BY <2>1, <2>4
        <3>2. last_report_time + 1 <= now
            BY <1>1, <2>4
        <3> SUFFICES ASSUME NEW i \in DOMAIN reports', NEW j \in DOMAIN reports', i < j
                     PROVE  /\ reports'[i].time + 1 <= reports'[j].time
                            /\ reports'[i].number < reports'[j].number
            BY DEF ReportsAreApart
        <3>3. i \in DOMAIN reports /\ reports'[i] = reports[i]
            BY <1>1, <3>1
        <3>4. reports[i].time \in Nat /\ reports[i].number \in Nat
            BY <1>1, <3>3, ReportsTyped
        <3>5. CASE j \in DOMAIN reports
            BY <1>1, <3>1, <3>3, <3>5 DEF ReportsAreApart
        <3>6. CASE j = Len(reports) + 1
            <4>1. reports'[j].time = now /\ reports'[j].number = err_counter + 1
                BY <1>1, <2>2, <3>1, <3>6
            <4>2. reports[i].time <= last_report_time /\ reports[i].number <= err_counter
                BY <3>3 DEF ReportsKept
            <4>3. last_report_time \in Nat /\ now \in Nat
                BY <1>1, <2>1
            <4> HIDE LoggingInputs
            <4> QED
                BY <1>1, <3>2, <3>3, <3>4, <4>1, <4>2, <4>3
        <3> QED
            BY <1>1, <3>1, <3>5, <3>6
    <2> QED
        BY <2>3, <2>4
<1>3. CASE UNCHANGED errorVars
    BY <1>3 DEF errorVars, ReportsAreApart
<1> QED
    BY <1>2, <1>3 DEF Next, ThreadStep, MainEnds, Ended, vars, Call, CallFails, Lock, Format,
        FormatFails, WritePiece, Write, Return, UseDestroyed, MainReturns, Exit

\* Error reports are a second apart, whatever the clock does.
THEOREM ReportsNeverClose == Spec => []ReportsAreApart
<1>1. Init => ReportsKept /\ ReportsAreApart
    BY DEF Init, ReportsKept, ReportsAreApart
<1> QED
    BY <1>1, IInvHolds, ReportsStep, ApartStep, PTL DEF Spec

-----------------------------------------------------------------------------
(* The terminal *)

LEMMA ElementOf ==
    ASSUME NEW S, NEW s \in Seq(S), NEW i \in DOMAIN s
    PROVE  s[i] \in S
OBVIOUS

LEMMA Printing == IInv => \A t, u \in Threads : at[t] = "printing" /\ at[u] = "printing" => t = u
BY DEF IInv, Owned

LEMMA PrintedStep == IInv /\ Printed /\ [Next]_vars => Printed'
<1> SUFFICES ASSUME IInv, Printed, [Next]_vars PROVE Printed'
    OBVIOUS
<1> USE LoggingInputs
<1>0. /\ output \in Seq(Piece) /\ message \in [Threads -> Message]
      /\ at \in [Threads -> {"idle", "called", "locked", "printing", "failed"}]
      /\ calls \in [Threads -> 0..MaxCalls]
    BY DEF IInv, TypeOK
<1>00. ASSUME NEW i \in DOMAIN output
       PROVE  output[i].thread \in Threads /\ output[i].call \in Nat
    <2>1. output[i] \in Piece
        BY <1>0, ElementOf
    <2> QED
        BY <2>1 DEF Piece
<1>1. ASSUME NEW t \in Threads, Call(t) \/ CallFails(t) PROVE Printed'
    <2> SUFFICES ASSUME NEW i \in DOMAIN output
                 PROVE  LET u == output[i].thread
                        IN  /\ output[i].call <= calls'[u]
                            /\ at'[u] \in {"called", "locked"} => output[i].call < calls'[u]
                            /\ at'[u] = "printing" /\ output[i].call = calls'[u] =>
                                   output[i].stamp = message'[u].time
        BY <1>1 DEF Printed, Call, CallFails
    <2> DEFINE u == output[i].thread
    <2>1. output[i].call <= calls[u] /\ u \in Threads /\ output[i].call \in Nat
        BY <1>00 DEF Printed
    <2>2. CASE u = t
        <3>1. at'[u] \in {"called", "failed"} /\ calls'[u] = calls[u] + 1
            BY <1>0, <1>1, <2>1, <2>2 DEF Call, CallFails, Go
        <3> QED
            BY <1>0, <2>1, <3>1
    <2>3. CASE u # t
        <3>1. at'[u] = at[u] /\ calls'[u] = calls[u] /\ message'[u] = message[u]
            BY <1>0, <1>1, <2>1, <2>3 DEF Call, CallFails, Go
        <3> QED
            BY <3>1 DEF Printed
    <2> QED
        BY <2>2, <2>3
<1>2. ASSUME NEW t \in Threads,
             Lock(t) \/ Format(t) \/ FormatFails(t) \/ Return(t) \/ Report(t)
      PROVE  Printed'
    <2> SUFFICES ASSUME NEW i \in DOMAIN output
                 PROVE  LET u == output[i].thread
                        IN  /\ output[i].call <= calls[u]
                            /\ at'[u] \in {"called", "locked"} => output[i].call < calls[u]
                            /\ at'[u] = "printing" /\ output[i].call = calls[u] =>
                                   output[i].stamp = message'[u].time
        BY <1>2 DEF Printed, Lock, Format, FormatFails, Return, Report
    <2> DEFINE u == output[i].thread
    <2>1. u \in Threads /\ output[i].call \in Nat
        BY <1>00
    <2>2. message'[u].time = message[u].time
        <3>1. CASE Format(t)
            <4>1. message[t] \in Message
                BY <1>0
            <4>2. message' = [message EXCEPT ![t] = [message[t] EXCEPT !.stamp = cached_datetime']]
                BY <3>1 DEF Format
            <4>3. [message[t] EXCEPT !.stamp = cached_datetime'].time = message[t].time
                BY <4>1 DEF Message
            <4> QED
                BY <1>0, <2>1, <4>2, <4>3
        <3>2. CASE Lock(t) \/ FormatFails(t) \/ Return(t) \/ Report(t)
            BY <3>2 DEF Lock, FormatFails, Return, Report
        <3> QED
            BY <1>2, <3>1, <3>2
    <2>3. \/ at'[u] = at[u]
          \/ at[u] = "called" /\ at'[u] = "locked"
          \/ at[u] = "locked" /\ at'[u] = "printing"
          \/ at'[u] \in {"idle", "failed"}
        BY <1>0, <1>2, <2>1 DEF Lock, Format, FormatFails, Return, Report, Go
    <2> QED
        BY <1>0, <2>1, <2>2, <2>3 DEF Printed
<1>3. ASSUME NEW t \in Threads, WritePiece(t) PROVE Printed'
    <2> DEFINE piece == [thread |-> t, call |-> message[t].call,
                         part |-> message'[t].part, stamp |-> message[t].stamp]
    <2>1. output' = Append(output, piece) /\ at[t] = "printing" /\ at' = at /\ calls' = calls
        BY <1>3 DEF WritePiece, Write
    <2>2. message[t].call = calls[t] /\ message[t].stamp = message[t].time
        BY <2>1 DEF IInv, InHand
    <2>3. \A u \in Threads : message'[u].time = message[u].time
        BY <1>0, <1>3 DEF WritePiece, Write, Message
    <2>4. piece.thread = t /\ piece.call = calls[t] /\ piece.stamp = message[t].time
        BY <2>2
    <2> HIDE DEF piece
    <2> SUFFICES ASSUME NEW i \in DOMAIN output'
                 PROVE  LET u == output'[i].thread
                        IN  /\ output'[i].call <= calls[u]
                            /\ at[u] \in {"called", "locked"} => output'[i].call < calls[u]
                            /\ at[u] = "printing" /\ output'[i].call = calls[u] =>
                                   output'[i].stamp = message'[u].time
        BY <2>1 DEF Printed
    <2>5. CASE i \in DOMAIN output
        <3>1. output'[i] = output[i]
            BY <1>0, <2>1, <2>5
        <3> QED
            BY <1>00, <2>3, <2>5, <3>1 DEF Printed
    <2>6. CASE i = Len(output) + 1
        <3>1. output'[i] = piece
            BY <1>0, <2>1, <2>6
        <3> QED
            BY <1>0, <2>1, <2>3, <2>4, <3>1
    <2> QED
        BY <1>0, <2>1, <2>5, <2>6
<1>4. CASE UNCHANGED <<at, message, calls, output, lost>>
    BY <1>4 DEF Printed
<1> QED
    BY <1>1, <1>2, <1>3, <1>4 DEF Next, ThreadStep, MainEnds, Ended, vars, threadVars,
        UseDestroyed, MainReturns, Exit

\* A line shows the second of its own message.
THEOREM StampsOfOwnTime == Spec => []StampsAreOwn
<1>1. Init => Printed
    BY DEF Init, Printed
<1>2. IInv /\ Printed => StampsAreOwn
    BY DEF IInv, InHand, Printed, StampsAreOwn
<1> QED
    BY <1>1, <1>2, IInvHolds, PrintedStep, PTL DEF Spec

LEMMA LineEndsStep == IInv /\ LineEnds /\ [Next]_vars => LineEnds'
<1> SUFFICES ASSUME IInv, LineEnds, [Next]_vars PROVE LineEnds'
    OBVIOUS
<1> USE LoggingInputs
<1>0. /\ output \in Seq(Piece) /\ message \in [Threads -> Message]
      /\ at \in [Threads -> {"idle", "called", "locked", "printing", "failed"}]
    BY DEF IInv, TypeOK
<1>1. ASSUME NEW t \in Threads,
             \/ Call(t) \/ CallFails(t) \/ Lock(t) \/ Format(t) \/ FormatFails(t) \/ Report(t)
      PROVE  LineEnds'
    <2>1. output' = output /\ Parts' = Parts
        BY <1>1 DEF Call, CallFails, Lock, Format, FormatFails, Report, Parts
    <2>2. ~Begun(t) /\ ~Begun(t)'
        <3>1. at[t] # "printing"
            BY <1>1 DEF Call, CallFails, Lock, Format, FormatFails, Report, Go
        <3>2. CASE Format(t)
            <4>1. message[t].part = 0
                BY <3>2 DEF Format, Go, IInv, InHand
            <4>2. message'[t].part = 0
                BY <1>0, <3>2, <4>1 DEF Format, Message
            <4> QED
                BY <3>1, <4>2 DEF Begun
        <3>3. CASE Call(t) \/ CallFails(t) \/ Lock(t) \/ FormatFails(t) \/ Report(t)
            BY <1>0, <3>1, <3>3 DEF Call, CallFails, Lock, FormatFails, Report, Go, Begun
        <3> QED
            BY <1>1, <3>2, <3>3
    <2>3. \A u \in Threads : u # t => at'[u] = at[u] /\ message'[u] = message[u]
        BY <1>0, <1>1 DEF Call, CallFails, Lock, Format, FormatFails, Report, Go
    <2> QED
        BY <2>1, <2>2, <2>3 DEF LineEnds, Begun
<1>2. ASSUME NEW t \in Threads, WritePiece(t) PROVE LineEnds'
    <2>1. /\ at[t] = "printing" /\ at' = at
          /\ output' = Append(output, [thread |-> t, call |-> message[t].call,
                                           part |-> message'[t].part, stamp |-> message[t].stamp])
        BY <1>2 DEF WritePiece, Write
    <2>2. message'[t].call = message[t].call /\ message'[t].part > 0
        <3>1. message[t] \in Message
            BY <1>0
        <3>2. message' = [message EXCEPT ![t].part = message[t].part + 1]
            BY <1>2 DEF WritePiece, Write
        <3> QED
            BY <1>0, <3>1, <3>2 DEF Message
    <2>3. \A u \in Threads : Begun(u)' => u = t
        BY <2>1, Printing DEF Begun
    <2>4. /\ output' # <<>>
          /\ output'[Len(output')] =
                 [thread |-> t, call |-> message[t].call,
                  part |-> message'[t].part, stamp |-> message[t].stamp]
        BY <1>0, <2>1
    <2>5. Begun(t)'
        BY <2>1, <2>2 DEF Begun
    <2> QED
        BY <2>2, <2>3, <2>4, <2>5 DEF LineEnds
<1>3. ASSUME NEW t \in Threads, Return(t) PROVE LineEnds'
    <2>1. /\ output' = output /\ Parts' = Parts /\ message' = message
          /\ at[t] = "printing" /\ at'[t] = "idle"
        BY <1>0, <1>3 DEF Return, Go, Parts
    <2>2. message[t].part >= Parts /\ message[t].part <= Parts /\ Parts \in {1, 5}
        BY <1>3, <2>1, PartsAre DEF Return, IInv, InHand
    <2>3. message[t].part = Parts /\ Begun(t)
        <3>1. message[t] \in Message
            BY <1>0
        <3>2. message[t].part \in 0..5
            BY <3>1 DEF Message
        <3> QED
            BY <2>1, <2>2, <3>2 DEF Begun
    <2>4. output[Len(output)].part = Parts
        BY <2>3 DEF LineEnds
    <2>5. \A u \in Threads : ~Begun(u)'
        <3> SUFFICES ASSUME NEW u \in Threads, u # t PROVE at'[u] # "printing"
            BY <2>1 DEF Begun
        <3>1. at'[u] = at[u]
            BY <1>0, <1>3 DEF Return, Go
        <3> QED
            BY <2>1, <3>1, Printing
    <2> QED
        BY <2>1, <2>4, <2>5 DEF LineEnds
<1>4. CASE UNCHANGED <<colours, at, message, output, lost>>
    BY <1>4 DEF LineEnds, Begun, Parts
<1> QED
    BY <1>1, <1>2, <1>3, <1>4 DEF Next, ThreadStep, MainEnds, Ended, vars, threadVars,
        UseDestroyed, MainReturns, Exit

LEMMA JointsStep == IInv /\ LineEnds /\ Joints /\ [Next]_vars => Joints'
<1> SUFFICES ASSUME IInv, LineEnds, Joints, [Next]_vars PROVE Joints'
    OBVIOUS
<1> USE LoggingInputs
<1>0. output \in Seq(Piece) /\ message \in [Threads -> Message]
    BY DEF IInv, TypeOK
<1>1. ASSUME NEW t \in Threads, WritePiece(t) PROVE Joints'
    <2> DEFINE piece == [thread |-> t, call |-> message[t].call,
                         part |-> message'[t].part, stamp |-> message[t].stamp]
               n == Len(output)
    <2>1. output' = Append(output, piece) /\ at[t] = "printing" /\ Parts' = Parts
        BY <1>1 DEF WritePiece, Write, Parts
    <2>2. message[t].part \in Nat /\ message'[t].part = message[t].part + 1
        <3>1. message[t] \in Message
            BY <1>0
        <3>2. message' = [message EXCEPT ![t].part = message[t].part + 1]
            BY <1>1 DEF WritePiece, Write
        <3> QED
            BY <1>0, <3>1, <3>2 DEF Message
    <2>3. output # <<>> =>
              IF piece.part = 1 THEN output[n].part = Parts ELSE Follows(output[n], piece)
        <3>1. CASE message[t].part = 0
            <4>1. \A u \in Threads : ~Begun(u)
                BY <2>1, <3>1, Printing DEF Begun
            <4> QED
                BY <2>2, <3>1, <4>1 DEF LineEnds
        <3>2. CASE message[t].part > 0
            <4>1. Begun(t)
                BY <2>1, <3>2 DEF Begun
            <4> QED
                BY <2>2, <3>2, <4>1 DEF LineEnds, Follows
        <3> QED
            BY <2>2, <3>1, <3>2
    <2> HIDE DEF piece
    <2> SUFFICES ASSUME NEW i \in 2..Len(output')
                 PROVE  IF output'[i].part = 1 THEN output'[i - 1].part = Parts
                        ELSE Follows(output'[i - 1], output'[i])
        BY <2>1 DEF Joints, Follows
    <2>4. CASE i \in 2..n
        <3>1. output'[i] = output[i] /\ output'[i - 1] = output[i - 1]
            BY <1>0, <2>1, <2>4
        <3> QED
            BY <2>4, <3>1 DEF Joints
    <2>5. CASE i = n + 1
        <3>1. output'[i] = piece /\ output'[i - 1] = output[n] /\ output # <<>>
            BY <1>0, <2>1, <2>5
        <3> QED
            BY <2>3, <3>1
    <2> QED
        BY <1>0, <2>1, <2>4, <2>5
<1>2. CASE UNCHANGED <<colours, output, lost>>
    BY <1>2 DEF Joints, Parts, Follows
<1> QED
    BY <1>1, <1>2 DEF Next, ThreadStep, MainEnds, Ended, vars, Call, CallFails, Lock, Format,
        FormatFails, Return, Report, UseDestroyed, MainReturns, Exit

\* Lines are neither mixed nor cut.
THEOREM LinesStayWhole == Spec => []LinesAreWhole
<1>1. Init => LineEnds /\ Joints
    BY DEF Init, LineEnds, Joints, Begun
<1>2. IInv /\ LineEnds /\ Joints => LinesAreWhole
    <2> SUFFICES ASSUME IInv, LineEnds, Joints, console = "nobody", output # <<>>
                 PROVE  Last(output).part = Parts
        BY DEF LinesAreWhole, Joints
    <2>1. \A t \in Threads : ~Begun(t)
        BY LoggingInputs DEF IInv, Owned, Begun
    <2> QED
        BY <2>1 DEF LineEnds, Last
<1> QED
    BY <1>1, <1>2, IInvHolds, LineEndsStep, JointsStep, PTL DEF Spec

-----------------------------------------------------------------------------
(* What becomes of each call *)

\* No piece of the call in hand is printed before its first.
Fresh ==
    \A i \in DOMAIN output :
        LET t == output[i].thread
        IN  at[t] = "printing" /\ message[t].part = 0 => output[i].call < calls[t]

LinesInOrder ==
    \A i, j \in Lines :
        i < j /\ output[i].thread = output[j].thread => output[i].call < output[j].call

\* Threads whose call has neither its line nor been counted as an error.
Pending ==
    {t \in Threads : \/ at[t] \in {"called", "locked", "failed"}
                     \/ at[t] = "printing" /\ message[t].part = 0}

Counted ==
    Cardinality(Lines) + err_counter + Cardinality(Pending) = Cardinality(CallsBegun)

LEMMA SetsAreFinite ==
    ASSUME TypeOK
    PROVE  /\ IsFiniteSet(Lines) /\ IsFiniteSet(Pending) /\ IsFiniteSet(CallsBegun)
           /\ Cardinality(Lines) \in Nat /\ Cardinality(Pending) \in Nat
           /\ Cardinality(CallsBegun) \in Nat
<1>1. IsFiniteSet(Threads)
    BY LoggingInputs, FS_AddElement, {Main} \cup Workers = Workers \cup {Main}
<1>2. IsFiniteSet(Lines)
    <2>1. output \in Seq(Piece)
        BY DEF TypeOK
    <2>2. DOMAIN output = 1..Len(output) /\ Len(output) \in Nat
        BY <2>1
    <2>3. IsFiniteSet(1..Len(output))
        BY <2>2, FS_Interval
    <2>4. Lines \in SUBSET (1..Len(output))
        BY <2>2 DEF Lines
    <2> QED
        BY <2>3, <2>4, FS_Subset
<1>3. IsFiniteSet(Pending)
    <2>1. Pending \in SUBSET Threads
        BY DEF Pending
    <2> QED
        BY <1>1, <2>1, FS_Subset
<1>4. IsFiniteSet(CallsBegun)
    <2>1. IsFiniteSet(1..MaxCalls)
        BY LoggingInputs, FS_Interval
    <2>2. IsFiniteSet(Threads \X (1..MaxCalls))
        BY <1>1, <2>1, FS_Product
    <2>3. CallsBegun \in SUBSET (Threads \X (1..MaxCalls))
        BY DEF CallsBegun
    <2> QED
        BY <2>2, <2>3, FS_Subset
<1> QED
    BY <1>2, <1>3, <1>4, FS_CardinalityType

\* A thread that begins a call has one more to answer for.
LEMMA CallIsCounted ==
    ASSUME IInv, Counted, NEW t \in Threads, Call(t) \/ CallFails(t)
    PROVE  Counted'
<1>0. /\ at \in [Threads -> {"idle", "called", "locked", "printing", "failed"}]
      /\ calls \in [Threads -> 0..MaxCalls] /\ message \in [Threads -> Message]
      /\ MaxCalls \in Nat /\ TypeOK
    BY LoggingInputs DEF IInv, TypeOK
<1>1. /\ at[t] = "idle" /\ at'[t] \in {"called", "failed"} /\ calls[t] < MaxCalls
      /\ calls' = [calls EXCEPT ![t] = calls[t] + 1]
      /\ output' = output /\ err_counter' = err_counter
      /\ \A u \in Threads : u # t => at'[u] = at[u] /\ message'[u] = message[u]
    BY <1>0 DEF Call, CallFails, Go, errorVars
<1>2. Lines' = Lines
    BY <1>1 DEF Lines
<1>3. t \notin Pending /\ Pending' = Pending \cup {t}
    BY <1>1 DEF Pending
<1>4. <<t, calls[t] + 1>> \notin CallsBegun /\ CallsBegun' = CallsBegun \cup {<<t, calls[t] + 1>>}
    <2>1. calls[t] \in Nat /\ calls[t] + 1 \in 1..MaxCalls /\ calls'[t] = calls[t] + 1
        BY <1>0, <1>1
    <2>2. <<t, calls[t] + 1>> \notin CallsBegun
        BY <2>1 DEF CallsBegun
    <2>3. ASSUME NEW u \in Threads, NEW k \in 1..MaxCalls
          PROVE  k <= calls'[u] <=> k <= calls[u] \/ (u = t /\ k = calls[t] + 1)
        <3>1. CASE u = t
            BY <2>1, <3>1
        <3>2. CASE u # t
            BY <1>0, <1>1, <3>2
        <3> QED
            BY <3>1, <3>2
    <2>4. ASSUME NEW c \in Threads \X (1..MaxCalls)
          PROVE  c \in CallsBegun' <=> c \in CallsBegun \/ c = <<t, calls[t] + 1>>
        <3>1. PICK u \in Threads, k \in 1..MaxCalls : c = <<u, k>>
            BY <2>4
        <3>2. c[1] = u /\ c[2] = k
            BY <3>1
        <3>3. (c \in CallsBegun' <=> k <= calls'[u]) /\ (c \in CallsBegun <=> k <= calls[u])
            BY <3>2 DEF CallsBegun
        <3>4. c = <<t, calls[t] + 1>> <=> u = t /\ k = calls[t] + 1
            BY <3>1
        <3> QED
            BY <2>3, <3>3, <3>4
    <2>5. <<t, calls[t] + 1>> \in Threads \X (1..MaxCalls)
        BY <2>1
    <2>6. CallsBegun \subseteq Threads \X (1..MaxCalls) /\ CallsBegun' \subseteq Threads \X (1..MaxCalls)
        BY DEF CallsBegun
    <2> QED
        BY <2>2, <2>4, <2>5, <2>6
<1>5. /\ Cardinality(Pending') = Cardinality(Pending) + 1
      /\ Cardinality(CallsBegun') = Cardinality(CallsBegun) + 1
    BY <1>0, <1>3, <1>4, SetsAreFinite, FS_AddElement
<1>6. err_counter \in Nat
    BY <1>0 DEF TypeOK
<1> QED
    BY <1>0, <1>1, <1>2, <1>5, <1>6, SetsAreFinite DEF Counted

\* The first piece of its line, or the error counted, answers for a call.
LEMMA AnswerIsCounted ==
    ASSUME IInv, Counted, NEW t \in Threads, WritePiece(t) \/ Report(t)
    PROVE  Counted'
<1>0. /\ at \in [Threads -> {"idle", "called", "locked", "printing", "failed"}]
      /\ message \in [Threads -> Message] /\ output \in Seq(Piece)
      /\ TypeOK /\ err_counter \in Nat
    BY DEF IInv, TypeOK
<1>1. CallsBegun' = CallsBegun
    BY DEF WritePiece, Write, Report, CallsBegun
<1>2. CASE Report(t)
    <2>1. /\ at[t] = "failed" /\ at' = [at EXCEPT ![t] = "idle"]
          /\ output' = output /\ message' = message /\ err_counter' = err_counter + 1
        BY <1>2 DEF Report, Go
    <2>2. Lines' = Lines
        BY <2>1 DEF Lines
    <2>3. t \in Pending /\ Pending' = Pending \ {t}
        BY <1>0, <2>1 DEF Pending
    <2>4. Cardinality(Pending') = Cardinality(Pending) - 1
        BY <1>0, <2>3, SetsAreFinite, FS_RemoveElement
    <2> QED
        BY <1>0, <1>1, <2>1, <2>2, <2>4, SetsAreFinite DEF Counted
<1>3. CASE WritePiece(t)
    <2> DEFINE piece == [thread |-> t, call |-> message[t].call,
                         part |-> message'[t].part, stamp |-> message[t].stamp]
               n == Len(output)
    <2>1. /\ output' = Append(output, piece) /\ at[t] = "printing" /\ at' = at
          /\ err_counter' = err_counter
        BY <1>3 DEF WritePiece, Write, errorVars
    <2>2. /\ message[t].part \in Nat /\ message'[t].part = message[t].part + 1
          /\ \A u \in Threads : u # t => message'[u] = message[u]
        <3>1. message[t] \in Message
            BY <1>0
        <3>2. message' = [message EXCEPT ![t].part = message[t].part + 1]
            BY <1>3 DEF WritePiece, Write
        <3> QED
            BY <1>0, <3>1, <3>2 DEF Message
    <2>3. piece.part = message[t].part + 1
        BY <2>2
    <2> HIDE DEF piece
    <2>4. /\ n \in Nat /\ DOMAIN output = 1..n /\ DOMAIN output' = 1..(n + 1)
          /\ output'[n + 1] = piece /\ \A i \in 1..n : output'[i] = output[i]
        BY <1>0, <2>1
    <2> HIDE DEF n
    <2>5. n + 1 \notin Lines
        BY <2>4 DEF Lines
    <2>6. CASE message[t].part = 0
        <3>1. Lines' = Lines \cup {n + 1}
            BY <2>3, <2>4, <2>6 DEF Lines
        <3>2. t \in Pending /\ Pending' = Pending \ {t}
            BY <1>0, <2>1, <2>2, <2>6 DEF Pending
        <3>3. /\ Cardinality(Lines') = Cardinality(Lines) + 1
              /\ Cardinality(Pending') = Cardinality(Pending) - 1
            BY <1>0, <2>5, <3>1, <3>2, SetsAreFinite, FS_AddElement, FS_RemoveElement
        <3> QED
            BY <1>0, <1>1, <2>1, <3>3, SetsAreFinite DEF Counted
    <2>7. CASE message[t].part # 0
        <3>1. Lines' = Lines
            BY <2>2, <2>3, <2>4, <2>7 DEF Lines
        <3>2. Pending' = Pending
            BY <1>0, <2>1, <2>2, <2>7 DEF Pending
        <3> QED
            BY <1>1, <2>1, <3>1, <3>2 DEF Counted
    <2> QED
        BY <2>6, <2>7
<1> QED
    BY <1>2, <1>3

LEMMA CountedStep == IInv /\ Counted /\ [Next]_vars => Counted'
<1> SUFFICES ASSUME IInv, Counted, [Next]_vars PROVE Counted'
    OBVIOUS
<1>0. /\ at \in [Threads -> {"idle", "called", "locked", "printing", "failed"}]
      /\ message \in [Threads -> Message] /\ Parts \in {1, 5}
    BY PartsAre DEF IInv, TypeOK
<1>1. ASSUME NEW t \in Threads, Lock(t) \/ Format(t) \/ FormatFails(t) \/ Return(t)
      PROVE  Counted'
    <2>1. Lines' = Lines /\ CallsBegun' = CallsBegun /\ err_counter' = err_counter
        BY <1>1 DEF Lock, Format, FormatFails, Return, Lines, CallsBegun, errorVars
    <2>2. \A u \in Threads : u # t => at'[u] = at[u] /\ message'[u] = message[u]
        BY <1>0, <1>1 DEF Lock, Format, FormatFails, Return, Go
    <2>3. t \in Pending' <=> t \in Pending
        <3>1. CASE Lock(t) \/ FormatFails(t)
            BY <1>0, <3>1 DEF Lock, FormatFails, Go, Pending
        <3>2. CASE Format(t)
            <4>1. at[t] = "locked" /\ message[t].part = 0 /\ message[t] \in Message
                BY <1>0, <3>2 DEF Format, Go, IInv, InHand
            <4>2. at'[t] = "printing" /\ message'[t].part = 0
                BY <1>0, <3>2, <4>1 DEF Format, Go, Message
            <4> QED
                BY <4>1, <4>2 DEF Pending
        <3>3. CASE Return(t)
            <4>1. at[t] = "printing" /\ at'[t] = "idle" /\ message[t].part # 0
                BY <1>0, <3>3 DEF Return, Go
            <4> QED
                BY <4>1 DEF Pending
        <3> QED
            BY <1>1, <3>1, <3>2, <3>3
    <2>4. Pending' = Pending
        BY <2>2, <2>3 DEF Pending
    <2> QED
        BY <2>1, <2>4 DEF Counted
<1>2. CASE UNCHANGED <<at, message, calls, output, lost, err_counter>>
    BY <1>2 DEF Counted, Lines, Pending, CallsBegun
<1> QED
    BY <1>1, <1>2, CallIsCounted, AnswerIsCounted DEF Next, ThreadStep, MainEnds, Ended, vars,
        threadVars, errorVars, UseDestroyed, MainReturns, Exit

LEMMA FreshStep == IInv /\ Printed /\ Fresh /\ [Next]_vars => Fresh'
<1> SUFFICES ASSUME IInv, Printed, Fresh, [Next]_vars PROVE Fresh'
    OBVIOUS
<1>0. /\ at \in [Threads -> {"idle", "called", "locked", "printing", "failed"}]
      /\ message \in [Threads -> Message] /\ output \in Seq(Piece)
      /\ calls \in [Threads -> 0..MaxCalls] /\ MaxCalls \in Nat
    BY LoggingInputs DEF IInv, TypeOK
<1>00. ASSUME NEW i \in DOMAIN output PROVE output[i].thread \in Threads
    <2>1. output[i] \in Piece
        BY <1>0, ElementOf
    <2> QED
        BY <2>1 DEF Piece
<1>1. ASSUME NEW t \in Threads,
             \/ Call(t) \/ CallFails(t) \/ Lock(t) \/ Format(t) \/ FormatFails(t)
             \/ Return(t) \/ Report(t)
      PROVE  Fresh'
    <2>1. output' = output
        BY <1>1 DEF Call, CallFails, Lock, Format, FormatFails, Return, Report
    <2>2. \A u \in Threads : u # t => /\ at'[u] = at[u] /\ message'[u] = message[u]
                                      /\ calls'[u] = calls[u]
        BY <1>0, <1>1 DEF Call, CallFails, Lock, Format, FormatFails, Return, Report, Go
    <2>3. at'[t] = "printing" => at[t] = "locked" /\ calls'[t] = calls[t]
        BY <1>0, <1>1 DEF Call, CallFails, Lock, Format, FormatFails, Return, Report, Go
    <2> QED
        BY <1>00, <2>1, <2>2, <2>3 DEF Fresh, Printed
<1>2. ASSUME NEW t \in Threads, WritePiece(t) PROVE Fresh'
    <2>1. /\ at[t] = "printing" /\ at' = at /\ calls' = calls
          /\ message'[t].part # 0
          /\ \A u \in Threads : u # t => message'[u] = message[u]
        <3>1. message[t] \in Message
            BY <1>0
        <3>2. message' = [message EXCEPT ![t].part = message[t].part + 1]
            BY <1>2 DEF WritePiece, Write
        <3> QED
            BY <1>0, <1>2, <3>1, <3>2 DEF WritePiece, Write, Message
    <2>2. \A u \in Threads : u # t => at[u] # "printing"
        BY <2>1, Printing
    <2>3. \A u \in Threads : ~(at'[u] = "printing" /\ message'[u].part = 0)
        BY <2>1, <2>2
    <2>4. \A i \in DOMAIN output' : output'[i].thread \in Threads
        <3>1. output' = Append(output, [thread |-> t, call |-> message[t].call,
                                            part |-> message'[t].part, stamp |-> message[t].stamp])
            BY <1>2 DEF WritePiece, Write
        <3> QED
            BY <1>0, <1>00, <3>1
    <2> QED
        BY <2>3, <2>4 DEF Fresh
<1>3. CASE UNCHANGED <<at, message, calls, output, lost>>
    BY <1>3 DEF Fresh
<1> QED
    BY <1>1, <1>2, <1>3 DEF Next, ThreadStep, MainEnds, Ended, vars, threadVars,
        UseDestroyed, MainReturns, Exit

LEMMA OrderStep == IInv /\ Fresh /\ LinesInOrder /\ [Next]_vars => LinesInOrder'
<1> SUFFICES ASSUME IInv, Fresh, LinesInOrder, [Next]_vars PROVE LinesInOrder'
    OBVIOUS
<1>0. message \in [Threads -> Message] /\ output \in Seq(Piece)
    BY DEF IInv, TypeOK
<1>1. ASSUME NEW t \in Threads, WritePiece(t) PROVE LinesInOrder'
    <2> DEFINE piece == [thread |-> t, call |-> message[t].call,
                         part |-> message'[t].part, stamp |-> message[t].stamp]
               n == Len(output)
    <2>1. /\ output' = Append(output, piece) /\ at[t] = "printing"
          /\ message[t].call = calls[t]
        BY <1>1 DEF WritePiece, Write, IInv, InHand
    <2>2. message'[t].part = 1 => message[t].part = 0
        <3>1. message[t] \in Message
            BY <1>0
        <3>2. message' = [message EXCEPT ![t].part = message[t].part + 1]
            BY <1>1 DEF WritePiece, Write
        <3> QED
            BY <1>0, <3>1, <3>2 DEF Message
    <2>3. piece.thread = t /\ piece.call = calls[t] /\ (piece.part = 1 => message[t].part = 0)
        BY <2>1, <2>2
    <2> HIDE DEF piece
    <2>4. /\ n \in Nat /\ DOMAIN output = 1..n /\ DOMAIN output' = 1..(n + 1)
          /\ output'[n + 1] = piece /\ \A i \in 1..n : output'[i] = output[i]
        BY <1>0, <2>1
    <2> HIDE DEF n
    <2> SUFFICES ASSUME NEW i \in 1..(n + 1), NEW j \in 1..(n + 1), i < j,
                        output'[i].part = 1, output'[j].part = 1,
                        output'[i].thread = output'[j].thread
                 PROVE  output'[i].call < output'[j].call
        BY <2>4 DEF LinesInOrder, Lines
    <2>5. i \in 1..n /\ output'[i] = output[i]
        BY <2>4
    <2>6. CASE j \in 1..n
        <3>1. output'[j] = output[j] /\ i \in Lines /\ j \in Lines
            BY <2>4, <2>5, <2>6 DEF Lines
        <3> QED
            BY <2>5, <3>1 DEF LinesInOrder
    <2>7. CASE j = n + 1
        <3>1. output'[j] = piece /\ message[t].part = 0 /\ output[i].thread = t
            BY <2>3, <2>4, <2>5, <2>7
        <3>2. output[i].call < calls[t]
            BY <2>1, <2>4, <2>5, <3>1 DEF Fresh
        <3> QED
            BY <2>3, <2>5, <3>1, <3>2
    <2> QED
        BY <2>4, <2>6, <2>7
<1>2. CASE UNCHANGED output
    BY <1>2 DEF LinesInOrder, Lines
<1> QED
    BY <1>1, <1>2 DEF Next, ThreadStep, MainEnds, Ended, vars, Call, CallFails, Lock, Format,
        FormatFails, Return, Report, UseDestroyed, MainReturns, Exit

\* Where the line of a piece begins; all pieces from there on are of one call.
First(j) == j - output[j].part + 1

Runs ==
    \A j \in DOMAIN output :
        /\ output[j].part \in 1..Parts /\ First(j) >= 1
        /\ \A k \in First(j)..j :
               /\ output[k].part = k - First(j) + 1
               /\ output[k].thread = output[j].thread /\ output[k].call = output[j].call

LEMMA RunsStep == IInv /\ LineEnds /\ Runs /\ [Next]_vars => Runs'
<1> SUFFICES ASSUME IInv, LineEnds, Runs, [Next]_vars PROVE Runs'
    OBVIOUS
<1>0. output \in Seq(Piece) /\ message \in [Threads -> Message] /\ Parts \in {1, 5}
    BY PartsAre DEF IInv, TypeOK
<1>1. ASSUME NEW t \in Threads, WritePiece(t) PROVE Runs'
    <2> DEFINE piece == [thread |-> t, call |-> message[t].call,
                         part |-> message'[t].part, stamp |-> message[t].stamp]
               p == message[t].part + 1
    <2>1. output' = Append(output, piece) /\ at[t] = "printing" /\ Parts' = Parts
        BY <1>1 DEF WritePiece, Write, Parts
    <2>2. message[t].part \in Nat /\ p \in 1..Parts /\ piece.part = p
        <3>1. message[t] \in Message
            BY <1>0
        <3>2. message' = [message EXCEPT ![t].part = message[t].part + 1]
            BY <1>1 DEF WritePiece, Write
        <3> QED
            BY <1>0, <1>1, <3>1, <3>2 DEF Message, WritePiece
    <2>3. piece.thread = t /\ piece.call = message[t].call
        OBVIOUS
    <2> HIDE DEF piece
    <2>0. PICK n \in Nat : n = Len(output)
        BY <1>0
    <2>4. /\ n \in Nat /\ DOMAIN output = 1..n /\ DOMAIN output' = 1..(n + 1)
          /\ output'[n + 1] = piece /\ \A i \in 1..n : output'[i] = output[i]
        BY <1>0, <2>0, <2>1
    <2>5. p # 1 => /\ n >= 1 /\ output[n].thread = t /\ output[n].call = message[t].call
                   /\ output[n].part = p - 1
        <3>1. p # 1 => Begun(t)
            BY <2>1, <2>2 DEF Begun
        <3> QED
            BY <1>0, <2>0, <2>2, <3>1 DEF LineEnds
    <2> HIDE DEF p
    <2>6. ASSUME NEW j \in 1..n
          PROVE  /\ output'[j].part \in 1..Parts' /\ First(j)' >= 1
                 /\ \A k \in First(j)'..j :
                        /\ output'[k].part = k - First(j)' + 1
                        /\ output'[k].thread = output'[j].thread
                        /\ output'[k].call = output'[j].call
        <3>1. First(j)' = First(j) /\ output'[j] = output[j] /\ First(j) \in 1..j
            BY <1>0, <2>4, <2>6 DEF First, Runs
        <3>2. \A k \in First(j)..j : k \in 1..n
            BY <2>4, <2>6, <3>1
        <3> QED
            BY <2>1, <2>4, <2>6, <3>1, <3>2 DEF Runs
    <2>7. /\ output'[n + 1].part \in 1..Parts' /\ First(n + 1)' = n + 2 - p
          /\ output'[n + 1].thread = t /\ output'[n + 1].call = message[t].call
        BY <1>0, <2>1, <2>2, <2>3, <2>4 DEF First
    <2>8. CASE p = 1
        BY <2>2, <2>4, <2>6, <2>7, <2>8 DEF Runs
    <2>9. CASE p # 1
        <3>1. n \in 1..n /\ First(n) = n + 2 - p
            BY <1>0, <2>2, <2>4, <2>5, <2>9 DEF First
        <3>2. /\ n + 2 - p >= 1
              /\ \A k \in (n + 2 - p)..n :
                     /\ output[k].part = k - (n + 2 - p) + 1
                     /\ output[k].thread = t /\ output[k].call = message[t].call
            BY <2>4, <2>5, <2>9, <3>1 DEF Runs
        <3>3. ASSUME NEW k \in (n + 2 - p)..(n + 1)
              PROVE  /\ output'[k].part = k - (n + 2 - p) + 1
                     /\ output'[k].thread = t /\ output'[k].call = message[t].call
            <4>1. CASE k = n + 1
                BY <2>2, <2>3, <2>4, <4>1
            <4>2. CASE k # n + 1
                <5>1. k \in (n + 2 - p)..n /\ k \in 1..n
                    BY <2>2, <2>4, <3>2, <4>2
                <5> QED
                    BY <2>4, <3>2, <5>1
            <4> QED
                BY <4>1, <4>2
        <3> QED
            BY <2>2, <2>4, <2>6, <2>7, <3>2, <3>3 DEF Runs
    <2> QED
        BY <2>8, <2>9
<1>2. CASE UNCHANGED <<colours, output>>
    BY <1>2 DEF Runs, First, Parts
<1> QED
    BY <1>1, <1>2 DEF Next, ThreadStep, MainEnds, Ended, vars, Call, CallFails, Lock, Format,
        FormatFails, Return, Report, UseDestroyed, MainReturns, Exit

\* The positions behind the begin of a line, as many as it has pieces, are that line's.
LEMMA SameLine ==
    ASSUME IInv, Runs, Joints, NEW i \in Lines, NEW j \in DOMAIN output, i <= j, j < i + Parts
    PROVE  First(j) = i
<1> DEFINE n == Len(output)
           f == First(j)
<1>1. /\ n \in Nat /\ DOMAIN output = 1..n /\ Parts \in {1, 5}
      /\ i \in 1..n /\ j \in 1..n /\ output[i].part = 1
    BY PartsAre DEF IInv, TypeOK, Lines
<1>2. f \in 1..j /\ \A k \in f..j : output[k].part = k - f + 1
    BY <1>1 DEF Runs, First
<1> HIDE DEF n, f
<1>3. ASSUME f < i PROVE FALSE
    BY <1>1, <1>2, <1>3
<1>4. ASSUME f > i PROVE FALSE
    <2>1. f \in 2..n /\ f - 1 \in 1..n /\ output[f].part = 1
        BY <1>1, <1>2, <1>4
    <2>2. output[f - 1].part = Parts
        BY <2>1 DEF Joints, n
    <2>3. First(f - 1) = f - Parts
        BY <1>1, <2>1, <2>2 DEF First
    <2>4. i \in First(f - 1)..(f - 1) /\ i # f - Parts
        BY <1>1, <1>2, <1>4, <2>3
    <2>5. output[i].part = i - (f - Parts) + 1
        BY <1>1, <2>1, <2>3, <2>4 DEF Runs
    <2> QED
        BY <1>1, <1>2, <2>4, <2>5
<1> QED
    BY <1>1, <1>2, <1>3, <1>4 DEF f

\* A line is on the terminal in full, or it is of a call that a write has failed for.
LEMMA DamagedLines ==
    ASSUME IInv, Runs, Joints, LinesInOrder
    PROVE  /\ Cardinality(WholeLines) \in Nat /\ Cardinality(Damaged) \in Nat
           /\ Cardinality(WholeLines) + Cardinality(Damaged) = Cardinality(Lines)
<1> DEFINE Cut == Lines \ WholeLines
           call == [i \in Cut |-> <<output[i].thread, output[i].call>>]
<1>1. /\ Len(output) \in Nat /\ DOMAIN output = 1..Len(output) /\ Parts \in {1, 5}
      /\ lost \subseteq DOMAIN output /\ TypeOK /\ output \in Seq(Piece)
    BY PartsAre DEF IInv, TypeOK
<1>2. ASSUME NEW j \in lost
      PROVE  /\ First(j) \in Cut
             /\ output[First(j)].thread = output[j].thread
             /\ output[First(j)].call = output[j].call
    <2>1. /\ j \in DOMAIN output /\ output[j].part \in 1..Parts /\ First(j) \in 1..j
          /\ j < First(j) + Parts
        BY <1>1, <1>2 DEF Runs, First
    <2>2. /\ output[First(j)].part = 1 /\ output[First(j)].thread = output[j].thread
          /\ output[First(j)].call = output[j].call
        BY <1>1, <2>1 DEF Runs
    <2>3. First(j) \in Lines
        BY <1>1, <2>1, <2>2 DEF Lines
    <2>4. j \in First(j)..(First(j) + Parts - 1)
        BY <1>1, <2>1
    <2> QED
        BY <1>2, <2>2, <2>3, <2>4 DEF WholeLines
<1>3. ASSUME NEW i \in Cut PROVE \E j \in lost : First(j) = i
    <2>1. PICK j \in lost : j \in i..(i + Parts - 1)
        BY <1>3 DEF WholeLines
    <2>2. i \in Lines /\ j \in DOMAIN output /\ i <= j /\ j < i + Parts
        BY <1>1, <1>3, <2>1 DEF Lines
    <2> QED
        BY <2>1, <2>2, SameLine
<1>4. call \in [Cut -> Damaged]
    <2> SUFFICES ASSUME NEW i \in Cut PROVE <<output[i].thread, output[i].call>> \in Damaged
        OBVIOUS
    <2>1. PICK j \in lost : First(j) = i
        BY <1>3
    <2> QED
        BY <1>2, <2>1 DEF Damaged
<1>5. \A c \in Damaged : \E i \in Cut : call[i] = c
    <2> SUFFICES ASSUME NEW j \in lost
                 PROVE  \E i \in Cut : call[i] = <<output[j].thread, output[j].call>>
        BY DEF Damaged
    <2> QED
        BY <1>2
<1>6. \A i, k \in Cut : call[i] = call[k] => i = k
    <2> SUFFICES ASSUME NEW i \in Cut, NEW k \in Cut, call[i] = call[k] PROVE i = k
        OBVIOUS
    <2>1. output[i].thread = output[k].thread /\ output[i].call = output[k].call
        OBVIOUS
    <2> HIDE DEF call
    <2>2. output[i] \in Piece /\ i \in Lines /\ k \in Lines /\ i \in Int /\ k \in Int
        BY <1>1, ElementOf DEF Lines
    <2>3. output[i].call \in Int
        BY <2>2, LoggingInputs DEF Piece
    <2>4. ~(i < k) /\ ~(k < i)
        BY <2>1, <2>2, <2>3 DEF LinesInOrder
    <2> QED
        BY <2>2, <2>4
<1>7. ExistsBijection(Cut, Damaged)
    <2>1. call \in Bijection(Cut, Damaged)
        BY <1>4, <1>5, <1>6 DEF Bijection, Injection, Surjection, IsInjective
    <2> QED
        BY <2>1 DEF ExistsBijection
<1> HIDE DEF Cut
<1>8. /\ IsFiniteSet(Lines) /\ WholeLines \subseteq Lines /\ Lines \cap WholeLines = WholeLines
      /\ Cut = Lines \ WholeLines
    BY <1>1, SetsAreFinite DEF WholeLines, Cut
<1>9. IsFiniteSet(Cut) /\ Cardinality(Cut) = Cardinality(Lines) - Cardinality(WholeLines)
    BY <1>8, FS_Difference
<1>10. Cardinality(Damaged) = Cardinality(Cut) /\ Cardinality(Cut) \in Nat
    BY <1>7, <1>9, FS_Bijection, FS_CardinalityType
<1>11. Cardinality(WholeLines) \in Nat /\ Cardinality(Lines) \in Nat
    BY <1>8, FS_Subset, FS_CardinalityType
<1> QED
    BY <1>9, <1>10, <1>11

\* Of all calls that have returned each has its line on the terminal, in the order of
\* the thread's calls, or had a write fail for it, or is counted as an error.
THEOREM CallsAreAnswered == Spec => []CallsAreAccounted
<1>1. Init => Fresh /\ LinesInOrder /\ Counted /\ Runs
    <2> SUFFICES ASSUME Init PROVE Fresh /\ LinesInOrder /\ Counted /\ Runs
        OBVIOUS
    <2>0. Runs
        BY DEF Init, Runs
    <2>1. Fresh /\ LinesInOrder /\ Lines = {}
        BY DEF Init, Fresh, LinesInOrder, Lines
    <2>2. Pending = {}
        BY DEF Init, Pending
    <2>3. CallsBegun = {}
        <3>1. \A c \in Threads \X (1..MaxCalls) : ~(c[2] <= calls[c[1]])
            BY LoggingInputs DEF Init
        <3> QED
            BY <3>1 DEF CallsBegun
    <2>4. Cardinality({}) = 0
        BY FS_EmptySet
    <2> QED
        BY <2>0, <2>1, <2>2, <2>3, <2>4 DEF Counted, Init
<1>2. IInv /\ LinesInOrder /\ Counted /\ Runs /\ Joints => CallsAreAccounted
    <2> SUFFICES ASSUME IInv, LinesInOrder, Counted, Runs, Joints, \A t \in Threads : at[t] = "idle"
                 PROVE  Cardinality(WholeLines) + Cardinality(Damaged) + err_counter
                            = Cardinality(CallsBegun)
        BY DEF CallsAreAccounted, LinesInOrder
    <2>1. Pending = {} /\ Cardinality(Pending) = 0
        BY FS_EmptySet DEF Pending
    <2>2. Cardinality(Lines) \in Nat /\ err_counter \in Nat
        BY SetsAreFinite DEF IInv, TypeOK
    <2>3. Cardinality(Lines) + err_counter = Cardinality(CallsBegun)
        BY <2>1, <2>2 DEF Counted
    <2> QED
        BY <2>2, <2>3, DamagedLines
<1>3. Init => Printed /\ LineEnds /\ Joints
    BY DEF Init, Printed, LineEnds, Joints, Begun
<1> QED
    BY <1>1, <1>2, <1>3, IInvHolds, PrintedStep, LineEndsStep, JointsStep, FreshStep, OrderStep,
       CountedStep, RunsStep, PTL DEF Spec

-----------------------------------------------------------------------------
(* The end *)

LEMMA NobodyLeftStep == IInv /\ NobodyLeft /\ [Next]_vars => NobodyLeft'
<1> SUFFICES ASSUME IInv, NobodyLeft, [Next]_vars PROVE NobodyLeft'
    OBVIOUS
<1> USE LoggingInputs DEF NobodyLeft, Finished
<1>0. /\ MaxCalls \in Nat /\ calls \in [Threads -> 0..MaxCalls]
      /\ at \in [Threads -> {"idle", "called", "locked", "printing", "failed"}]
    BY DEF IInv, TypeOK
<1>1. ASSUME NEW t \in Threads, Call(t) \/ CallFails(t) PROVE NobodyLeft'
    <2>1. at[t] = "idle" /\ calls[t] < MaxCalls /\ UNCHANGED <<joined, registry, exit>>
        BY <1>1 DEF Call, CallFails, Go, endVars
    <2>2. calls[t] # MaxCalls
        BY <1>0, <2>1
    <2>3. joined => registry # "destroyed"
        BY <2>2
    <2> QED
        BY <2>1, <2>3
<1>2. ASSUME NEW t \in Threads,
             Lock(t) \/ Format(t) \/ FormatFails(t) \/ Return(t) \/ Report(t)
      PROVE  NobodyLeft'
    BY <1>0, <1>2 DEF Lock, Format, FormatFails, Return, Report, Go, endVars
<1>3. ASSUME NEW t \in Threads, WritePiece(t) PROVE NobodyLeft'
    BY <1>3 DEF WritePiece, Write, endVars
<1>4. ASSUME NEW t \in Threads, UseDestroyed(t) PROVE NobodyLeft'
    BY <1>4 DEF UseDestroyed
<1>5. CASE MainReturns
    BY <1>5 DEF MainReturns, threadVars
<1>6. CASE Exit
    BY <1>6 DEF Exit, threadVars
<1>7. CASE UNCHANGED vars
    BY <1>7 DEF vars, threadVars, endVars
<1> QED
    BY <1>1, <1>2, <1>3, <1>4, <1>5, <1>6, <1>7 DEF Next, ThreadStep, MainEnds, Ended

\* Joined threads never use a logger that is gone.
THEOREM LoggerOutlives == Spec => []LoggerOutlivesJoined
<1>1. Init => NobodyLeft
    BY DEF Init, NobodyLeft
<1>2. NobodyLeft => LoggerOutlivesJoined
    BY DEF NobodyLeft, LoggerOutlivesJoined
<1> QED
    BY <1>1, <1>2, IInvHolds, NobodyLeftStep, PTL DEF Spec

=============================================================================
